----------------------------- MODULE Community -----------------------------
(***************************************************************************)
(* What the community gives one creator: reputation, badges and likes.     *)
(* services/communityService.ts with its callers in communityController,   *)
(* and the ends of createTemplate and rateTemplate in templateController.  *)
(*                                                                         *)
(* A follow, an endorsement, a like or a helpful vote is a row with a      *)
(* unique key; the handler then adds its points, notifies, and counts, in  *)
(* statements of their own.  Every await is a step.  The creator has one   *)
(* template to like, one skill to endorse and one reply to vote for.       *)
(***************************************************************************)
EXTENDS Integers, FiniteSets

CONSTANTS
    Requests,      \* requests in progress at once (a bound)
    Fans,          \* the other users
    Points,        \* bumpReputation's second argument: 1, 2, 1, 5 and 2 in the code
    HelperVotes,   \* helpful votes that make a Community Helper
    TopTemplates,  \* published templates that make a Top Creator
    MaxPoints,     \* bound on the points earned
    MaxTemplates   \* bound on the templates published

ASSUME CommunityAssumption ==
    /\ IsFiniteSet(Fans) /\ IsFiniteSet(Requests)
    /\ Points \in [{"follow", "endorse", "like", "vote", "review"} -> Nat]
    /\ HelperVotes \in Nat \ {0}
    /\ TopTemplates \in Nat \ {0}
    /\ MaxPoints \in Nat
    /\ MaxTemplates \in Nat

VARIABLES
    rows,        \* Follow, Endorsement, TemplateLike, ForumVote: who made one
    published,   \* published templates of the creator
    reputation,  \* of the creator
    badges,      \* of the creator
    shown,       \* the like count last published to the template's room
    req,         \* the requests
    earned,      \* points of all rows and reviews created so far
    lost,        \* ... of those whose request failed before adding them
    peak,        \* most templates published at one time
    missed,      \* badges that a failed request or a later publication left out
    stale        \* the like count last published was overtaken, or never came

store  == <<rows, published, reputation, badges, shown>>
ghosts == <<earned, lost, peak, missed, stale>>
vars   == <<store, req, ghosts>>

Kinds  == {"follow", "endorse", "like", "vote"}
Badges == {"First Template", "Top Creator", "Community Helper"}

Idle == [pc |-> "idle", kind |-> "template", fan |-> 0, had |-> FALSE, count |-> 0, late |-> FALSE]

Init ==
    /\ rows = [kind \in Kinds |-> {}]
    /\ published = 0
    /\ reputation = 0
    /\ badges = {}
    /\ shown = 0
    /\ req = [r \in Requests |-> Idle]
    /\ earned = 0
    /\ lost = 0
    /\ peak = 0
    /\ missed = {}
    /\ stale = FALSE

Free(r)         == req[r].pc = "idle"
At(r, pc, kind) == req[r].pc = pc /\ req[r].kind = kind
Go(r, next)     == req' = [req EXCEPT ![r] = next]
Goto(r, pc)     == Go(r, [req[r] EXCEPT !.pc = pc])
End(r)          == Go(r, Idle)

New(kind, pc) == [Idle EXCEPT !.kind = kind, !.pc = pc]

Earn(kind) ==
    /\ earned + Points[kind] <= MaxPoints
    /\ earned' = earned + Points[kind]

Insert(kind, fan) ==
    /\ Earn(kind)
    /\ rows' = [rows EXCEPT ![kind] = @ \cup {fan}]

-----------------------------------------------------------------------------
(* followUser, endorse, voteHelpful: the row first, refused when it exists *)

Start(r, kind, fan) ==
    /\ Free(r)
    /\ kind # "like"
    /\ fan \notin rows[kind]
    /\ Insert(kind, fan)
    /\ Go(r, New(kind, "bump"))
    /\ UNCHANGED <<published, reputation, badges, shown, lost, peak, missed, stale>>

\* unfollowUser takes no points back.
Unfollow(fan) ==
    /\ rows' = [rows EXCEPT !["follow"] = @ \ {fan}]
    /\ UNCHANGED <<published, reputation, badges, shown, req, ghosts>>

\* rateTemplate, once the review is stored: new or changed, it gives points.
Review(r) ==
    /\ Free(r)
    /\ Earn("review")
    /\ Go(r, New("review", "bump"))
    /\ UNCHANGED <<store, lost, peak, missed, stale>>

\* Where a request goes once its points are added: a like and a vote are counted.
AfterBump(r) == IF req[r].kind \in {"like", "vote"} THEN Goto(r, "count") ELSE End(r)

\* Mutant: the reputation is read and written back.
Bump_ReadWrite(r) ==
    \/ /\ req[r].pc = "bump"
       /\ Go(r, [req[r] EXCEPT !.pc = "add", !.count = reputation])
       /\ UNCHANGED <<store, ghosts>>
    \/ /\ req[r].pc = "add"
       /\ reputation' = req[r].count + Points[req[r].kind]
       /\ AfterBump(r)
       /\ UNCHANGED <<rows, published, badges, shown, ghosts>>

\* bumpReputation, then notify and logActivity.
Bump(r) ==
    /\ req[r].pc = "bump"
    /\ reputation' = reputation + Points[req[r].kind]
    /\ AfterBump(r)
    /\ UNCHANGED <<rows, published, badges, shown, ghosts>>

-----------------------------------------------------------------------------
(* toggleLike *)

FindLike(r, fan) ==
    /\ Free(r)
    /\ Go(r, [New("like", "toggle") EXCEPT !.fan = fan, !.had = fan \in rows["like"]])
    /\ UNCHANGED <<store, ghosts>>

\* Request r goes on at pc; a like count read before is overtaken.
Overtake(r, pc) ==
    req' = [q \in Requests |->
               IF q = r THEN [req[r] EXCEPT !.pc = pc]
               ELSE IF At(q, "publish", "like") THEN [req[q] EXCEPT !.late = TRUE] ELSE req[q]]

\* The delete fails without the row, the create with it.
Like(r) ==
    /\ At(r, "toggle", "like")
    /\ ~req[r].had
    /\ req[r].fan \notin rows["like"]
    /\ Insert("like", req[r].fan)
    /\ Overtake(r, "bump")
    /\ UNCHANGED <<published, reputation, badges, shown, lost, peak, missed, stale>>

Unlike(r) ==
    /\ At(r, "toggle", "like")
    /\ req[r].had
    /\ req[r].fan \in rows["like"]
    /\ rows' = [rows EXCEPT !["like"] = @ \ {req[r].fan}]
    /\ Overtake(r, "count")
    /\ UNCHANGED <<published, reputation, badges, shown, ghosts>>

CountLikes(r) ==
    /\ At(r, "count", "like")
    /\ Go(r, [req[r] EXCEPT !.pc = "publish", !.count = Cardinality(rows["like"])])
    /\ UNCHANGED <<store, ghosts>>

\* Mutant: the count is worked out from the one last published.
Publish_FromShown(r) ==
    /\ At(r, "publish", "like")
    /\ shown' = IF req[r].had THEN shown - 1 ELSE shown + 1
    /\ stale' = req[r].late
    /\ End(r)
    /\ UNCHANGED <<rows, published, reputation, badges, earned, lost, peak, missed>>

Publish(r) ==
    /\ At(r, "publish", "like")
    /\ shown' = req[r].count
    /\ stale' = req[r].late
    /\ End(r)
    /\ UNCHANGED <<rows, published, reputation, badges, earned, lost, peak, missed>>

-----------------------------------------------------------------------------
(* awardBadge, from voteHelpful and from createTemplate by maybeTopCreator *)

PublishOne ==
    /\ published < MaxTemplates
    /\ published' = published + 1
    /\ peak' = IF published = peak THEN peak + 1 ELSE peak

\* createTemplate, once the template is stored, published or not.
Create(r) ==
    /\ Free(r)
    /\ UNCHANGED <<published, peak>> \/ PublishOne
    /\ Go(r, New("template", "first"))
    /\ UNCHANGED <<rows, reputation, badges, shown, earned, lost, missed, stale>>

First(r) ==
    /\ req[r].pc = "first"
    /\ badges' = badges \cup {"First Template"}
    /\ Goto(r, "count")
    /\ UNCHANGED <<rows, published, reputation, shown, ghosts>>

\* Mutant: one less will do.
Enough_Less(r) ==
    IF req[r].kind = "vote" THEN Cardinality(rows["vote"]) + 1 >= HelperVotes
    ELSE published + 1 >= TopTemplates

Enough(r) ==
    IF req[r].kind = "vote" THEN Cardinality(rows["vote"]) >= HelperVotes
    ELSE published >= TopTemplates

CountForBadge(r) ==
    /\ req[r].pc = "count"
    /\ req[r].kind \in {"vote", "template"}
    /\ IF Enough(r) THEN Goto(r, "award") ELSE End(r)
    /\ UNCHANGED <<store, ghosts>>

BadgeOf(kind) == IF kind = "vote" THEN "Community Helper" ELSE "Top Creator"

Award(r) ==
    /\ req[r].pc = "award"
    /\ badges' = badges \cup {BadgeOf(req[r].kind)}
    /\ End(r)
    /\ UNCHANGED <<rows, published, reputation, shown, ghosts>>

\* updateTemplate and patchTemplate publish and withdraw without looking at badges.
Republish ==
    /\ PublishOne
    /\ missed' = missed \cup {"Top Creator"}
    /\ UNCHANGED <<rows, reputation, badges, shown, req, earned, lost, stale>>

Withdraw ==
    /\ published > 0
    /\ published' = published - 1
    /\ UNCHANGED <<rows, reputation, badges, shown, req, ghosts>>

-----------------------------------------------------------------------------
\* A statement fails, a notification too: the request ends where it is.
Fail(r) ==
    /\ ~Free(r)
    /\ lost' = lost + (IF req[r].pc = "bump" THEN Points[req[r].kind] ELSE 0)
    /\ missed' = missed \cup (IF req[r].kind \in {"vote", "template"} THEN {BadgeOf(req[r].kind)} ELSE {})
    /\ stale' = (stale \/ (req[r].kind = "like" /\ req[r].pc # "toggle"))
    /\ End(r)
    /\ UNCHANGED <<store, earned, peak>>

Next ==
    \/ \E r \in Requests :
           \/ \E fan \in Fans : FindLike(r, fan) \/ \E kind \in Kinds : Start(r, kind, fan)
           \/ Review(r) \/ Create(r)
           \/ Bump(r) \/ Like(r) \/ Unlike(r) \/ CountLikes(r) \/ Publish(r)
           \/ First(r) \/ CountForBadge(r) \/ Award(r) \/ Fail(r)
    \/ \E fan \in Fans : Unfollow(fan)
    \/ Republish \/ Withdraw

Spec == Init /\ [][Next]_vars

-----------------------------------------------------------------------------
(* What the code keeps true *)

\* The tables hold what the handlers put there.
TypeOK ==
    /\ rows \in [Kinds -> SUBSET Fans]
    /\ published \in 0..peak /\ peak \in 0..MaxTemplates
    /\ earned \in 0..MaxPoints /\ reputation \in 0..earned /\ lost \in 0..earned
    /\ shown \in 0..Cardinality(Fans) /\ stale \in BOOLEAN
    /\ badges \subseteq Badges /\ missed \subseteq Badges
    /\ \A r \in Requests : req[r].kind \in DOMAIN Points \cup {"template"}

Pending == {r \in Requests : req[r].pc = "bump"}

\* The points still to be added, one by one.
Owed == UNION {{r} \X (1..Points[req[r].kind]) : r \in Pending}

\* The creator's reputation is the points of every follow, endorsement, like, vote
\* and review there ever was, but for those still to be added and those whose
\* request failed in between; points given at the same time do not overwrite
\* each other.
ReputationIsEarned == reputation = earned - lost - Cardinality(Owed)

Reached(kind) ==
    IF kind = "vote" THEN Cardinality(rows["vote"]) >= HelperVotes ELSE published >= TopTemplates

\* Of several requests that reach the number together, at least one sees it: who
\* has the votes or the templates has the badge, but while a request that may give
\* it is on its way, after one that failed, or when a template was published later.
\* And a badge is only for who had the votes, or the templates at one time.
BadgesFollowNumbers ==
    /\ \A kind \in {"vote", "template"} :
           Reached(kind) =>
               \/ BadgeOf(kind) \in badges \cup missed
               \/ \E r \in Requests : req[r].kind = kind /\ ~Free(r)
    /\ "Community Helper" \in badges => Cardinality(rows["vote"]) >= HelperVotes
    /\ "Top Creator" \in badges => peak >= TopTemplates

\* Both: the creator's points and badges are those of what others did, neither more
\* nor less, whatever requests run together.
StandingIsEarned == ReputationIsEarned /\ BadgesFollowNumbers

\* The like count last sent to those who look at the template is the number of
\* likes, but while a toggle is on its way, and after a count that another toggle
\* overtook or that failed.
LikeCountSettles ==
    \/ shown = Cardinality(rows["like"]) \/ stale
    \/ \E r \in Requests : req[r].kind = "like" /\ req[r].pc \in {"bump", "count", "publish"}
-----------------------------------------------------------------------------
(* The inductive invariant of SiteProofs *)

Request == [pc : {"idle", "toggle", "bump", "count", "publish", "first", "award"},
            kind : Kinds \cup {"template", "review"}, fan : Fans \cup {0}, had : BOOLEAN,
            count : Nat, late : BOOLEAN]

Shape(q) ==
    \/ q.kind = "template" /\ q.pc \in {"idle", "first", "count", "award"}
    \/ q.kind \in {"follow", "endorse", "review"} /\ q.pc = "bump"
    \/ q.kind = "vote" /\ q.pc \in {"bump", "count", "award"}
    \/ q.kind = "like" /\ q.pc \in {"toggle", "bump", "count", "publish"}

\* What a request is about to do is right when it does it, or it is marked late.
Ready(q) ==
    /\ Shape(q)
    /\ q.pc = "toggle" => q.fan \in Fans
    /\ q.kind = "vote" /\ q.pc = "award" => Cardinality(rows["vote"]) >= HelperVotes
    /\ q.kind = "template" /\ q.pc = "award" => peak >= TopTemplates
    /\ q.pc = "publish" =>
           q.count <= Cardinality(Fans) /\ (q.late \/ q.count = Cardinality(rows["like"]))

CommunityInv ==
    /\ TypeOK
    /\ req \in [Requests -> Request]
    /\ \A r \in Requests : Ready(req[r])
    /\ ReputationIsEarned
    /\ BadgesFollowNumbers
    /\ LikeCountSettles
=============================================================================
