---------------------------- MODULE Marketplace ----------------------------
(***************************************************************************)
(* One template of the marketplace, a listing of it in the cache, and its  *)
(* ratings: controllers/templateController.ts, services/templateService.ts *)
(* and cacheService.ts, the moderation in adminDashboardController.ts, and *)
(* addVersion in communityService.ts.                                      *)
(*                                                                         *)
(* What the listing shows of the template is the number of changes its row *)
(* has had, or nothing when its filter leaves the template out.  Every     *)
(* await of a handler is a step, so that a listing may be computed before  *)
(* a change and stored after the invalidation that followed it.  The cache *)
(* is Redis, or the memory of the process while Redis does not answer; an  *)
(* entry lives for some seconds.                                           *)
(***************************************************************************)
EXTENDS Integers

CONSTANTS
    Requests,    \* requests in progress at once (a bound)
    Users,       \* who may rate the template
    CacheLife,   \* seconds a listing stays in the cache
    MaxRating,   \* ratings are 1 to this
    MaxChanges   \* bound on the changes of the template's row

ASSUME MarketplaceAssumption ==
    /\ CacheLife \in Nat \ {0}
    /\ MaxRating \in Nat
    /\ MaxChanges \in Nat

VARIABLES
    template,     \* the Template row
    ratings,      \* TemplateRating: the rating of each user, 0 without a row
    up,           \* Redis answers
    redis,        \* the listing in Redis
    memory,       \* the listing in the process
    req,          \* the requests
    unannounced,  \* a change was made that no invalidation followed
    drifted       \* a refresh of the ratings was overtaken, lost or not made

row    == <<template, ratings>>
caches == <<up, redis, memory>>
vars   == <<row, caches, req, unannounced, drifted>>

Nobody == [u \in Users |-> 0]
Entry  == [shows : 0..MaxChanges, left : 0..CacheLife, late : BOOLEAN]
Absent == [shows |-> 0, left |-> 0, late |-> FALSE]
Idle   == [pc |-> "idle", shows |-> 0, ratings |-> Nobody, found |-> FALSE, late |-> FALSE]

Init ==
    /\ template = [exists |-> FALSE, changes |-> 0, shown |-> FALSE, rated |-> Nobody]
    /\ ratings = Nobody
    /\ up \in BOOLEAN
    /\ redis = Absent
    /\ memory = Absent
    /\ req = [r \in Requests |-> Idle]
    /\ unannounced = FALSE
    /\ drifted = FALSE

Free(r)     == req[r].pc = "idle"
At(r, pc)   == req[r].pc = pc
Go(r, next) == req' = [req EXCEPT ![r] = next]
End(r)      == Go(r, Idle)

\* Request r goes on with next; those at pc are overtaken by what it has done.
Overtake(r, next, pc) ==
    req' = [q \in Requests |-> IF q = r THEN next
                               ELSE IF At(q, pc) THEN [req[q] EXCEPT !.late = TRUE] ELSE req[q]]

\* A statement that changes the row; new is the row with its other new values.
Change(new) ==
    /\ template.changes < MaxChanges
    /\ template' = [new EXCEPT !.changes = template.changes + 1]

Announce(r) == Go(r, [Idle EXCEPT !.pc = "invalidate"])

-----------------------------------------------------------------------------
(* listPublishedTemplates and searchTemplates: cacheGet, query, cacheSet *)

\* The where clause: buildTemplateWhere for a list; a search looks at published,
\* and not at the review or the flag.
View == IF template.exists /\ template.shown THEN template.changes ELSE 0

\* cacheGet finds nothing.
Look(r) ==
    /\ Free(r)
    /\ (IF up THEN redis ELSE memory).left = 0
    /\ Go(r, [Idle EXCEPT !.pc = "query"])
    /\ UNCHANGED <<row, caches, unannounced, drifted>>

Query(r) ==
    /\ At(r, "query")
    /\ Go(r, [req[r] EXCEPT !.pc = "store", !.shows = View])
    /\ UNCHANGED <<row, caches, unannounced, drifted>>

Computed(r) == [shows |-> req[r].shows, left |-> CacheLife, late |-> req[r].late]

\* cacheSet: in Redis, or in memory when that fails.
Store(r) ==
    /\ At(r, "store")
    /\ IF up THEN redis' = Computed(r) /\ UNCHANGED memory
             ELSE memory' = Computed(r) /\ UNCHANGED redis
    /\ End(r)
    /\ UNCHANGED <<row, up, unannounced, drifted>>

Older(entry) == IF entry.left > 1 THEN [entry EXCEPT !.left = @ - 1] ELSE Absent

\* Mutant: the copy in memory has no end.
Tick_MemoryStays ==
    /\ redis.left > 0
    /\ redis' = Older(redis)
    /\ UNCHANGED <<row, up, memory, req, unannounced, drifted>>

\* EX, and expiresAt.
Tick ==
    /\ redis.left > 0 \/ memory.left > 0
    /\ redis' = Older(redis)
    /\ memory' = Older(memory)
    /\ UNCHANGED <<row, up, req, unannounced, drifted>>

RedisChanges ==
    /\ up' = ~up
    /\ UNCHANGED <<row, redis, memory, req, unannounced, drifted>>

-----------------------------------------------------------------------------
(* invalidateTemplateCache: cacheDeleteByPrefix("templates:") *)

\* The keys are listed.  A listing computed before may be stored after this.
FindKeys(r) ==
    /\ At(r, "invalidate")
    /\ Overtake(r, [Idle EXCEPT !.pc = "delete", !.found = up /\ redis.left > 0], "store")
    /\ unannounced' = ~up
    /\ UNCHANGED <<row, caches, drifted>>

\* The keys found are deleted from Redis, then those of the memory.
DeleteKeys(r) ==
    /\ At(r, "delete")
    /\ redis' = IF up /\ req[r].found THEN Absent ELSE redis
    /\ memory' = Absent
    /\ unannounced' = (unannounced \/ (~up /\ req[r].found))
    /\ End(r)
    /\ UNCHANGED <<row, up, drifted>>

-----------------------------------------------------------------------------
(* The changes *)

\* createTemplate, published or not.
Create(r) ==
    /\ Free(r)
    /\ template.changes = 0
    /\ \E shown \in BOOLEAN : Change([template EXCEPT !.exists = TRUE, !.shown = shown])
    /\ Announce(r)
    /\ UNCHANGED <<ratings, caches, unannounced, drifted>>

\* Mutant: the cache is left as it is.
Update_Quietly(r) ==
    /\ Free(r)
    /\ template.exists
    /\ Change(template)
    /\ UNCHANGED <<ratings, caches, req, unannounced, drifted>>

\* updateTemplate, and the transaction of consumeDownload, which counts the download.
Update(r) ==
    /\ Free(r)
    /\ template.exists
    /\ Change(template)
    /\ Announce(r)
    /\ UNCHANGED <<ratings, caches, unannounced, drifted>>

\* deleteTemplate; its ratings go with it.
Delete(r) ==
    /\ Free(r)
    /\ template.exists
    /\ Change([template EXCEPT !.exists = FALSE])
    /\ ratings' = Nobody
    /\ Announce(r)
    /\ UNCHANGED <<caches, unannounced, drifted>>

\* patchTemplate, and addVersion, change the row and leave the cache as it is.
Moderate ==
    /\ template.exists
    /\ \E shown \in BOOLEAN : Change([template EXCEPT !.shown = shown])
    /\ unannounced' = TRUE
    /\ UNCHANGED <<ratings, caches, req, drifted>>

-----------------------------------------------------------------------------
(* rateTemplate and refreshTemplateRating *)

\* Mutant: the averages are taken before the rating is stored.
Rate_AfterAverages(r, u, rating) ==
    /\ Free(r)
    /\ template.exists
    /\ ratings' = [ratings EXCEPT ![u] = rating]
    /\ Overtake(r, [Idle EXCEPT !.pc = "refresh", !.ratings = ratings], "refresh")
    /\ UNCHANGED <<template, caches, unannounced, drifted>>

\* The upsert.
Rate(r, u, rating) ==
    /\ Free(r)
    /\ template.exists
    /\ ratings' = [ratings EXCEPT ![u] = rating]
    /\ Overtake(r, [Idle EXCEPT !.pc = "aggregate"], "refresh")
    /\ UNCHANGED <<template, caches, unannounced, drifted>>

\* _avg and _count are functions of the ratings as they are.
Aggregate(r) ==
    /\ At(r, "aggregate")
    /\ Go(r, [req[r] EXCEPT !.pc = "refresh", !.ratings = ratings])
    /\ UNCHANGED <<row, caches, unannounced, drifted>>

Refresh(r) ==
    /\ At(r, "refresh")
    /\ template.exists
    /\ Change([template EXCEPT !.rated = req[r].ratings])
    /\ drifted' = req[r].late
    /\ Announce(r)
    /\ UNCHANGED <<ratings, caches, unannounced>>

\* deleteReview deletes the row and refreshes nothing.
DeleteReview(u) ==
    /\ ratings[u] # 0
    /\ ratings' = [ratings EXCEPT ![u] = 0]
    /\ req' = [q \in Requests |-> IF At(q, "refresh") THEN [req[q] EXCEPT !.late = TRUE] ELSE req[q]]
    /\ drifted' = TRUE
    /\ UNCHANGED <<template, caches, unannounced>>

-----------------------------------------------------------------------------
\* A statement fails, or the row is gone: the request ends where it is.
Fail(r) ==
    /\ ~Free(r)
    /\ unannounced' = (unannounced \/ req[r].pc \in {"invalidate", "delete"})
    /\ drifted' = (drifted \/ req[r].pc \in {"aggregate", "refresh"})
    /\ End(r)
    /\ UNCHANGED <<row, caches>>

Continue(r) ==
    Query(r) \/ Store(r) \/ FindKeys(r) \/ DeleteKeys(r) \/ Aggregate(r) \/ Refresh(r) \/ Fail(r)

Begin(r) ==
    \/ Look(r) \/ Create(r) \/ Update(r) \/ Delete(r)
    \/ \E u \in Users, rating \in 1..MaxRating : Rate(r, u, rating)

Next ==
    \/ \E r \in Requests : Begin(r) \/ Continue(r)
    \/ \E u \in Users : DeleteReview(u)
    \/ Moderate \/ Tick \/ RedisChanges

\* Time goes on, and a request that has begun goes on or fails.
Fairness == WF_vars(Tick) /\ \A r \in Requests : WF_vars(Continue(r))

Spec == Init /\ [][Next]_vars /\ Fairness

-----------------------------------------------------------------------------
(* What the code keeps true *)

Pcs == {"idle", "query", "store", "invalidate", "delete", "aggregate", "refresh"}

\* The tables and caches hold what the handlers put there; a deleted template has
\* no ratings.
TypeOK ==
    /\ up \in BOOLEAN
    /\ template \in [exists : BOOLEAN, changes : 0..MaxChanges,
                     shown : BOOLEAN, rated : [Users -> 0..MaxRating]]
    /\ ratings \in [Users -> 0..MaxRating]
    /\ redis \in Entry /\ memory \in Entry
    /\ req \in [Requests -> [pc : Pcs, shows : 0..MaxChanges, ratings : [Users -> 0..MaxRating],
                             found : BOOLEAN, late : BOOLEAN]]
    /\ unannounced \in BOOLEAN /\ drifted \in BOOLEAN
    /\ ~template.exists => ratings = Nobody

Current(entry) == entry.left > 0 => entry.shows = View

\* Once an edit, a rating, a download or a deletion is answered, a cached listing
\* shows it, unless the listing was being computed when the cache was emptied, or
\* some change was made without emptying it: by an administrator, by a new version,
\* with Redis out of reach, or by a request that failed half-way.
ListingsFollowChanges ==
    \/ unannounced
    \/ \E r \in Requests : req[r].pc \in {"invalidate", "delete"}
    \/ \A entry \in {redis, memory} : entry.late \/ Current(entry)

\* However listings, changes and failures of Redis are interleaved, once the
\* changes end the listing, in Redis or in the process, comes to show the template
\* as it is, and stays so.
ListingsConverge == <>[](Current(redis) /\ Current(memory))

\* The average and the count on the template are those of its reviews, but while a
\* refresh is on its way, and after one that another review overtook, that failed,
\* or that the deletion of a review never made.
RatingsAreExact ==
    \/ template.rated = ratings \/ drifted \/ ~template.exists
    \/ \E r \in Requests : req[r].pc \in {"aggregate", "refresh"}

-----------------------------------------------------------------------------
(* The inductive invariant of MarketplaceProofs *)

\* While no change waits to be announced, what is about to be stored is right or
\* late, and so is each copy, unless a request is about to delete it.
Listed ==
    \/ unannounced \/ \E r \in Requests : At(r, "invalidate")
    \/ /\ \A r \in Requests : At(r, "store") => req[r].late \/ req[r].shows = View
       /\ redis.late \/ Current(redis) \/ \E r \in Requests : At(r, "delete") /\ req[r].found
       /\ memory.late \/ Current(memory) \/ \E r \in Requests : At(r, "delete")

\* Averages on their way are those of the ratings, or late.
Rated ==
    /\ template.changes = 0 =>
           /\ ~template.exists /\ template.rated = Nobody
           /\ \A r \in Requests : req[r].pc \notin {"aggregate", "refresh"}
    /\ template.exists =>
           /\ \A r \in Requests : At(r, "refresh") => req[r].late \/ req[r].ratings = ratings
           /\ \/ template.rated = ratings \/ drifted
              \/ \E r \in Requests : req[r].pc \in {"aggregate", "refresh"}

MarketInv == TypeOK /\ Listed /\ Rated
=============================================================================
