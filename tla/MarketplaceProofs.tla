-------------------------- MODULE MarketplaceProofs --------------------------
(***************************************************************************)
(* The cached listing and the average rating of a template, for any number *)
(* of requests, users, changes and seconds.                                *)
(***************************************************************************)
EXTENDS MCMarketplace, TLAPS

USE MarketplaceAssumption

MRatings == [Users -> 0..MaxRating]
MRow == [exists : BOOLEAN, changes : 0..MaxChanges, shown : BOOLEAN, rated : MRatings]
MReq == [pc : Pcs, shows : 0..MaxChanges, ratings : MRatings, found : BOOLEAN, late : BOOLEAN]

\* The requests whose steps are about the ratings, and those about the listing.
IsRating(y)  == y.pc \in {"aggregate", "refresh"}
IsListing(y) == y.pc \in {"store", "invalidate", "delete"}

LEMMA PcsAre == Pcs = {"idle", "query", "store", "invalidate", "delete", "aggregate", "refresh"}
  BY DEF Pcs

LEMMA TypesAre == TypeOK <=>
    /\ up \in BOOLEAN /\ template \in MRow /\ ratings \in MRatings /\ redis \in Entry /\ memory \in Entry
    /\ req \in [Requests -> MReq] /\ unannounced \in BOOLEAN /\ drifted \in BOOLEAN
    /\ ~template.exists => ratings = Nobody
  BY Zenon DEF TypeOK, MRow, MReq, MRatings

\* The same of the state a step leads to.
LEMMA TypesThen == TypeOK' <=>
    /\ up' \in BOOLEAN /\ template' \in MRow /\ ratings' \in MRatings /\ redis' \in Entry /\ memory' \in Entry
    /\ req' \in [Requests -> MReq] /\ unannounced' \in BOOLEAN /\ drifted' \in BOOLEAN
    /\ ~template'.exists => ratings' = Nobody
  BY Zenon DEF TypeOK, MRow, MReq, MRatings

LEMMA NobodyRated == Nobody \in MRatings
  <1>1. 0 \in 0..MaxRating
    OBVIOUS
  <1>2. QED
    BY <1>1 DEF Nobody, MRatings

\* A request that is free, and one that begins.
LEMMA IdleIs ==
  /\ Idle \in MReq /\ Idle.pc = "idle"
  /\ \A at \in Pcs : LET y == [Idle EXCEPT !.pc = at] IN y \in MReq /\ y.pc = at
  <1>1. Idle \in MReq /\ Idle.pc = "idle"
    <2>1. 0 \in 0..MaxChanges /\ "idle" \in Pcs
      BY PcsAre
    <2>2. QED
      BY <2>1, NobodyRated DEF Idle, MReq
  <1>2. QED
    BY <1>1 DEF MReq

\* An empty place in a cache, and a copy that grows older.
LEMMA OlderIs ==
  ASSUME NEW e \in Entry
  PROVE  /\ Absent \in Entry /\ Absent.left = 0
         /\ Older(e) \in Entry
         /\ Older(e).left > 0 => e.left > 0 /\ Older(e).shows = e.shows /\ Older(e).late = e.late
  <1>1. Absent \in Entry /\ Absent.left = 0
    BY DEF Absent, Entry
  <1>2. CASE e.left > 1
    <2>1. Older(e) = [e EXCEPT !.left = @ - 1]
      BY <1>2 DEF Older
    <2>2. e.left \in 0..CacheLife /\ e.left - 1 \in 0..CacheLife
      BY <1>2 DEF Entry
    <2>3. Older(e) \in Entry /\ Older(e).shows = e.shows /\ Older(e).late = e.late
      BY <2>1, <2>2 DEF Entry
    <2>4. QED
      BY <1>1, <1>2, <2>2, <2>3
  <1>3. CASE ~(e.left > 1)
    BY <1>1, <1>3 DEF Older
  <1>4. QED
    BY <1>2, <1>3

\* A row after a change.
LEMMA ChangeIs ==
  ASSUME TypeOK, NEW new \in MRow, Change(new)
  PROVE  /\ template' \in MRow /\ template'.changes # 0
         /\ template'.exists = new.exists /\ template'.rated = new.rated
  <1>1. template \in MRow
    BY TypesAre
  <1>2. template.changes + 1 \in 0..MaxChanges /\ template.changes + 1 # 0
    BY <1>1 DEF MRow, Change
  <1>3. QED
    BY <1>2 DEF MRow, Change

\* Nothing happens to the ratings.
LEMMA RatedSame ==
  ASSUME Rated, template' = template, ratings' = ratings, drifted => drifted',
         \A q \in Requests : IsRating(req[q]) \/ IsRating(req'[q]) => req'[q] = req[q]
  PROVE  Rated'
  <1>1. \A q \in Requests : (IsRating(req'[q]) <=> IsRating(req[q]))
                            /\ (At(q, "refresh")' => At(q, "refresh") /\ req'[q] = req[q])
    BY DEF IsRating, At
  <1>2. Nobody' = Nobody
    BY DEF Nobody
  <1>3. QED
    BY <1>1, <1>2 DEF Rated, IsRating, At

\* Nothing happens to the listing.
LEMMA ListedSame ==
  ASSUME Listed, template' = template, redis' = redis, memory' = memory, unannounced => unannounced',
         \A q \in Requests : IsListing(req[q]) \/ IsListing(req'[q]) => req'[q] = req[q]
  PROVE  Listed'
  <1>1. \A q \in Requests : \A at \in {"store", "invalidate", "delete"} :
            (At(q, at)' <=> At(q, at)) /\ (At(q, at) => req'[q] = req[q])
    BY DEF IsListing, At
  <1>2. View' = View /\ (Current(redis)' <=> Current(redis)) /\ (Current(memory)' <=> Current(memory))
    BY DEF View, Current
  <1>3. QED
    BY <1>1, <1>2 DEF Listed

\* A change that will be announced, or never is.
LEMMA ListedAnnounces ==
  ASSUME unannounced' \/ \E q \in Requests : req'[q].pc = "invalidate"
  PROVE  Listed'
  BY DEF Listed, At

\* A listing is looked for, computed or stored.
LEMMA ListKept ==
  ASSUME MarketInv, NEW r \in Requests, Look(r) \/ Query(r) \/ Store(r)
  PROVE  MarketInv'
  <1>1. TypeOK /\ Listed /\ Rated
    BY DEF MarketInv
  <1>2. /\ up \in BOOLEAN /\ template \in MRow /\ ratings \in MRatings /\ redis \in Entry /\ memory \in Entry
        /\ req \in [Requests -> MReq] /\ unannounced \in BOOLEAN /\ drifted \in BOOLEAN
        /\ ~template.exists => ratings = Nobody
    BY <1>1, TypesAre
  <1>3. /\ template' = template /\ ratings' = ratings /\ up' = up /\ unannounced' = unannounced /\ drifted' = drifted
    BY DEF Look, Query, Store, row, caches
  <1>4. CASE Look(r)
    <2> DEFINE y == [Idle EXCEPT !.pc = "query"]
    <2>1. req[r].pc = "idle" /\ req' = [req EXCEPT ![r] = y] /\ redis' = redis /\ memory' = memory
      BY <1>4 DEF Look, Free, Go, caches
    <2>2. y \in MReq /\ y.pc = "query"
      BY IdleIs, PcsAre
    <2> HIDE DEF y
    <2>3. req' \in [Requests -> MReq] /\ \A q \in Requests : req'[q] = IF q = r THEN y ELSE req[q]
      BY <1>2, <2>1, <2>2
    <2>4. TypeOK'
      BY <1>2, <1>3, <2>1, <2>3, TypesThen
    <2>5. Rated' /\ Listed'
      BY <1>1, <1>3, <2>1, <2>2, <2>3, RatedSame, ListedSame DEF IsRating, IsListing
    <2>6. QED
      BY <2>4, <2>5 DEF MarketInv
  <1>5. CASE Query(r)
    <2> DEFINE y == [req[r] EXCEPT !.pc = "store", !.shows = View]
    <2>1. req[r].pc = "query" /\ req' = [req EXCEPT ![r] = y] /\ redis' = redis /\ memory' = memory
      BY <1>5 DEF Query, At, Go, caches
    <2>2. View \in 0..MaxChanges
      BY <1>2 DEF View, MRow
    <2>3. "store" \in Pcs
      BY PcsAre
    <2>4. y \in MReq /\ y.pc = "store" /\ y.shows = View
      BY <1>2, <2>2, <2>3 DEF MReq
    <2> HIDE DEF y
    <2>5. req' \in [Requests -> MReq] /\ \A q \in Requests : req'[q] = IF q = r THEN y ELSE req[q]
      BY <1>2, <2>1, <2>4
    <2>6. TypeOK'
      BY <1>2, <1>3, <2>1, <2>5, TypesThen
    <2>7. Rated'
      BY <1>1, <1>3, <2>1, <2>4, <2>5, RatedSame DEF IsRating
    <2>8. Listed'
      <3>1. View' = View /\ (Current(redis)' <=> Current(redis)) /\ (Current(memory)' <=> Current(memory))
        BY <1>3, <2>1 DEF View, Current
      <3>2. \A q \in Requests : /\ At(q, "invalidate") => At(q, "invalidate")'
                                /\ At(q, "delete") => At(q, "delete")' /\ req'[q] = req[q]
                                /\ At(q, "store")' => req'[q].shows = View \/ (At(q, "store") /\ req'[q] = req[q])
        BY <2>1, <2>4, <2>5 DEF At
      <3>3. QED
        BY <1>1, <1>3, <2>1, <3>1, <3>2 DEF Listed
    <2>9. QED
      BY <2>6, <2>7, <2>8 DEF MarketInv
  <1>6. CASE Store(r)
    <2> DEFINE e == Computed(r)
    <2>1. /\ req[r].pc = "store" /\ req' = [req EXCEPT ![r] = Idle]
          /\ IF up THEN redis' = e /\ memory' = memory ELSE memory' = e /\ redis' = redis
      BY <1>6 DEF Store, At, End, Go
    <2>2. CacheLife \in 0..CacheLife /\ req[r] \in MReq
      BY <1>2
    <2>3. e \in Entry /\ e.shows = req[r].shows /\ e.late = req[r].late
      BY <2>2 DEF Computed, Entry, MReq
    <2> HIDE DEF e
    <2>4. req' \in [Requests -> MReq] /\ \A q \in Requests : req'[q] = IF q = r THEN Idle ELSE req[q]
      BY <1>2, <2>1, IdleIs
    <2>5. TypeOK'
      BY <1>2, <1>3, <2>1, <2>3, <2>4, TypesThen
    <2>6. Rated'
      BY <1>1, <1>3, <2>1, <2>4, IdleIs, RatedSame DEF IsRating
    <2>7. Listed'
      <3>1. CASE unannounced \/ \E q \in Requests : At(q, "invalidate")
        <4>1. unannounced' \/ \E q \in Requests : req'[q].pc = "invalidate"
          BY <1>3, <2>1, <2>4, <3>1 DEF At
        <4>2. QED
          BY <4>1, ListedAnnounces
      <3>2. CASE ~unannounced /\ ~(\E q \in Requests : At(q, "invalidate"))
        <4>1. View' = View
          BY <1>3 DEF View
        <4>2. e.late \/ Current(e)
          BY <1>1, <2>1, <2>3, <3>2 DEF Listed, At, Current
        <4>3. \A q \in Requests : /\ At(q, "delete") => At(q, "delete")' /\ req'[q] = req[q]
                                  /\ At(q, "store")' => At(q, "store") /\ req'[q] = req[q]
          BY <2>1, <2>4, IdleIs DEF At
        <4>4. \/ redis'.late \/ (redis'.left > 0 => redis'.shows = View)
              \/ \E q \in Requests : At(q, "delete") /\ req[q].found
          BY <1>1, <2>1, <3>2, <4>2 DEF Listed, Current
        <4>5. \/ memory'.late \/ (memory'.left > 0 => memory'.shows = View)
              \/ \E q \in Requests : At(q, "delete")
          BY <1>1, <2>1, <3>2, <4>2 DEF Listed, Current
        <4>6. QED
          BY <1>1, <3>2, <4>1, <4>3, <4>4, <4>5 DEF Listed, Current
      <3>3. QED
        BY <3>1, <3>2
    <2>8. QED
      BY <2>5, <2>6, <2>7 DEF MarketInv
  <1>7. QED
    BY <1>4, <1>5, <1>6

\* The copies grow older, or Redis comes and goes.
LEMMA CachesKept ==
  ASSUME MarketInv, Tick \/ RedisChanges
  PROVE  MarketInv'
  <1>1. TypeOK /\ Listed /\ Rated
    BY DEF MarketInv
  <1>2. /\ up \in BOOLEAN /\ template \in MRow /\ ratings \in MRatings /\ redis \in Entry /\ memory \in Entry
        /\ req \in [Requests -> MReq] /\ unannounced \in BOOLEAN /\ drifted \in BOOLEAN
        /\ ~template.exists => ratings = Nobody
    BY <1>1, TypesAre
  <1>3. /\ template' = template /\ ratings' = ratings /\ req' = req /\ unannounced' = unannounced /\ drifted' = drifted
    BY DEF Tick, RedisChanges, row
  <1>4. Rated'
    BY <1>1, <1>3, RatedSame
  <1>5. CASE Tick
    <2>1. redis' = Older(redis) /\ memory' = Older(memory) /\ up' = up
      BY <1>5 DEF Tick
    <2>2. /\ redis' \in Entry /\ (redis'.left > 0 => redis.left > 0 /\ redis'.shows = redis.shows /\ redis'.late = redis.late)
          /\ memory' \in Entry /\ (memory'.left > 0 => memory.left > 0 /\ memory'.shows = memory.shows /\ memory'.late = memory.late)
      BY <1>2, <2>1, OlderIs
    <2>3. TypeOK'
      BY <1>2, <1>3, <2>1, <2>2, TypesThen
    <2>4. View' = View /\ \A q \in Requests : \A at \in {"store", "invalidate", "delete"} : At(q, at)' <=> At(q, at)
      BY <1>3 DEF View, At
    <2>5. /\ redis.late \/ Current(redis) => redis'.late \/ Current(redis)'
          /\ memory.late \/ Current(memory) => memory'.late \/ Current(memory)'
      BY <2>2, <2>4 DEF Current
    <2>6. Listed'
      BY <1>1, <1>3, <2>4, <2>5 DEF Listed
    <2>7. QED
      BY <1>4, <2>3, <2>6 DEF MarketInv
  <1>6. CASE RedisChanges
    <2>1. up' = ~up /\ redis' = redis /\ memory' = memory
      BY <1>6 DEF RedisChanges
    <2>2. TypeOK'
      BY <1>2, <1>3, <2>1, TypesThen
    <2>3. Listed'
      BY <1>1, <1>3, <2>1, ListedSame
    <2>4. QED
      BY <1>4, <2>2, <2>3 DEF MarketInv
  <1>7. QED
    BY <1>5, <1>6

\* The cache is emptied: its keys are found, and deleted.
LEMMA InvalidateKept ==
  ASSUME MarketInv, NEW r \in Requests, FindKeys(r) \/ DeleteKeys(r)
  PROVE  MarketInv'
  <1>1. TypeOK /\ Listed /\ Rated
    BY DEF MarketInv
  <1>2. /\ up \in BOOLEAN /\ template \in MRow /\ ratings \in MRatings /\ redis \in Entry /\ memory \in Entry
        /\ req \in [Requests -> MReq] /\ unannounced \in BOOLEAN /\ drifted \in BOOLEAN
        /\ ~template.exists => ratings = Nobody
    BY <1>1, TypesAre
  <1>3. template' = template /\ ratings' = ratings /\ up' = up /\ drifted' = drifted /\ View' = View
    BY DEF FindKeys, DeleteKeys, row, caches, View
  <1>4. CASE FindKeys(r)
    <2> DEFINE b == up /\ redis.left > 0
               y == [Idle EXCEPT !.pc = "delete", !.found = b]
               Late(q) == [req[q] EXCEPT !.late = TRUE]
    <2>1. /\ req[r].pc = "invalidate" /\ redis' = redis /\ memory' = memory /\ unannounced' = ~up
          /\ req' = [q \in Requests |-> IF q = r THEN y ELSE IF At(q, "store") THEN Late(q) ELSE req[q]]
      BY <1>4 DEF FindKeys, At, Overtake, caches
    <2>2. b \in BOOLEAN /\ (b <=> up /\ redis.left > 0)
      BY <1>2
    <2> HIDE DEF b
    <2>3. y \in MReq /\ y.pc = "delete" /\ y.found = b
      <3>1. "delete" \in Pcs
        BY PcsAre
      <3>2. QED
        BY <2>2, <3>1, IdleIs DEF MReq
    <2>4. \A q \in Requests : Late(q) \in MReq /\ Late(q).pc = req[q].pc /\ Late(q).late = TRUE
      BY <1>2 DEF MReq
    <2> HIDE DEF y, Late
    <2>5. req' \in [Requests -> MReq] /\ \A q \in Requests :
              req'[q] = IF q = r THEN y ELSE IF At(q, "store") THEN Late(q) ELSE req[q]
      BY <1>2, <2>1, <2>3, <2>4
    <2>6. TypeOK'
      BY <1>2, <1>3, <2>1, <2>5, TypesThen
    <2>7. Rated'
      BY <1>1, <1>3, <2>1, <2>3, <2>4, <2>5, RatedSame DEF IsRating, At
    <2>8. Listed'
      <3>1. CASE ~up
        BY <2>1, <3>1, ListedAnnounces
      <3>2. CASE up
        <4>1. \A q \in Requests : At(q, "store")' => req'[q].late
          BY <2>3, <2>4, <2>5 DEF At
        <4>2. At(r, "delete")' /\ req'[r].found = b
          BY <2>3, <2>5 DEF At
        <4>3. b \/ Current(redis)'
          BY <2>1, <2>2, <3>2 DEF Current
        <4>4. QED
          BY <4>1, <4>2, <4>3 DEF Listed
      <3>3. QED
        BY <3>1, <3>2
    <2>9. QED
      BY <2>6, <2>7, <2>8 DEF MarketInv
  <1>5. CASE DeleteKeys(r)
    <2>1. /\ req[r].pc = "delete" /\ redis' = IF up /\ req[r].found THEN Absent ELSE redis
          /\ memory' = Absent /\ unannounced' = (unannounced \/ (~up /\ req[r].found))
          /\ req' = [req EXCEPT ![r] = Idle]
      BY <1>5 DEF DeleteKeys, At, End, Go
    <2>2. req[r].found \in BOOLEAN
      BY <1>2 DEF MReq
    <2>3. req' \in [Requests -> MReq] /\ \A q \in Requests : req'[q] = IF q = r THEN Idle ELSE req[q]
      BY <1>2, <2>1, IdleIs
    <2>4. redis' \in Entry /\ memory' \in Entry /\ unannounced' \in BOOLEAN /\ Absent.left = 0
      BY <1>2, <2>1, <2>2, OlderIs
    <2>5. TypeOK'
      BY <1>2, <1>3, <2>3, <2>4, TypesThen
    <2>6. Rated'
      BY <1>1, <1>3, <2>1, <2>3, IdleIs, RatedSame DEF IsRating
    <2>7. Listed'
      <3>1. CASE unannounced' \/ \E q \in Requests : At(q, "invalidate")
        <4>1. unannounced' \/ \E q \in Requests : req'[q].pc = "invalidate"
          BY <2>1, <2>3, <3>1 DEF At
        <4>2. QED
          BY <4>1, ListedAnnounces
      <3>2. CASE ~unannounced' /\ ~(\E q \in Requests : At(q, "invalidate"))
        <4>1. ~unannounced /\ (up \/ ~req[r].found)
          BY <2>1, <3>2
        <4>2. \A q \in Requests : /\ At(q, "delete") /\ q # r => At(q, "delete")' /\ req'[q] = req[q]
                                  /\ At(q, "store")' => At(q, "store") /\ req'[q] = req[q]
          BY <2>1, <2>3, IdleIs DEF At
        <4>3. Current(memory)' /\ (redis' = Absent => Current(redis)')
          BY <2>1, <2>4 DEF Current
        <4>4. redis' # Absent => redis' = redis /\ ~req[r].found
          BY <2>1, <4>1
        <4>5. redis' = redis => (Current(redis)' <=> Current(redis))
          BY <1>3 DEF Current
        <4>6. redis'.late \/ Current(redis)' \/ \E q \in Requests : At(q, "delete")' /\ req'[q].found
          BY <1>1, <3>2, <4>1, <4>2, <4>3, <4>4, <4>5 DEF Listed
        <4>7. QED
          BY <1>1, <1>3, <3>2, <4>1, <4>2, <4>3, <4>6 DEF Listed
      <3>3. QED
        BY <3>1, <3>2
    <2>8. QED
      BY <2>5, <2>6, <2>7 DEF MarketInv
  <1>6. QED
    BY <1>4, <1>5

\* The template changes, and the caches are to be emptied.
LEMMA ChangesKept ==
  ASSUME MarketInv, NEW r \in Requests, Create(r) \/ Update(r) \/ Delete(r) \/ Refresh(r)
  PROVE  MarketInv'
  <1>1. TypeOK /\ Listed /\ Rated
    BY DEF MarketInv
  <1>2. /\ up \in BOOLEAN /\ template \in MRow /\ ratings \in MRatings /\ redis \in Entry /\ memory \in Entry
        /\ req \in [Requests -> MReq] /\ unannounced \in BOOLEAN /\ drifted \in BOOLEAN
        /\ ~template.exists => ratings = Nobody
    BY <1>1, TypesAre
  <1> DEFINE y == [Idle EXCEPT !.pc = "invalidate"]
  <1>3. /\ redis' = redis /\ memory' = memory /\ up' = up /\ unannounced' = unannounced /\ req' = [req EXCEPT ![r] = y]
    BY DEF Create, Update, Delete, Refresh, Announce, Go, caches
  <1>4. y \in MReq /\ y.pc = "invalidate"
    BY IdleIs, PcsAre
  <1> HIDE DEF y
  <1>5. req' \in [Requests -> MReq] /\ \A q \in Requests : req'[q] = IF q = r THEN y ELSE req[q]
    BY <1>2, <1>3, <1>4
  <1>6. Listed'
    BY <1>4, <1>5, ListedAnnounces
  <1>7. \A q \in Requests : IsRating(req'[q]) => q # r /\ req'[q] = req[q]
    BY <1>4, <1>5 DEF IsRating
  <1>8. Nobody' = Nobody
    BY DEF Nobody
  <1>9. CASE Create(r)
    <2>1. PICK b \in BOOLEAN : Change([template EXCEPT !.exists = TRUE, !.shown = b])
      BY <1>9 DEF Create
    <2> DEFINE new == [template EXCEPT !.exists = TRUE, !.shown = b]
    <2>2. new \in MRow /\ new.exists = TRUE /\ new.rated = template.rated
      BY <1>2 DEF MRow
    <2>3. Change(new)
      BY <2>1
    <2> HIDE DEF new
    <2>4. template' \in MRow /\ template'.changes # 0 /\ template'.exists = TRUE /\ template'.rated = template.rated
      BY <1>1, <2>2, <2>3, ChangeIs
    <2>5. template.changes = 0 /\ ratings' = ratings /\ drifted' = drifted
      BY <1>9 DEF Create
    <2>6. template.rated = Nobody /\ ratings = Nobody /\ \A q \in Requests : ~IsRating(req[q])
      BY <1>1, <1>2, <2>5 DEF Rated, IsRating
    <2>7. TypeOK'
      BY <1>2, <1>3, <1>5, <2>4, <2>5, TypesThen
    <2>8. Rated'
      BY <1>7, <2>4, <2>5, <2>6 DEF Rated, IsRating, At
    <2>9. QED
      BY <1>6, <2>7, <2>8 DEF MarketInv
  <1>10. CASE Update(r)
    <2>1. Change(template) /\ template.exists /\ ratings' = ratings /\ drifted' = drifted /\ req[r].pc = "idle"
      BY <1>10 DEF Update, Free
    <2>2. template' \in MRow /\ template'.changes # 0 /\ template'.exists = template.exists /\ template'.rated = template.rated
      BY <1>1, <1>2, <2>1, ChangeIs
    <2>3. TypeOK'
      BY <1>2, <1>3, <1>5, <2>1, <2>2, TypesThen
    <2>4. \A q \in Requests : (IsRating(req[q]) => req'[q] = req[q]) /\ (At(q, "refresh")' => At(q, "refresh") /\ req'[q] = req[q])
      BY <1>5, <1>7, <2>1 DEF IsRating, At
    <2>5. Rated'
      BY <1>1, <2>1, <2>2, <2>4 DEF Rated, IsRating
    <2>6. QED
      BY <1>6, <2>3, <2>5 DEF MarketInv
  <1>11. CASE Delete(r)
    <2> DEFINE new == [template EXCEPT !.exists = FALSE]
    <2>1. Change(new) /\ ratings' = Nobody /\ drifted' = drifted
      BY <1>11 DEF Delete
    <2>2. new \in MRow /\ new.exists = FALSE
      BY <1>2 DEF MRow
    <2> HIDE DEF new
    <2>3. template' \in MRow /\ template'.changes # 0 /\ template'.exists = FALSE
      BY <1>1, <2>1, <2>2, ChangeIs
    <2>4. TypeOK'
      BY <1>2, <1>3, <1>5, <2>1, <2>3, NobodyRated, TypesThen
    <2>5. Rated'
      BY <2>3 DEF Rated
    <2>6. QED
      BY <1>6, <2>4, <2>5 DEF MarketInv
  <1>12. CASE Refresh(r)
    <2> DEFINE new == [template EXCEPT !.rated = req[r].ratings]
    <2>1. Change(new) /\ template.exists /\ ratings' = ratings /\ drifted' = req[r].late /\ req[r].pc = "refresh"
      BY <1>12 DEF Refresh, At
    <2>2. new \in MRow /\ new.exists = template.exists /\ new.rated = req[r].ratings /\ req[r].late \in BOOLEAN
      BY <1>2 DEF MRow, MReq
    <2> HIDE DEF new
    <2>3. template' \in MRow /\ template'.changes # 0 /\ template'.exists = template.exists /\ template'.rated = req[r].ratings
      BY <1>1, <2>1, <2>2, ChangeIs
    <2>4. TypeOK'
      BY <1>2, <1>3, <1>5, <2>1, <2>2, <2>3, TypesThen
    <2>5. \A q \in Requests : At(q, "refresh")' => At(q, "refresh") /\ req'[q] = req[q]
      BY <1>5, <1>7 DEF IsRating, At
    <2>6. req[r].late \/ req[r].ratings = ratings
      BY <1>1, <2>1 DEF Rated, At
    <2>7. Rated'
      BY <1>1, <2>1, <2>3, <2>5, <2>6 DEF Rated
    <2>8. QED
      BY <1>6, <2>4, <2>7 DEF MarketInv
  <1>13. QED
    BY <1>9, <1>10, <1>11, <1>12

\* The template is moderated, and the caches are left as they are.
LEMMA ModerateKept ==
  ASSUME MarketInv, Moderate
  PROVE  MarketInv'
  <1>1. TypeOK /\ Rated
    BY DEF MarketInv
  <1>2. /\ up \in BOOLEAN /\ template \in MRow /\ ratings \in MRatings /\ redis \in Entry /\ memory \in Entry
        /\ req \in [Requests -> MReq] /\ unannounced \in BOOLEAN /\ drifted \in BOOLEAN
        /\ ~template.exists => ratings = Nobody
    BY <1>1, TypesAre
  <1>3. /\ redis' = redis /\ memory' = memory /\ up' = up /\ unannounced' = TRUE /\ req' = req /\ ratings' = ratings
        /\ drifted' = drifted /\ template.exists
    BY DEF Moderate, caches
  <1>4. PICK b \in BOOLEAN : Change([template EXCEPT !.shown = b])
    BY DEF Moderate
  <1> DEFINE new == [template EXCEPT !.shown = b]
  <1>5. new \in MRow /\ new.exists = template.exists /\ new.rated = template.rated
    BY <1>2 DEF MRow
  <1>6. Change(new)
    BY <1>4
  <1> HIDE DEF new
  <1>7. template' \in MRow /\ template'.changes # 0 /\ template'.exists = template.exists /\ template'.rated = template.rated
    BY <1>1, <1>5, <1>6, ChangeIs
  <1>8. TypeOK'
    BY <1>2, <1>3, <1>7, TypesThen
  <1>9. Rated'
    BY <1>1, <1>3, <1>7 DEF Rated, At
  <1>10. Listed'
    BY <1>3, ListedAnnounces
  <1>11. QED
    BY <1>8, <1>9, <1>10 DEF MarketInv

\* A rating is stored, or the averages are taken.
LEMMA RateKept ==
  ASSUME MarketInv, NEW r \in Requests,
         Aggregate(r) \/ \E u \in Users, rating \in 1..MaxRating : Rate(r, u, rating)
  PROVE  MarketInv'
  <1>1. TypeOK /\ Listed /\ Rated
    BY DEF MarketInv
  <1>2. /\ up \in BOOLEAN /\ template \in MRow /\ ratings \in MRatings /\ redis \in Entry /\ memory \in Entry
        /\ req \in [Requests -> MReq] /\ unannounced \in BOOLEAN /\ drifted \in BOOLEAN
        /\ ~template.exists => ratings = Nobody
    BY <1>1, TypesAre
  <1>3. /\ redis' = redis /\ memory' = memory /\ up' = up /\ unannounced' = unannounced /\ drifted' = drifted
        /\ template' = template
    BY DEF Aggregate, Rate, caches, row
  <1>4. Nobody' = Nobody
    BY DEF Nobody
  <1>5. CASE Aggregate(r)
    <2> DEFINE y == [req[r] EXCEPT !.pc = "refresh", !.ratings = ratings]
    <2>1. req[r].pc = "aggregate" /\ ratings' = ratings /\ req' = [req EXCEPT ![r] = y]
      BY <1>5 DEF Aggregate, At, Go, row
    <2>2. "refresh" \in Pcs
      BY PcsAre
    <2>3. y \in MReq /\ y.pc = "refresh" /\ y.ratings = ratings
      BY <1>2, <2>2 DEF MReq
    <2> HIDE DEF y
    <2>4. req' \in [Requests -> MReq] /\ \A q \in Requests : req'[q] = IF q = r THEN y ELSE req[q]
      BY <1>2, <2>1, <2>3
    <2>5. TypeOK'
      BY <1>2, <1>3, <2>1, <2>4, TypesThen
    <2>6. Listed'
      BY <1>1, <1>3, <2>1, <2>3, <2>4, ListedSame DEF IsListing
    <2>7. \A q \in Requests : /\ IsRating(req'[q]) <=> IsRating(req[q])
                              /\ At(q, "refresh")' => q = r \/ (At(q, "refresh") /\ req'[q] = req[q])
      BY <2>1, <2>3, <2>4 DEF IsRating, At
    <2>8. Rated'
      BY <1>1, <1>3, <1>4, <2>1, <2>3, <2>4, <2>7 DEF Rated, IsRating
    <2>9. QED
      BY <2>5, <2>6, <2>8 DEF MarketInv
  <1>6. CASE \E u \in Users, rating \in 1..MaxRating : Rate(r, u, rating)
    <2>1. PICK u \in Users, rating \in 1..MaxRating : Rate(r, u, rating)
      BY <1>6
    <2> DEFINE y == [Idle EXCEPT !.pc = "aggregate"]
               Late(q) == [req[q] EXCEPT !.late = TRUE]
    <2>2. /\ req[r].pc = "idle" /\ template.exists /\ ratings' = [ratings EXCEPT ![u] = rating]
          /\ req' = [q \in Requests |-> IF q = r THEN y ELSE IF At(q, "refresh") THEN Late(q) ELSE req[q]]
      BY <2>1 DEF Rate, Free, Overtake
    <2>3. y \in MReq /\ y.pc = "aggregate"
      BY IdleIs, PcsAre
    <2>4. \A q \in Requests : Late(q) \in MReq /\ Late(q).pc = req[q].pc /\ Late(q).late = TRUE
      BY <1>2 DEF MReq
    <2> HIDE DEF y, Late
    <2>5. req' \in [Requests -> MReq] /\ \A q \in Requests :
              req'[q] = IF q = r THEN y ELSE IF At(q, "refresh") THEN Late(q) ELSE req[q]
      BY <1>2, <2>2, <2>3, <2>4
    <2>6. ratings' \in MRatings
      <3>1. rating \in 0..MaxRating
        OBVIOUS
      <3>2. QED
        BY <1>2, <2>2, <3>1 DEF MRatings
    <2>7. TypeOK'
      BY <1>2, <1>3, <2>2, <2>5, <2>6, TypesThen
    <2>8. Listed'
      BY <1>1, <1>3, <2>2, <2>3, <2>4, <2>5, ListedSame DEF IsListing, At
    <2>9. \A q \in Requests : At(q, "refresh")' => req'[q].late
      BY <2>3, <2>4, <2>5 DEF At
    <2>10. req'[r].pc = "aggregate"
      BY <2>3, <2>5
    <2>11. template.changes # 0
      BY <1>1, <2>2 DEF Rated
    <2>12. Rated'
      BY <1>3, <2>9, <2>10, <2>11 DEF Rated
    <2>13. QED
      BY <2>7, <2>8, <2>12 DEF MarketInv
  <1>7. QED
    BY <1>5, <1>6

\* A review is deleted: the averages do not follow.
LEMMA DeleteReviewKept ==
  ASSUME MarketInv, NEW u \in Users, DeleteReview(u)
  PROVE  MarketInv'
  <1>1. TypeOK /\ Listed /\ Rated
    BY DEF MarketInv
  <1>2. /\ up \in BOOLEAN /\ template \in MRow /\ ratings \in MRatings /\ redis \in Entry /\ memory \in Entry
        /\ req \in [Requests -> MReq] /\ unannounced \in BOOLEAN /\ drifted \in BOOLEAN
        /\ ~template.exists => ratings = Nobody
    BY <1>1, TypesAre
  <1> DEFINE Late(q) == [req[q] EXCEPT !.late = TRUE]
  <1>3. /\ redis' = redis /\ memory' = memory /\ up' = up /\ unannounced' = unannounced /\ drifted' = TRUE
        /\ template' = template /\ ratings[u] # 0 /\ ratings' = [ratings EXCEPT ![u] = 0]
        /\ req' = [q \in Requests |-> IF At(q, "refresh") THEN Late(q) ELSE req[q]]
    BY DEF DeleteReview, caches
  <1>4. template.exists
    BY <1>2, <1>3 DEF Nobody
  <1>5. \A q \in Requests : Late(q) \in MReq /\ Late(q).pc = req[q].pc /\ Late(q).late = TRUE
    BY <1>2 DEF MReq
  <1> HIDE DEF Late
  <1>6. req' \in [Requests -> MReq] /\ \A q \in Requests : req'[q] = IF At(q, "refresh") THEN Late(q) ELSE req[q]
    BY <1>2, <1>3, <1>5
  <1>7. ratings' \in MRatings
    <2>1. 0 \in 0..MaxRating
      OBVIOUS
    <2>2. QED
      BY <1>2, <1>3, <2>1 DEF MRatings
  <1>8. TypeOK'
    BY <1>2, <1>3, <1>4, <1>6, <1>7, TypesThen
  <1>9. Listed'
    BY <1>1, <1>3, <1>5, <1>6, ListedSame DEF IsListing, At
  <1>10. \A q \in Requests : At(q, "refresh")' => req'[q].late
    BY <1>5, <1>6 DEF At
  <1>11. template.changes # 0
    BY <1>1, <1>4 DEF Rated
  <1>12. Rated'
    BY <1>3, <1>10, <1>11 DEF Rated
  <1>13. QED
    BY <1>8, <1>9, <1>12 DEF MarketInv

\* A request ends where it is.
LEMMA FailKept ==
  ASSUME MarketInv, NEW r \in Requests, Fail(r)
  PROVE  MarketInv'
  <1>1. TypeOK /\ Listed /\ Rated
    BY DEF MarketInv
  <1>2. /\ up \in BOOLEAN /\ template \in MRow /\ ratings \in MRatings /\ redis \in Entry /\ memory \in Entry
        /\ req \in [Requests -> MReq] /\ unannounced \in BOOLEAN /\ drifted \in BOOLEAN
        /\ ~template.exists => ratings = Nobody
    BY <1>1, TypesAre
  <1>3. /\ redis' = redis /\ memory' = memory /\ up' = up /\ template' = template /\ ratings' = ratings
        /\ unannounced' = (unannounced \/ req[r].pc \in {"invalidate", "delete"})
        /\ drifted' = (drifted \/ req[r].pc \in {"aggregate", "refresh"})
        /\ req' = [req EXCEPT ![r] = Idle]
    BY DEF Fail, End, Go, row, caches
  <1>4. req' \in [Requests -> MReq] /\ \A q \in Requests : req'[q] = IF q = r THEN Idle ELSE req[q]
    BY <1>2, <1>3, IdleIs
  <1>5. unannounced' \in BOOLEAN /\ drifted' \in BOOLEAN
    BY <1>2, <1>3
  <1>6. TypeOK'
    BY <1>2, <1>3, <1>4, <1>5, TypesThen
  <1>7. Listed'
    <2>1. CASE unannounced'
      BY <2>1, ListedAnnounces
    <2>2. CASE ~unannounced'
      <3>1. ~unannounced /\ req[r].pc \notin {"invalidate", "delete"}
        BY <1>3, <2>2
      <3>2. View' = View /\ (Current(redis)' <=> Current(redis)) /\ (Current(memory)' <=> Current(memory))
        BY <1>3 DEF View, Current
      <3>3. \A q \in Requests : /\ At(q, "invalidate") => At(q, "invalidate")'
                                /\ At(q, "delete") => At(q, "delete")' /\ req'[q] = req[q]
                                /\ At(q, "store")' => At(q, "store") /\ req'[q] = req[q]
        BY <1>4, <3>1, IdleIs DEF At
      <3>4. QED
        BY <1>1, <1>3, <3>1, <3>2, <3>3 DEF Listed
    <2>3. QED
      BY <2>1, <2>2
  <1>8. Rated'
    <2>1. Nobody' = Nobody
      BY DEF Nobody
    <2>2. \A q \in Requests : /\ IsRating(req'[q]) => IsRating(req[q]) /\ req'[q] = req[q]
                              /\ IsRating(req[q]) => drifted' \/ req'[q] = req[q]
      BY <1>3, <1>4, IdleIs DEF IsRating
    <2>3. QED
      BY <1>1, <1>3, <2>1, <2>2 DEF Rated, IsRating, At
  <1>9. QED
    BY <1>6, <1>7, <1>8 DEF MarketInv

\* Every step keeps the invariant.
LEMMA MarketStep ==
  ASSUME MarketInv, Next \/ UNCHANGED vars
  PROVE  MarketInv'
  <1>1. CASE UNCHANGED vars
    <2>1. /\ template' = template /\ ratings' = ratings /\ up' = up /\ redis' = redis /\ memory' = memory
          /\ req' = req /\ unannounced' = unannounced /\ drifted' = drifted
      BY <1>1 DEF vars, row, caches
    <2>2. TypeOK /\ Listed /\ Rated
      BY DEF MarketInv
    <2>3. TypeOK'
      BY <2>1, <2>2, TypesAre, TypesThen
    <2>4. Listed' /\ Rated'
      BY <2>1, <2>2, ListedSame, RatedSame
    <2>5. QED
      BY <2>3, <2>4 DEF MarketInv
  <1>2. CASE Next
    BY <1>2, ListKept, CachesKept, InvalidateKept, ChangesKept, ModerateKept, RateKept, DeleteReviewKept, FailKept
       DEF Next, Begin, Continue
  <1>3. QED
    BY <1>1, <1>2

\* It holds before there is a template.
LEMMA MarketAtFirst ==
  ASSUME Init
  PROVE  MarketInv
  <1>1. /\ template = [exists |-> FALSE, changes |-> 0, shown |-> FALSE, rated |-> Nobody]
        /\ ratings = Nobody /\ up \in BOOLEAN /\ redis = Absent /\ memory = Absent
        /\ req = [r \in Requests |-> Idle] /\ unannounced = FALSE /\ drifted = FALSE
    BY DEF Init
  <1>2. /\ template \in MRow /\ template.exists = FALSE /\ template.rated = Nobody
    <2>1. 0 \in 0..MaxChanges
      OBVIOUS
    <2>2. QED
      BY <1>1, <2>1, NobodyRated DEF MRow
  <1>3. Absent \in Entry /\ Absent.left = 0
    BY DEF Absent, Entry
  <1>4. req \in [Requests -> MReq] /\ \A r \in Requests : req[r].pc = "idle"
    BY <1>1, IdleIs
  <1>5. TypeOK
    BY <1>1, <1>2, <1>3, <1>4, NobodyRated, TypesAre
  <1>6. Listed
    BY <1>1, <1>3, <1>4 DEF Listed, Current, At
  <1>7. Rated
    BY <1>2, <1>4 DEF Rated
  <1>8. QED
    BY <1>5, <1>6, <1>7 DEF MarketInv

\* What the invariant says of the listing and of the averages.
LEMMA MarketPromises ==
  ASSUME MarketInv
  PROVE  ListingsFollowChanges /\ RatingsAreExact
  <1>1. TypeOK /\ Listed /\ Rated
    BY DEF MarketInv
  <1>2. ListingsFollowChanges
    BY <1>1 DEF Listed, ListingsFollowChanges, At
  <1>3. RatingsAreExact
    BY <1>1 DEF Rated, RatingsAreExact
  <1>4. QED
    BY <1>2, <1>3

(***************************************************************************)
(* What the marketplace keeps true                                         *)
(***************************************************************************)

\* The tables and the caches keep their types, and a deleted template has no ratings.
THEOREM MarketTypes == Spec => []TypeOK
  <1>1. Init => MarketInv
    BY MarketAtFirst
  <1>2. MarketInv /\ [Next]_vars => MarketInv'
    BY MarketStep
  <1>3. MarketInv => TypeOK
    BY DEF MarketInv
  <1>4. QED
    BY <1>1, <1>2, <1>3, PTL DEF Spec

\* Whatever requests and failures of Redis overlap, a cached listing shows the changes
\* that were answered, but for those no invalidation followed and for a listing that
\* was being computed when the cache was emptied.
THEOREM ListingsAlwaysFollow == Spec => []ListingsFollowChanges
  <1>1. Init => MarketInv
    BY MarketAtFirst
  <1>2. MarketInv /\ [Next]_vars => MarketInv'
    BY MarketStep
  <1>3. MarketInv => ListingsFollowChanges
    BY MarketPromises
  <1>4. QED
    BY <1>1, <1>2, <1>3, PTL DEF Spec

\* The average shown is that of the reviews, but while a refresh is on its way and
\* after one that was overtaken, that failed, or was never made.
THEOREM RatingsAreAlwaysExact == Spec => []RatingsAreExact
  <1>1. Init => MarketInv
    BY MarketAtFirst
  <1>2. MarketInv /\ [Next]_vars => MarketInv'
    BY MarketStep
  <1>3. MarketInv => RatingsAreExact
    BY MarketPromises
  <1>4. QED
    BY <1>1, <1>2, <1>3, PTL DEF Spec
=============================================================================
