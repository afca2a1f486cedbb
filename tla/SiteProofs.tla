----------------------------- MODULE SiteProofs -----------------------------
(***************************************************************************)
(* What is promised of the community, of the page that builds a workbook,  *)
(* of the status page of a payment, of a template's files, and of the      *)
(* pages on which things are found and taken, for any number of users,     *)
(* requests, builds, payments, uploads, items and calls.                   *)
(***************************************************************************)
EXTENDS MCSite, FiniteSetTheorems, SequenceTheorems, TLAPS

(***************************************************************************)
(* The points owed                                                         *)
(***************************************************************************)

Debt(rq, R) == UNION {{q} \X (1..Points[rq[q].kind]) : q \in {p \in R : rq[p].pc = "bump"}}

Due(q) == IF q.pc = "bump" THEN Points[q.kind] ELSE 0

\* A request that is to add points is of a kind that has some.
LEMMA BumpsPay ==
  ASSUME CommunityAssumption, NEW q \in Request, Shape(q)
  PROVE  /\ q.pc = "bump" => Points[q.kind] \in Nat
         /\ Due(q) \in Nat
  BY DEF CommunityAssumption, Shape, Due, Request, Kinds

\* The points owed by some of the requests are finitely many, and those of one
\* more come on top.
LEMMA DebtFinite ==
  ASSUME CommunityAssumption, NEW rq \in [Requests -> Request], \A q \in Requests : Shape(rq[q]),
         NEW R \in SUBSET Requests
  PROVE  IsFiniteSet(Debt(rq, R)) /\ Cardinality(Debt(rq, R)) \in Nat
  <1> DEFINE Most == Points["follow"] + Points["endorse"] + Points["like"] + Points["vote"] + Points["review"]
  <1>1. \A k \in {"follow", "endorse", "like", "vote", "review"} : Points[k] \in Nat
    BY DEF CommunityAssumption
  <1>2. Most \in Nat /\ \A k \in {"follow", "endorse", "like", "vote", "review"} : Points[k] <= Most
    BY <1>1
  <1> HIDE DEF Most
  <1>3. IsFiniteSet(R) /\ IsFiniteSet(1..Most)
    BY <1>2, FS_Subset, FS_Interval DEF CommunityAssumption
  <1>4. \A q \in R : rq[q].pc = "bump" => rq[q].kind \in {"follow", "endorse", "like", "vote", "review"}
    BY DEF Shape, Request
  <1>5. \A q \in R : rq[q].pc = "bump" => 1..Points[rq[q].kind] \subseteq 1..Most
    BY <1>1, <1>2, <1>4
  <1>6. Debt(rq, R) \subseteq R \X (1..Most)
    BY <1>5 DEF Debt
  <1>7. IsFiniteSet(R \X (1..Most))
    BY <1>3, FS_Product
  <1>8. QED
    BY <1>6, <1>7, FS_Subset, FS_CardinalityType

LEMMA DebtGrows ==
  ASSUME CommunityAssumption, NEW rq \in [Requests -> Request], \A q \in Requests : Shape(rq[q]),
         NEW r \in Requests
  PROVE  Cardinality(Debt(rq, Requests)) = Cardinality(Debt(rq, Requests \ {r})) + Due(rq[r])
  <1> DEFINE Rest == Debt(rq, Requests \ {r})
  <1>1. IsFiniteSet(Rest) /\ Cardinality(Rest) \in Nat
    BY DebtFinite
  <1>2. CASE rq[r].pc # "bump"
    <2>1. {p \in Requests : rq[p].pc = "bump"} = {p \in Requests \ {r} : rq[p].pc = "bump"}
      BY <1>2
    <2>2. Debt(rq, Requests) = Rest
      BY <2>1 DEF Debt
    <2>3. Due(rq[r]) = 0
      BY <1>2 DEF Due
    <2>4. QED
      BY <1>1, <2>2, <2>3
  <1>3. CASE rq[r].pc = "bump"
    <2>1. PICK n \in Nat : n = Points[rq[r].kind] /\ Due(rq[r]) = n
      BY <1>3, BumpsPay DEF Due
    <2> DEFINE Mine == {r} \X (1..n)
    <2>2. {p \in Requests : rq[p].pc = "bump"} = {p \in Requests \ {r} : rq[p].pc = "bump"} \cup {r}
      BY <1>3
    <2>3. Debt(rq, Requests) = Rest \cup Mine
      BY <2>1, <2>2 DEF Debt
    <2>4. Rest \cap Mine = {}
      BY DEF Debt
    <2>5. IsFiniteSet(1..n) /\ Cardinality(1..n) = n
      <3>1. 1 \in Int /\ n \in Int
        OBVIOUS
      <3>2. IsFiniteSet(1..n) /\ Cardinality(1..n) = IF 1 > n THEN 0 ELSE n - 1 + 1
        BY <3>1, FS_Interval
      <3>3. QED
        BY <3>2
    <2>6. IsFiniteSet({r}) /\ Cardinality({r}) = 1
      BY FS_Singleton
    <2> HIDE DEF Rest
    <2>7. IsFiniteSet(Mine) /\ Cardinality(Mine) = n
      <3>1. IsFiniteSet(Mine) /\ Cardinality(Mine) = Cardinality({r}) * Cardinality(1..n)
        BY <2>5, <2>6, FS_Product
      <3>2. 1 * n = n
        OBVIOUS
      <3>3. QED
        BY <2>5, <2>6, <3>1, <3>2
    <2> HIDE DEF Mine
    <2>8. Cardinality(Rest \cap Mine) = 0
      BY <2>4, FS_EmptySet
    <2>9. Cardinality(Rest \cup Mine) = Cardinality(Rest) + Cardinality(Mine) - Cardinality(Rest \cap Mine)
      BY <1>1, <2>7, FS_Union
    <2>10. QED
      BY <1>1, <2>1, <2>3, <2>7, <2>8, <2>9 DEF Rest
  <1>4. QED
    BY <1>2, <1>3

\* When one request goes on, the debt changes by what that one owes.
LEMMA DebtMoves ==
  ASSUME CommunityAssumption, NEW r \in Requests,
         NEW rq \in [Requests -> Request], \A q \in Requests : Shape(rq[q]),
         NEW rr \in [Requests -> Request], \A q \in Requests : Shape(rr[q]),
         \A q \in Requests \ {r} : rr[q].pc = rq[q].pc /\ rr[q].kind = rq[q].kind
  PROVE  /\ Cardinality(Debt(rr, Requests)) = Cardinality(Debt(rq, Requests)) - Due(rq[r]) + Due(rr[r])
         /\ Cardinality(Debt(rr, Requests)) \in Nat /\ Cardinality(Debt(rq, Requests)) \in Nat
         /\ Due(rq[r]) \in Nat /\ Due(rr[r]) \in Nat
         /\ Due(rq[r]) <= Cardinality(Debt(rq, Requests))
  <1> DEFINE R == Requests \ {r}
  <1>1. {p \in R : rr[p].pc = "bump"} = {p \in R : rq[p].pc = "bump"}
    OBVIOUS
  <1>2. Debt(rr, R) = Debt(rq, R)
    <2>1. \A q \in R : rr[q].kind = rq[q].kind
      OBVIOUS
    <2>2. QED
      BY <1>1, <2>1 DEF Debt
  <1>3. Cardinality(Debt(rq, R)) \in Nat
    BY DebtFinite
  <1>4. Due(rq[r]) \in Nat /\ Due(rr[r]) \in Nat
    BY BumpsPay
  <1>5. Cardinality(Debt(rq, Requests)) = Cardinality(Debt(rq, R)) + Due(rq[r])
        /\ Cardinality(Debt(rr, Requests)) = Cardinality(Debt(rr, R)) + Due(rr[r])
    BY DebtGrows
  <1>6. QED
    BY <1>2, <1>3, <1>4, <1>5

(***************************************************************************)
(* The requests of the community                                           *)
(***************************************************************************)

LEMMA IdleIs == Idle \in Request /\ Idle.pc = "idle" /\ Idle.kind = "template" /\ Shape(Idle)
  BY DEF Idle, Request, Kinds, Shape

\* What a new request and a request at its next statement look like.
LEMMA NewIs ==
  ASSUME NEW kind \in Kinds \cup {"template", "review"},
         NEW stage \in {"toggle", "bump", "first"}
  PROVE  /\ New(kind, stage) \in Request
         /\ New(kind, stage).pc = stage /\ New(kind, stage).kind = kind
  BY IdleIs DEF New, Request

LEMMA GotoIs ==
  ASSUME req \in [Requests -> Request], NEW r \in Requests, NEW next \in Request,
         \A q \in Requests : Shape(req[q]), Shape(next), Go(r, next)
  PROVE  /\ req' \in [Requests -> Request]
         /\ \A q \in Requests : Shape(req'[q])
         /\ req'[r] = next
         /\ \A q \in Requests \ {r} : req'[q] = req[q]
  BY DEF Go

LEMMA StageIs ==
  ASSUME req \in [Requests -> Request], NEW r \in Requests,
         NEW stage \in {"bump", "count", "publish", "award"}
  PROVE  LET next == [req[r] EXCEPT !.pc = stage]
         IN  /\ next \in Request /\ next.pc = stage /\ next.kind = req[r].kind
             /\ next.late = req[r].late /\ next.fan = req[r].fan
  BY DEF Request

\* Every count of rows is a number of fans.
LEMMA CountsAre ==
  ASSUME CommunityAssumption, rows \in [Kinds -> SUBSET Fans]
  PROVE  /\ Cardinality(Fans) \in Nat
         /\ \A kind \in Kinds : /\ IsFiniteSet(rows[kind]) /\ Cardinality(rows[kind]) \in Nat
                                /\ Cardinality(rows[kind]) <= Cardinality(Fans)
  <1>1. IsFiniteSet(Fans)
    BY DEF CommunityAssumption
  <1>2. \A kind \in Kinds : rows[kind] \in SUBSET Fans
    OBVIOUS
  <1>3. \A kind \in Kinds : IsFiniteSet(rows[kind]) /\ Cardinality(rows[kind]) <= Cardinality(Fans)
    BY <1>1, <1>2, FS_Subset
  <1>4. QED
    BY <1>1, <1>3, FS_CardinalityType

LEMMA AddingIs ==
  ASSUME CommunityAssumption, rows \in [Kinds -> SUBSET Fans], NEW kind \in Kinds, NEW fan \in Fans,
         rows' = [rows EXCEPT ![kind] = @ \cup {fan}]
  PROVE  /\ rows' \in [Kinds -> SUBSET Fans]
         /\ \A other \in Kinds : /\ other # kind => rows'[other] = rows[other]
                                 /\ Cardinality(rows'[other]) \in Nat
                                 /\ Cardinality(rows[other]) <= Cardinality(rows'[other])
  <1>1. rows' \in [Kinds -> SUBSET Fans]
    OBVIOUS
  <1>2. \A other \in Kinds : rows[other] \in SUBSET rows'[other] /\ rows'[other] \in SUBSET Fans
    OBVIOUS
  <1>3. \A other \in Kinds : IsFiniteSet(rows'[other])
    BY <1>2, FS_Subset DEF CommunityAssumption
  <1>4. QED
    BY <1>1, <1>2, <1>3, FS_Subset, FS_CardinalityType

\* Points are given as the debt is paid, and the debt grows as points are earned.
LEMMA AccountsMatch ==
  ASSUME CommunityAssumption, CommunityInv, NEW r \in Requests,
         req' \in [Requests -> Request], \A q \in Requests : Shape(req'[q]),
         \A q \in Requests \ {r} : req'[q].pc = req[q].pc /\ req'[q].kind = req[q].kind,
         NEW e \in Nat, NEW l \in Nat, NEW b \in Nat,
         earned' = earned + e, lost' = lost + l, reputation' = reputation + b,
         Due(req[r]) + e = Due(req'[r]) + l + b
  PROVE  ReputationIsEarned' /\ reputation' <= earned' /\ lost' <= earned'
  <1>1. /\ req \in [Requests -> Request] /\ \A q \in Requests : Shape(req[q])
        /\ reputation \in Nat /\ earned \in Nat /\ lost \in Nat
    BY DEF CommunityInv, TypeOK, Ready, CommunityAssumption
  <1>2. Owed = Debt(req, Requests) /\ Owed' = Debt(req', Requests)
    BY DEF Owed, Pending, Debt
  <1>3. reputation = earned - lost - Cardinality(Owed)
    BY DEF CommunityInv, ReputationIsEarned
  <1>4. /\ Cardinality(Debt(req', Requests)) = Cardinality(Debt(req, Requests)) - Due(req[r]) + Due(req'[r])
        /\ Cardinality(Debt(req', Requests)) \in Nat /\ Cardinality(Debt(req, Requests)) \in Nat
        /\ Due(req[r]) \in Nat /\ Due(req'[r]) \in Nat
    BY <1>1, DebtMoves
  <1> DEFINE before == Cardinality(Debt(req, Requests))
             after  == Cardinality(Debt(req', Requests))
  <1> HIDE DEF before, after
  <1>5. /\ reputation = earned - lost - before /\ before \in Nat /\ after \in Nat
        /\ after = before - Due(req[r]) + Due(req'[r])
    BY <1>2, <1>3, <1>4 DEF before, after
  <1>6. reputation' = earned' - lost' - after /\ reputation' <= earned' /\ lost' <= earned'
    BY <1>1, <1>4, <1>5
  <1>7. QED
    BY <1>2, <1>6 DEF ReputationIsEarned, after

\* What stays true of the badges when nobody reaches a number unseen.
LEMMA BadgesKept ==
  ASSUME CommunityInv,
         badges \subseteq badges', missed \subseteq missed',
         \A kind \in {"vote", "template"} :
            Reached(kind)' => \/ Reached(kind)
                             \/ BadgeOf(kind) \in badges' \cup missed'
                             \/ \E q \in Requests : req'[q].kind = kind /\ req'[q].pc # "idle",
         \A q \in Requests : req[q].kind \in {"vote", "template"} /\ req[q].pc # "idle" =>
            \/ req'[q].kind = req[q].kind /\ req'[q].pc # "idle"
            \/ BadgeOf(req[q].kind) \in badges' \cup missed'
            \/ ~Reached(req[q].kind)
  PROVE  \A kind \in {"vote", "template"} :
            Reached(kind)' => \/ BadgeOf(kind) \in badges' \cup missed'
                             \/ \E q \in Requests : req'[q].kind = kind /\ req'[q].pc # "idle"
  <1>1. \A kind \in {"vote", "template"} :
           Reached(kind) => \/ BadgeOf(kind) \in badges \cup missed
                           \/ \E q \in Requests : req[q].kind = kind /\ req[q].pc # "idle"
    BY DEF CommunityInv, BadgesFollowNumbers, Free
  <1>2. QED
    BY <1>1

LEMMA Within ==
  ASSUME NEW a \in Nat, NEW b \in Nat
  PROVE  a <= b <=> a \in 0..b
  OBVIOUS

LEMMA InvNumbers ==
  ASSUME CommunityAssumption, CommunityInv
  PROVE  /\ published \in Nat /\ peak \in Nat /\ published <= peak /\ peak <= MaxTemplates
         /\ earned \in Nat /\ earned <= MaxPoints /\ reputation \in Nat /\ lost \in Nat
         /\ shown \in Nat /\ shown <= Cardinality(Fans) /\ stale \in BOOLEAN
         /\ MaxTemplates \in Nat /\ MaxPoints \in Nat /\ Cardinality(Fans) \in Nat
         /\ HelperVotes \in Nat /\ TopTemplates \in Nat
         /\ reputation <= earned /\ lost <= earned
  <1>1. Cardinality(Fans) \in Nat
    BY FS_CardinalityType DEF CommunityAssumption
  <1>2. /\ MaxTemplates \in Nat /\ MaxPoints \in Nat
        /\ HelperVotes \in Nat /\ TopTemplates \in Nat
    BY DEF CommunityAssumption
  <1>3. /\ published \in 0..peak /\ peak \in 0..MaxTemplates /\ earned \in 0..MaxPoints
        /\ reputation \in 0..earned /\ lost \in 0..earned /\ shown \in 0..Cardinality(Fans)
        /\ stale \in BOOLEAN
    BY Zenon DEF TypeOK, CommunityInv
  <1>4. QED
    BY <1>1, <1>2, <1>3

LEMMA PeakGrows ==
  ASSUME CommunityAssumption, CommunityInv, peak' \in Nat, peak <= peak'
  PROVE  peak >= TopTemplates => peak' >= TopTemplates
  <1>1. peak \in Nat /\ TopTemplates \in Nat
    BY InvNumbers
  <1>2. QED
    BY <1>1

LEMMA InvTables ==
  ASSUME CommunityAssumption, CommunityInv
  PROVE  /\ rows \in [Kinds -> SUBSET Fans]
         /\ badges \subseteq Badges /\ missed \subseteq Badges
  BY Zenon DEF TypeOK, CommunityInv

LEMMA InvBadges ==
  ASSUME CommunityInv
  PROVE  /\ "Community Helper" \in badges => Cardinality(rows["vote"]) >= HelperVotes
         /\ "Top Creator" \in badges => peak >= TopTemplates
  BY Zenon DEF CommunityInv, BadgesFollowNumbers

LEMMA InvRequests ==
  ASSUME CommunityAssumption, CommunityInv
  PROVE  /\ req \in [Requests -> Request]
         /\ \A q \in Requests : Shape(req[q]) /\ Ready(req[q])
         /\ \/ shown = Cardinality(rows["like"]) \/ stale
            \/ \E q \in Requests : req[q].kind = "like" /\ req[q].pc \in {"bump", "count", "publish"}
  BY Zenon DEF CommunityInv, LikeCountSettles, Ready

\* The invariant from its parts.
LEMMA InvParts ==
  ASSUME CommunityAssumption,
         rows' \in [Kinds -> SUBSET Fans],
         published' \in Nat, peak' \in Nat, published' <= peak', peak' <= MaxTemplates,
         earned' \in Nat, earned' <= MaxPoints, reputation' \in Nat, reputation' <= earned',
         lost' \in Nat, lost' <= earned',
         shown' \in Nat, shown' <= Cardinality(Fans), stale' \in BOOLEAN,
         badges' \subseteq Badges, missed' \subseteq Badges,
         req' \in [Requests -> Request], (\A q \in Requests : Ready(req[q]))',
         ReputationIsEarned', LikeCountSettles',
         "Community Helper" \in badges' => Cardinality(rows'["vote"]) >= HelperVotes,
         "Top Creator" \in badges' => peak' >= TopTemplates,
         \A kind \in {"vote", "template"} :
            Reached(kind)' => \/ BadgeOf(kind) \in badges' \cup missed'
                             \/ \E q \in Requests : req'[q].kind = kind /\ req'[q].pc # "idle"
  PROVE  CommunityInv'
  <1>1. MaxTemplates \in Nat /\ MaxPoints \in Nat /\ Cardinality(Fans) \in Nat
        /\ DOMAIN Points = Kinds \cup {"review"}
    BY FS_CardinalityType DEF CommunityAssumption, Kinds
  <1>2. \A q \in Requests : req'[q].kind \in DOMAIN Points \cup {"template"}
    BY <1>1 DEF Request
  <1>3. /\ published' \in 0..peak' /\ peak' \in 0..MaxTemplates /\ earned' \in 0..MaxPoints
        /\ reputation' \in 0..earned' /\ lost' \in 0..earned' /\ shown' \in 0..Cardinality(Fans)
    BY <1>1, Within, Zenon
  <1>4. TypeOK'
    BY <1>2, <1>3, Zenon DEF TypeOK
  <1>5. BadgesFollowNumbers'
    BY DEF BadgesFollowNumbers, Free
  <1>6. QED
    BY <1>4, <1>5, Zenon DEF CommunityInv

(***************************************************************************)
(* The steps of the community                                              *)
(***************************************************************************)

LEMMA StartHolds ==
  ASSUME CommunityAssumption, CommunityInv, NEW r \in Requests, NEW kind \in Kinds, NEW fan \in Fans,
         Start(r, kind, fan)
  PROVE  CommunityInv'
  <1>1. /\ req[r].pc = "idle" /\ kind # "like" /\ Go(r, New(kind, "bump"))
        /\ earned + Points[kind] <= MaxPoints /\ earned' = earned + Points[kind]
        /\ rows' = [rows EXCEPT ![kind] = @ \cup {fan}]
        /\ published' = published /\ reputation' = reputation /\ badges' = badges /\ shown' = shown
        /\ lost' = lost /\ peak' = peak /\ missed' = missed /\ stale' = stale
    BY DEF Start, Free, Insert, Earn
  <1>2. Points[kind] \in Nat
    BY DEF CommunityAssumption, Kinds
  <1>3. /\ New(kind, "bump") \in Request /\ Shape(New(kind, "bump"))
        /\ New(kind, "bump").pc = "bump" /\ New(kind, "bump").kind = kind
    BY <1>1, NewIs DEF Shape, Kinds
  <1>4. /\ req' \in [Requests -> Request] /\ \A q \in Requests : Shape(req'[q])
        /\ req'[r].pc = "bump" /\ req'[r].kind = kind /\ \A q \in Requests \ {r} : req'[q] = req[q]
    BY <1>1, <1>3, InvRequests, GotoIs
  <1>5. Due(req[r]) = 0 /\ Due(req'[r]) = Points[kind]
    BY <1>1, <1>4 DEF Due
  <1>6. ReputationIsEarned' /\ reputation' <= earned' /\ lost' <= earned'
    <2>1. lost' = lost + 0 /\ reputation' = reputation + 0 /\ 0 \in Nat
      BY <1>1, InvNumbers
    <2>2. Due(req[r]) + Points[kind] = Due(req'[r]) + 0 + 0
      BY <1>2, <1>5
    <2>3. QED
      BY <1>1, <1>2, <1>4, <2>1, <2>2, AccountsMatch
  <1>7. /\ rows' \in [Kinds -> SUBSET Fans]
        /\ rows'["like"] = rows["like"]
        /\ Cardinality(rows'["vote"]) \in Nat /\ Cardinality(rows["vote"]) <= Cardinality(rows'["vote"])
        /\ kind # "vote" => rows'["vote"] = rows["vote"]
    BY <1>1, InvTables, AddingIs DEF Kinds
  <1>8. Cardinality(rows["vote"]) \in Nat /\ HelperVotes \in Nat
    BY InvTables, CountsAre DEF Kinds, CommunityAssumption
  <1>9. (\A q \in Requests : Ready(req[q]))'
    <2> SUFFICES ASSUME NEW q \in Requests PROVE Ready(req[q])'
      OBVIOUS
    <2>1. CASE q = r
      BY <1>4, <2>1 DEF Ready
    <2>2. CASE q # r
      BY <1>1, <1>4, <1>7, <1>8, <2>2, InvRequests DEF Ready
    <2>3. QED
      BY <2>1, <2>2
  <1>10. LikeCountSettles'
    BY <1>1, <1>4, <1>7, InvRequests DEF LikeCountSettles
  <1>11. \A k \in {"vote", "template"} :
            Reached(k)' => \/ BadgeOf(k) \in badges' \cup missed'
                          \/ \E q \in Requests : req'[q].kind = k /\ req'[q].pc # "idle"
    BY <1>1, <1>4, <1>7, <1>8, BadgesKept DEF Reached
  <1>12. /\ published' \in Nat /\ peak' \in Nat /\ published' <= peak' /\ peak' <= MaxTemplates
         /\ earned' \in Nat /\ earned' <= MaxPoints /\ reputation' \in Nat /\ lost' \in Nat
         /\ shown' \in Nat /\ shown' <= Cardinality(Fans) /\ stale' \in BOOLEAN
         /\ badges' \subseteq Badges /\ missed' \subseteq Badges
    BY <1>1, <1>2, InvNumbers, InvTables
  <1>13. /\ "Community Helper" \in badges' => Cardinality(rows'["vote"]) >= HelperVotes
         /\ "Top Creator" \in badges' => peak' >= TopTemplates
    <2>1. "Top Creator" \in badges' => peak' >= TopTemplates
      BY <1>1, InvBadges
    <2>2. ASSUME "Community Helper" \in badges'
          PROVE  Cardinality(rows'["vote"]) >= HelperVotes
      <3>1. Cardinality(rows["vote"]) >= HelperVotes
        BY <1>1, <2>2, InvBadges
      <3>2. QED
        BY <1>7, <1>8, <3>1
    <2>3. QED
      BY <2>1, <2>2
  <1>14. QED
    BY <1>4, <1>6, <1>7, <1>9, <1>10, <1>11, <1>12, <1>13, InvParts

LEMMA ReviewHolds ==
  ASSUME CommunityAssumption, CommunityInv, NEW r \in Requests, Review(r)
  PROVE  CommunityInv'
  <1>1. /\ req[r].pc = "idle" /\ Go(r, New("review", "bump"))
        /\ earned + Points["review"] <= MaxPoints /\ earned' = earned + Points["review"]
        /\ rows' = rows /\ published' = published /\ reputation' = reputation /\ badges' = badges
        /\ shown' = shown /\ lost' = lost /\ peak' = peak /\ missed' = missed /\ stale' = stale
    BY DEF Review, Free, Earn, store
  <1>2. Points["review"] \in Nat
    BY DEF CommunityAssumption
  <1>3. /\ New("review", "bump") \in Request /\ Shape(New("review", "bump"))
        /\ New("review", "bump").pc = "bump" /\ New("review", "bump").kind = "review"
    BY NewIs DEF Shape
  <1>4. /\ req' \in [Requests -> Request] /\ \A q \in Requests : Shape(req'[q])
        /\ req'[r].pc = "bump" /\ req'[r].kind = "review" /\ \A q \in Requests \ {r} : req'[q] = req[q]
    BY <1>1, <1>3, InvRequests, GotoIs
  <1>5. Due(req[r]) = 0 /\ Due(req'[r]) = Points["review"]
    BY <1>1, <1>4 DEF Due
  <1>6. ReputationIsEarned' /\ reputation' <= earned' /\ lost' <= earned'
    <2>1. lost' = lost + 0 /\ reputation' = reputation + 0 /\ 0 \in Nat
      BY <1>1, InvNumbers
    <2>2. Due(req[r]) + Points["review"] = Due(req'[r]) + 0 + 0
      BY <1>2, <1>5
    <2>3. QED
      BY <1>1, <1>2, <1>4, <2>1, <2>2, AccountsMatch
  <1>7. (\A q \in Requests : Ready(req[q]))'
    <2> SUFFICES ASSUME NEW q \in Requests PROVE Ready(req[q])'
      OBVIOUS
    <2>1. CASE q = r
      BY <1>4, <2>1 DEF Ready
    <2>2. CASE q # r
      BY <1>1, <1>4, <2>2, InvRequests DEF Ready
    <2>3. QED
      BY <2>1, <2>2
  <1>8. LikeCountSettles'
    BY <1>1, <1>4, InvRequests DEF LikeCountSettles
  <1>9. \A k \in {"vote", "template"} :
            Reached(k)' => \/ BadgeOf(k) \in badges' \cup missed'
                          \/ \E q \in Requests : req'[q].kind = k /\ req'[q].pc # "idle"
    BY <1>1, <1>4, BadgesKept DEF Reached
  <1>10. /\ published' \in Nat /\ peak' \in Nat /\ published' <= peak' /\ peak' <= MaxTemplates
         /\ earned' \in Nat /\ earned' <= MaxPoints /\ reputation' \in Nat /\ lost' \in Nat
         /\ shown' \in Nat /\ shown' <= Cardinality(Fans) /\ stale' \in BOOLEAN
    BY <1>1, <1>2, InvNumbers
  <1>11. /\ rows' \in [Kinds -> SUBSET Fans] /\ badges' \subseteq Badges /\ missed' \subseteq Badges
         /\ "Community Helper" \in badges' => Cardinality(rows'["vote"]) >= HelperVotes
         /\ "Top Creator" \in badges' => peak' >= TopTemplates
    BY <1>1, InvTables, InvBadges
  <1>12. QED
    BY <1>4, <1>6, <1>7, <1>8, <1>9, <1>10, <1>11, InvParts

LEMMA BumpHolds ==
  ASSUME CommunityAssumption, CommunityInv, NEW r \in Requests, Bump(r)
  PROVE  CommunityInv'
  <1>1. /\ req[r].pc = "bump" /\ reputation' = reputation + Points[req[r].kind] /\ AfterBump(r)
        /\ rows' = rows /\ published' = published /\ earned' = earned /\ badges' = badges
        /\ shown' = shown /\ lost' = lost /\ peak' = peak /\ missed' = missed /\ stale' = stale
    BY DEF Bump, ghosts
  <1>2. Points[req[r].kind] \in Nat /\ Due(req[r]) = Points[req[r].kind]
    BY <1>1, InvRequests, BumpsPay DEF Due
  <1>3. PICK next \in Request :
           /\ Go(r, next) /\ Shape(next) /\ Due(next) = 0
           /\ \/ next.kind = req[r].kind /\ next.pc = "count" /\ req[r].kind \in {"like", "vote"}
              \/ next.kind = "template" /\ next.pc = "idle" /\ req[r].kind \notin {"like", "vote", "template"}
    <2>1. CASE req[r].kind \in {"like", "vote"}
      <3>1. Go(r, [req[r] EXCEPT !.pc = "count"])
        BY <1>1, <2>1 DEF AfterBump, Goto
      <3>2. /\ [req[r] EXCEPT !.pc = "count"] \in Request
            /\ [req[r] EXCEPT !.pc = "count"].pc = "count"
            /\ [req[r] EXCEPT !.pc = "count"].kind = req[r].kind
        BY InvRequests, StageIs
      <3>3. QED
        BY <2>1, <3>1, <3>2 DEF Shape, Due
    <2>2. CASE req[r].kind \notin {"like", "vote"}
      <3>1. Go(r, Idle)
        BY <1>1, <2>2 DEF AfterBump, End
      <3>2. req[r].kind # "template"
        BY <1>1, InvRequests DEF Shape
      <3>3. QED
        BY <2>2, <3>1, <3>2, IdleIs DEF Due
    <2>3. QED
      BY <2>1, <2>2
  <1>4. /\ req' \in [Requests -> Request] /\ \A q \in Requests : Shape(req'[q])
        /\ req'[r] = next /\ \A q \in Requests \ {r} : req'[q] = req[q]
    BY <1>3, InvRequests, GotoIs
  <1>5. ReputationIsEarned' /\ reputation' <= earned' /\ lost' <= earned'
    <2>1. lost' = lost + 0 /\ earned' = earned + 0 /\ 0 \in Nat
      BY <1>1, InvNumbers
    <2>2. Due(req[r]) + 0 = Due(req'[r]) + 0 + Points[req[r].kind]
      BY <1>2, <1>3, <1>4
    <2>3. QED
      BY <1>1, <1>2, <1>4, <2>1, <2>2, AccountsMatch
  <1>6. (\A q \in Requests : Ready(req[q]))'
    <2> SUFFICES ASSUME NEW q \in Requests PROVE Ready(req[q])'
      OBVIOUS
    <2>1. CASE q = r
      BY <1>3, <1>4, <2>1 DEF Ready
    <2>2. CASE q # r
      BY <1>1, <1>4, <2>2, InvRequests DEF Ready
    <2>3. QED
      BY <2>1, <2>2
  <1>7. LikeCountSettles'
    BY <1>1, <1>3, <1>4, InvRequests DEF LikeCountSettles
  <1>8. \A k \in {"vote", "template"} :
            Reached(k)' => \/ BadgeOf(k) \in badges' \cup missed'
                          \/ \E q \in Requests : req'[q].kind = k /\ req'[q].pc # "idle"
    BY <1>1, <1>3, <1>4, BadgesKept DEF Reached
  <1>9. /\ published' \in Nat /\ peak' \in Nat /\ published' <= peak' /\ peak' <= MaxTemplates
        /\ earned' \in Nat /\ earned' <= MaxPoints /\ reputation' \in Nat /\ lost' \in Nat
        /\ shown' \in Nat /\ shown' <= Cardinality(Fans) /\ stale' \in BOOLEAN
    BY <1>1, <1>2, InvNumbers
  <1>10. /\ rows' \in [Kinds -> SUBSET Fans] /\ badges' \subseteq Badges /\ missed' \subseteq Badges
         /\ "Community Helper" \in badges' => Cardinality(rows'["vote"]) >= HelperVotes
         /\ "Top Creator" \in badges' => peak' >= TopTemplates
    BY <1>1, InvTables, InvBadges
  <1>11. QED
    BY <1>4, <1>5, <1>6, <1>7, <1>8, <1>9, <1>10, InvParts

LEMMA FindLikeHolds ==
  ASSUME CommunityAssumption, CommunityInv, NEW r \in Requests, NEW fan \in Fans, FindLike(r, fan)
  PROVE  CommunityInv'
  <1>1. /\ req[r].pc = "idle"
        /\ Go(r, [New("like", "toggle") EXCEPT !.fan = fan, !.had = fan \in rows["like"]])
        /\ rows' = rows /\ published' = published /\ reputation' = reputation /\ badges' = badges
        /\ shown' = shown /\ earned' = earned /\ lost' = lost /\ peak' = peak /\ missed' = missed
        /\ stale' = stale
    BY DEF FindLike, Free, store, ghosts
  <1>2. PICK next \in Request :
           /\ Go(r, next) /\ Shape(next) /\ next.kind = "like" /\ next.pc = "toggle"
           /\ next.fan = fan
    <2> DEFINE had == fan \in rows["like"]
    <2>1. had \in BOOLEAN
      OBVIOUS
    <2> HIDE DEF had
    <2>2. New("like", "toggle") \in Request /\ New("like", "toggle").kind = "like"
          /\ New("like", "toggle").pc = "toggle"
      BY NewIs DEF Kinds
    <2>3. /\ [New("like", "toggle") EXCEPT !.fan = fan, !.had = had] \in Request
          /\ [New("like", "toggle") EXCEPT !.fan = fan, !.had = had].kind = "like"
          /\ [New("like", "toggle") EXCEPT !.fan = fan, !.had = had].pc = "toggle"
          /\ [New("like", "toggle") EXCEPT !.fan = fan, !.had = had].fan = fan
      BY <2>1, <2>2 DEF Request
    <2>4. Go(r, [New("like", "toggle") EXCEPT !.fan = fan, !.had = had])
      BY <1>1 DEF had
    <2>5. QED
      BY <2>3, <2>4 DEF Shape
  <1>3. /\ req' \in [Requests -> Request] /\ \A q \in Requests : Shape(req'[q])
        /\ req'[r] = next /\ \A q \in Requests \ {r} : req'[q] = req[q]
    BY <1>2, InvRequests, GotoIs
  <1>4. ReputationIsEarned' /\ reputation' <= earned' /\ lost' <= earned'
    <2>1. /\ lost' = lost + 0 /\ earned' = earned + 0 /\ reputation' = reputation + 0 /\ 0 \in Nat
      <3>1. lost' = lost /\ earned' = earned /\ reputation' = reputation
        BY <1>1
      <3>2. QED
        BY <3>1, InvNumbers
    <2>2. req[r].pc # "bump" /\ req'[r].pc # "bump"
      BY <1>1, <1>2, <1>3
    <2>3. Due(req[r]) + 0 = Due(req'[r]) + 0 + 0
      BY <2>2 DEF Due
    <2>4. QED
      BY <1>3, <2>1, <2>3, AccountsMatch
  <1>5. (\A q \in Requests : Ready(req[q]))'
    <2> SUFFICES ASSUME NEW q \in Requests PROVE Ready(req[q])'
      OBVIOUS
    <2>1. CASE q = r
      BY <1>2, <1>3, <2>1 DEF Ready
    <2>2. CASE q # r
      BY <1>1, <1>3, <2>2, InvRequests DEF Ready
    <2>3. QED
      BY <2>1, <2>2
  <1>6. LikeCountSettles'
    BY <1>1, <1>2, <1>3, InvRequests DEF LikeCountSettles
  <1>7. \A k \in {"vote", "template"} :
            Reached(k)' => \/ BadgeOf(k) \in badges' \cup missed'
                          \/ \E q \in Requests : req'[q].kind = k /\ req'[q].pc # "idle"
    BY <1>1, <1>2, <1>3, BadgesKept DEF Reached
  <1>8. /\ published' \in Nat /\ peak' \in Nat /\ published' <= peak' /\ peak' <= MaxTemplates
        /\ earned' \in Nat /\ earned' <= MaxPoints /\ reputation' \in Nat /\ lost' \in Nat
        /\ shown' \in Nat /\ shown' <= Cardinality(Fans) /\ stale' \in BOOLEAN
    BY <1>1, InvNumbers
  <1>9. /\ rows' \in [Kinds -> SUBSET Fans] /\ badges' \subseteq Badges /\ missed' \subseteq Badges
        /\ "Community Helper" \in badges' => Cardinality(rows'["vote"]) >= HelperVotes
        /\ "Top Creator" \in badges' => peak' >= TopTemplates
    BY <1>1, InvTables, InvBadges
  <1>10. QED
    BY <1>3, <1>4, <1>5, <1>6, <1>7, <1>8, <1>9, InvParts

LEMMA CountLikesHolds ==
  ASSUME CommunityAssumption, CommunityInv, NEW r \in Requests, CountLikes(r)
  PROVE  CommunityInv'
  <1>1. /\ req[r].pc = "count" /\ req[r].kind = "like"
        /\ Go(r, [req[r] EXCEPT !.pc = "publish", !.count = Cardinality(rows["like"])])
        /\ rows' = rows /\ published' = published /\ reputation' = reputation /\ badges' = badges
        /\ shown' = shown /\ earned' = earned /\ lost' = lost /\ peak' = peak /\ missed' = missed
        /\ stale' = stale
    BY DEF CountLikes, At, Goto, store, ghosts
  <1>2. PICK next \in Request :
           /\ Go(r, next) /\ Shape(next) /\ next.kind = "like" /\ next.pc = "publish"
           /\ next.count = Cardinality(rows["like"]) /\ next.count <= Cardinality(Fans)
    <2> DEFINE likes == Cardinality(rows["like"])
    <2>1. likes \in Nat /\ likes <= Cardinality(Fans)
      BY InvTables, CountsAre DEF Kinds
    <2>2. Go(r, [req[r] EXCEPT !.pc = "publish", !.count = likes])
      BY <1>1
    <2> HIDE DEF likes
    <2>3. /\ [req[r] EXCEPT !.pc = "publish", !.count = likes] \in Request
          /\ [req[r] EXCEPT !.pc = "publish", !.count = likes].pc = "publish"
          /\ [req[r] EXCEPT !.pc = "publish", !.count = likes].kind = "like"
          /\ [req[r] EXCEPT !.pc = "publish", !.count = likes].count = likes
      BY <1>1, <2>1, InvRequests DEF Request
    <2>4. QED
      BY <2>1, <2>2, <2>3 DEF Shape, likes
  <1>3. /\ req' \in [Requests -> Request] /\ \A q \in Requests : Shape(req'[q])
        /\ req'[r] = next /\ \A q \in Requests \ {r} : req'[q] = req[q]
    BY <1>2, InvRequests, GotoIs
  <1>4. ReputationIsEarned' /\ reputation' <= earned' /\ lost' <= earned'
    <2>1. /\ lost' = lost + 0 /\ earned' = earned + 0 /\ reputation' = reputation + 0 /\ 0 \in Nat
      <3>1. lost' = lost /\ earned' = earned /\ reputation' = reputation
        BY <1>1
      <3>2. QED
        BY <3>1, InvNumbers
    <2>2. req[r].pc # "bump" /\ req'[r].pc # "bump"
      BY <1>1, <1>2, <1>3
    <2>3. Due(req[r]) + 0 = Due(req'[r]) + 0 + 0
      BY <2>2 DEF Due
    <2>4. QED
      BY <1>3, <2>1, <2>3, AccountsMatch
  <1>5. (\A q \in Requests : Ready(req[q]))'
    <2> SUFFICES ASSUME NEW q \in Requests PROVE Ready(req[q])'
      OBVIOUS
    <2>1. CASE q = r
      BY <1>1, <1>2, <1>3, <2>1 DEF Ready
    <2>2. CASE q # r
      BY <1>1, <1>3, <2>2, InvRequests DEF Ready
    <2>3. QED
      BY <2>1, <2>2
  <1>6. LikeCountSettles'
    BY <1>1, <1>2, <1>3, InvRequests DEF LikeCountSettles
  <1>7. \A k \in {"vote", "template"} :
            Reached(k)' => \/ BadgeOf(k) \in badges' \cup missed'
                          \/ \E q \in Requests : req'[q].kind = k /\ req'[q].pc # "idle"
    BY <1>1, <1>2, <1>3, BadgesKept DEF Reached
  <1>8. /\ published' \in Nat /\ peak' \in Nat /\ published' <= peak' /\ peak' <= MaxTemplates
        /\ earned' \in Nat /\ earned' <= MaxPoints /\ reputation' \in Nat /\ lost' \in Nat
        /\ shown' \in Nat /\ shown' <= Cardinality(Fans) /\ stale' \in BOOLEAN
    BY <1>1, InvNumbers
  <1>9. /\ rows' \in [Kinds -> SUBSET Fans] /\ badges' \subseteq Badges /\ missed' \subseteq Badges
        /\ "Community Helper" \in badges' => Cardinality(rows'["vote"]) >= HelperVotes
        /\ "Top Creator" \in badges' => peak' >= TopTemplates
    BY <1>1, InvTables, InvBadges
  <1>10. QED
    BY <1>3, <1>4, <1>5, <1>6, <1>7, <1>8, <1>9, InvParts

LEMMA CountForBadgeHolds ==
  ASSUME CommunityAssumption, CommunityInv, NEW r \in Requests, CountForBadge(r)
  PROVE  CommunityInv'
  <1>1. /\ req[r].pc = "count" /\ req[r].kind \in {"vote", "template"}
        /\ IF Enough(r) THEN Goto(r, "award") ELSE End(r)
        /\ rows' = rows /\ published' = published /\ reputation' = reputation /\ badges' = badges
        /\ shown' = shown /\ earned' = earned /\ lost' = lost /\ peak' = peak /\ missed' = missed
        /\ stale' = stale
    BY DEF CountForBadge, store, ghosts
  <1>2. PICK next \in Request :
           /\ Go(r, next) /\ Shape(next)
           /\ \/ next.kind = req[r].kind /\ next.pc = "award" /\ Reached(req[r].kind)
              \/ next.kind = "template" /\ next.pc = "idle" /\ ~Reached(req[r].kind)
    <2>1. CASE Enough(r)
      <3>1. /\ [req[r] EXCEPT !.pc = "award"] \in Request
            /\ [req[r] EXCEPT !.pc = "award"].pc = "award"
            /\ [req[r] EXCEPT !.pc = "award"].kind = req[r].kind
        BY InvRequests, StageIs
      <3>2. Go(r, [req[r] EXCEPT !.pc = "award"])
        BY <1>1, <2>1 DEF Goto
      <3>3. Reached(req[r].kind)
        BY <1>1, <2>1 DEF Enough, Reached
      <3>4. QED
        BY <1>1, <3>1, <3>2, <3>3 DEF Shape
    <2>2. CASE ~Enough(r)
      BY <1>1, <2>2, IdleIs DEF End, Enough, Reached
    <2>3. QED
      BY <2>1, <2>2
  <1>3. /\ req' \in [Requests -> Request] /\ \A q \in Requests : Shape(req'[q])
        /\ req'[r] = next /\ \A q \in Requests \ {r} : req'[q] = req[q]
    BY <1>2, InvRequests, GotoIs
  <1>4. ReputationIsEarned' /\ reputation' <= earned' /\ lost' <= earned'
    <2>1. /\ lost' = lost + 0 /\ earned' = earned + 0 /\ reputation' = reputation + 0 /\ 0 \in Nat
      <3>1. lost' = lost /\ earned' = earned /\ reputation' = reputation
        BY <1>1
      <3>2. QED
        BY <3>1, InvNumbers
    <2>2. req[r].pc # "bump" /\ req'[r].pc # "bump"
      BY <1>1, <1>2, <1>3
    <2>3. Due(req[r]) + 0 = Due(req'[r]) + 0 + 0
      BY <2>2 DEF Due
    <2>4. QED
      BY <1>3, <2>1, <2>3, AccountsMatch
  <1>11. /\ Reached("vote") => Cardinality(rows["vote"]) >= HelperVotes
         /\ Reached("template") => peak >= TopTemplates
    BY InvNumbers DEF Reached
  <1>5. (\A q \in Requests : Ready(req[q]))'
    <2> SUFFICES ASSUME NEW q \in Requests PROVE Ready(req[q])'
      OBVIOUS
    <2>1. CASE q = r
      BY <1>1, <1>2, <1>3, <1>11, <2>1 DEF Ready
    <2>2. CASE q # r
      BY <1>1, <1>3, <2>2, InvRequests DEF Ready
    <2>3. QED
      BY <2>1, <2>2
  <1>6. LikeCountSettles'
    BY <1>1, <1>2, <1>3, InvRequests DEF LikeCountSettles
  <1>7. \A k \in {"vote", "template"} :
            Reached(k)' => \/ BadgeOf(k) \in badges' \cup missed'
                          \/ \E q \in Requests : req'[q].kind = k /\ req'[q].pc # "idle"
    BY <1>1, <1>2, <1>3, BadgesKept DEF Reached
  <1>8. /\ published' \in Nat /\ peak' \in Nat /\ published' <= peak' /\ peak' <= MaxTemplates
        /\ earned' \in Nat /\ earned' <= MaxPoints /\ reputation' \in Nat /\ lost' \in Nat
        /\ shown' \in Nat /\ shown' <= Cardinality(Fans) /\ stale' \in BOOLEAN
    BY <1>1, InvNumbers
  <1>9. /\ rows' \in [Kinds -> SUBSET Fans] /\ badges' \subseteq Badges /\ missed' \subseteq Badges
        /\ "Community Helper" \in badges' => Cardinality(rows'["vote"]) >= HelperVotes
        /\ "Top Creator" \in badges' => peak' >= TopTemplates
    BY <1>1, InvTables, InvBadges
  <1>10. QED
    BY <1>3, <1>4, <1>5, <1>6, <1>7, <1>8, <1>9, InvParts

LEMMA FirstHolds ==
  ASSUME CommunityAssumption, CommunityInv, NEW r \in Requests, First(r)
  PROVE  CommunityInv'
  <1>1. /\ req[r].pc = "first" /\ Goto(r, "count") /\ badges' = badges \cup {"First Template"}
        /\ rows' = rows /\ published' = published /\ reputation' = reputation
        /\ shown' = shown /\ earned' = earned /\ lost' = lost /\ peak' = peak /\ missed' = missed
        /\ stale' = stale
    BY DEF First, ghosts
  <1>2. PICK next \in Request :
           /\ Go(r, next) /\ Shape(next) /\ next.kind = "template" /\ next.pc = "count" /\ req[r].kind = "template"
    <2>1. /\ [req[r] EXCEPT !.pc = "count"] \in Request
          /\ [req[r] EXCEPT !.pc = "count"].pc = "count"
          /\ [req[r] EXCEPT !.pc = "count"].kind = req[r].kind
      BY InvRequests, StageIs
    <2>2. req[r].kind = "template"
      BY <1>1, InvRequests DEF Shape
    <2>3. QED
      BY <1>1, <2>1, <2>2 DEF Shape, Goto
  <1>3. /\ req' \in [Requests -> Request] /\ \A q \in Requests : Shape(req'[q])
        /\ req'[r] = next /\ \A q \in Requests \ {r} : req'[q] = req[q]
    BY <1>2, InvRequests, GotoIs
  <1>4. ReputationIsEarned' /\ reputation' <= earned' /\ lost' <= earned'
    <2>1. /\ lost' = lost + 0 /\ earned' = earned + 0 /\ reputation' = reputation + 0 /\ 0 \in Nat
      <3>1. lost' = lost /\ earned' = earned /\ reputation' = reputation
        BY <1>1
      <3>2. QED
        BY <3>1, InvNumbers
    <2>2. req[r].pc # "bump" /\ req'[r].pc # "bump"
      BY <1>1, <1>2, <1>3
    <2>3. Due(req[r]) + 0 = Due(req'[r]) + 0 + 0
      BY <2>2 DEF Due
    <2>4. QED
      BY <1>3, <2>1, <2>3, AccountsMatch
  <1>5. (\A q \in Requests : Ready(req[q]))'
    <2> SUFFICES ASSUME NEW q \in Requests PROVE Ready(req[q])'
      OBVIOUS
    <2>1. CASE q = r
      BY <1>2, <1>3, <2>1 DEF Ready
    <2>2. CASE q # r
      BY <1>1, <1>3, <2>2, InvRequests DEF Ready
    <2>3. QED
      BY <2>1, <2>2
  <1>6. LikeCountSettles'
    BY <1>1, <1>2, <1>3, InvRequests DEF LikeCountSettles
  <1>7. \A k \in {"vote", "template"} :
            Reached(k)' => \/ BadgeOf(k) \in badges' \cup missed'
                          \/ \E q \in Requests : req'[q].kind = k /\ req'[q].pc # "idle"
    BY <1>1, <1>2, <1>3, BadgesKept DEF Reached
  <1>8. /\ published' \in Nat /\ peak' \in Nat /\ published' <= peak' /\ peak' <= MaxTemplates
        /\ earned' \in Nat /\ earned' <= MaxPoints /\ reputation' \in Nat /\ lost' \in Nat
        /\ shown' \in Nat /\ shown' <= Cardinality(Fans) /\ stale' \in BOOLEAN
    BY <1>1, InvNumbers
  <1>9. /\ rows' \in [Kinds -> SUBSET Fans] /\ badges' \subseteq Badges /\ missed' \subseteq Badges
        /\ "Community Helper" \in badges' => Cardinality(rows'["vote"]) >= HelperVotes
        /\ "Top Creator" \in badges' => peak' >= TopTemplates
    BY <1>1, InvTables, InvBadges DEF Badges
  <1>10. QED
    BY <1>3, <1>4, <1>5, <1>6, <1>7, <1>8, <1>9, InvParts

LEMMA AwardHolds ==
  ASSUME CommunityAssumption, CommunityInv, NEW r \in Requests, Award(r)
  PROVE  CommunityInv'
  <1>1. /\ req[r].pc = "award" /\ End(r) /\ badges' = badges \cup {BadgeOf(req[r].kind)}
        /\ rows' = rows /\ published' = published /\ reputation' = reputation
        /\ shown' = shown /\ earned' = earned /\ lost' = lost /\ peak' = peak /\ missed' = missed
        /\ stale' = stale
    BY DEF Award, ghosts
  <1>2. PICK next \in Request :
           /\ Go(r, next) /\ Shape(next) /\ next.kind = "template" /\ next.pc = "idle"
           /\ req[r].kind \in {"vote", "template"}
    <2>1. req[r].kind \in {"vote", "template"}
      BY <1>1, InvRequests DEF Shape
    <2>2. QED
      BY <1>1, <2>1, IdleIs DEF End
  <1>3. /\ req' \in [Requests -> Request] /\ \A q \in Requests : Shape(req'[q])
        /\ req'[r] = next /\ \A q \in Requests \ {r} : req'[q] = req[q]
    BY <1>2, InvRequests, GotoIs
  <1>4. ReputationIsEarned' /\ reputation' <= earned' /\ lost' <= earned'
    <2>1. /\ lost' = lost + 0 /\ earned' = earned + 0 /\ reputation' = reputation + 0 /\ 0 \in Nat
      <3>1. lost' = lost /\ earned' = earned /\ reputation' = reputation
        BY <1>1
      <3>2. QED
        BY <3>1, InvNumbers
    <2>2. req[r].pc # "bump" /\ req'[r].pc # "bump"
      BY <1>1, <1>2, <1>3
    <2>3. Due(req[r]) + 0 = Due(req'[r]) + 0 + 0
      BY <2>2 DEF Due
    <2>4. QED
      BY <1>3, <2>1, <2>3, AccountsMatch
  <1>5. (\A q \in Requests : Ready(req[q]))'
    <2> SUFFICES ASSUME NEW q \in Requests PROVE Ready(req[q])'
      OBVIOUS
    <2>1. CASE q = r
      BY <1>2, <1>3, <2>1 DEF Ready
    <2>2. CASE q # r
      BY <1>1, <1>3, <2>2, InvRequests DEF Ready
    <2>3. QED
      BY <2>1, <2>2
  <1>6. LikeCountSettles'
    BY <1>1, <1>2, <1>3, InvRequests DEF LikeCountSettles
  <1>7. \A k \in {"vote", "template"} :
            Reached(k)' => \/ BadgeOf(k) \in badges' \cup missed'
                          \/ \E q \in Requests : req'[q].kind = k /\ req'[q].pc # "idle"
    BY <1>1, <1>2, <1>3, BadgesKept DEF Reached
  <1>8. /\ published' \in Nat /\ peak' \in Nat /\ published' <= peak' /\ peak' <= MaxTemplates
        /\ earned' \in Nat /\ earned' <= MaxPoints /\ reputation' \in Nat /\ lost' \in Nat
        /\ shown' \in Nat /\ shown' <= Cardinality(Fans) /\ stale' \in BOOLEAN
    BY <1>1, InvNumbers
  <1>9. /\ rows' \in [Kinds -> SUBSET Fans] /\ badges' \subseteq Badges /\ missed' \subseteq Badges
        /\ "Community Helper" \in badges' => Cardinality(rows'["vote"]) >= HelperVotes
        /\ "Top Creator" \in badges' => peak' >= TopTemplates
    <2>1. /\ req[r].kind = "vote" => Cardinality(rows["vote"]) >= HelperVotes
          /\ req[r].kind = "template" => peak >= TopTemplates
      BY <1>1, InvRequests DEF Ready
    <2>2. BadgeOf(req[r].kind) = IF req[r].kind = "vote" THEN "Community Helper" ELSE "Top Creator"
      BY DEF BadgeOf
    <2>3. QED
      BY <1>1, <1>2, <2>1, <2>2, InvTables, InvBadges DEF Badges
  <1>10. QED
    BY <1>3, <1>4, <1>5, <1>6, <1>7, <1>8, <1>9, InvParts

\* Whatever else happens, a request at rest that is taken to another rest owes nothing.
LEMMA Unaccounted ==
  ASSUME CommunityAssumption, CommunityInv, NEW r \in Requests,
         req' \in [Requests -> Request], \A q \in Requests : Shape(req'[q]),
         \A q \in Requests \ {r} : req'[q].pc = req[q].pc /\ req'[q].kind = req[q].kind,
         req[r].pc # "bump", req'[r].pc # "bump",
         reputation' = reputation, earned' = earned, lost' = lost
  PROVE  ReputationIsEarned' /\ reputation' <= earned' /\ lost' <= earned'
  <1>1. /\ lost' = lost + 0 /\ earned' = earned + 0 /\ reputation' = reputation + 0 /\ 0 \in Nat
    <2>1. lost \in Nat /\ earned \in Nat /\ reputation \in Nat
      BY InvNumbers
    <2>2. QED
      BY <2>1
  <1>2. Due(req[r]) + 0 = Due(req'[r]) + 0 + 0
    BY DEF Due
  <1>3. QED
    BY <1>1, <1>2, AccountsMatch

LEMMA CreateHolds ==
  ASSUME CommunityAssumption, CommunityInv, NEW r \in Requests, Create(r)
  PROVE  CommunityInv'
  <1>1. /\ req[r].pc = "idle" /\ Go(r, New("template", "first"))
        /\ rows' = rows /\ reputation' = reputation /\ badges' = badges
        /\ shown' = shown /\ earned' = earned /\ lost' = lost /\ missed' = missed
        /\ stale' = stale
    BY DEF Create, Free
  <1>2. /\ published' \in Nat /\ peak' \in Nat /\ published' <= peak' /\ peak' <= MaxTemplates
        /\ peak <= peak'
    BY InvNumbers DEF Create, PublishOne
  <1>3. /\ New("template", "first") \in Request /\ Shape(New("template", "first"))
        /\ New("template", "first").pc = "first" /\ New("template", "first").kind = "template"
    BY NewIs DEF Shape
  <1>4. /\ req' \in [Requests -> Request] /\ \A q \in Requests : Shape(req'[q])
        /\ req'[r].pc = "first" /\ req'[r].kind = "template"
        /\ \A q \in Requests \ {r} : req'[q] = req[q]
    BY <1>1, <1>3, InvRequests, GotoIs
  <1>5. ReputationIsEarned' /\ reputation' <= earned' /\ lost' <= earned'
    BY <1>1, <1>4, Unaccounted
  <1>6. (\A q \in Requests : Ready(req[q]))'
    <2> SUFFICES ASSUME NEW q \in Requests PROVE Ready(req[q])'
      OBVIOUS
    <2>1. CASE q = r
      BY <1>4, <2>1 DEF Ready
    <2>2. CASE q # r
      <3>1. req'[q] = req[q] /\ Ready(req[q])
        BY <1>4, <2>2, InvRequests
      <3>2. peak >= TopTemplates => peak' >= TopTemplates
        BY <1>2, PeakGrows
      <3>3. QED
        BY <1>1, <3>1, <3>2 DEF Ready
    <2>3. QED
      BY <2>1, <2>2
  <1>7. LikeCountSettles'
    BY <1>1, <1>4, InvRequests DEF LikeCountSettles
  <1>8. \A k \in {"vote", "template"} :
           Reached(k)' => \/ BadgeOf(k) \in badges' \cup missed'
                         \/ \E q \in Requests : req'[q].kind = k /\ req'[q].pc # "idle"
    BY <1>1, <1>4, BadgesKept DEF Reached
  <1>9. /\ published' \in Nat /\ peak' \in Nat /\ published' <= peak' /\ peak' <= MaxTemplates
        /\ earned' \in Nat /\ earned' <= MaxPoints /\ reputation' \in Nat /\ lost' \in Nat
        /\ shown' \in Nat /\ shown' <= Cardinality(Fans) /\ stale' \in BOOLEAN
    BY <1>1, <1>2, InvNumbers
  <1>10. "Top Creator" \in badges' => peak' >= TopTemplates
    <2> SUFFICES ASSUME "Top Creator" \in badges' PROVE peak' >= TopTemplates
      OBVIOUS
    <2>1. peak >= TopTemplates
      BY <1>1, InvBadges
    <2>2. QED
      BY <1>2, <2>1, PeakGrows
  <1>11. /\ rows' \in [Kinds -> SUBSET Fans] /\ badges' \subseteq Badges /\ missed' \subseteq Badges
         /\ "Community Helper" \in badges' => Cardinality(rows'["vote"]) >= HelperVotes
    BY <1>1, InvTables, InvBadges
  <1>12. QED
    BY <1>4, <1>5, <1>6, <1>7, <1>8, <1>9, <1>10, <1>11, InvParts

\* A like or its end, with the counts read before it overtaken.
LEMMA OvertakeIs ==
  ASSUME req \in [Requests -> Request], \A q \in Requests : Shape(req[q]),
         NEW r \in Requests, req[r].kind = "like", NEW stage \in {"bump", "count"}, Overtake(r, stage)
  PROVE  /\ req' \in [Requests -> Request] /\ \A q \in Requests : Shape(req'[q])
         /\ req'[r].pc = stage /\ req'[r].kind = "like"
         /\ \A q \in Requests \ {r} :
               /\ req'[q].pc = req[q].pc /\ req'[q].kind = req[q].kind /\ req'[q].count = req[q].count
               /\ req'[q].fan = req[q].fan
               /\ req[q].pc = "publish" => req'[q].late
  <1>1. /\ [req[r] EXCEPT !.pc = stage] \in Request /\ [req[r] EXCEPT !.pc = stage].pc = stage
        /\ [req[r] EXCEPT !.pc = stage].kind = "like"
    BY StageIs
  <1>2. \A q \in Requests :
           LET b == [req[q] EXCEPT !.late = TRUE]
           IN  /\ b \in Request /\ b.pc = req[q].pc /\ b.kind = req[q].kind /\ b.count = req[q].count
               /\ b.fan = req[q].fan /\ b.late
    BY DEF Request
  <1>3. \A q \in Requests : req[q].pc = "publish" => At(q, "publish", "like")
    BY DEF Shape, At
  <1>4. \A q \in Requests :
           req'[q] = IF q = r THEN [req[r] EXCEPT !.pc = stage]
                     ELSE IF At(q, "publish", "like") THEN [req[q] EXCEPT !.late = TRUE] ELSE req[q]
    BY Zenon DEF Overtake
  <1>5. req' = [q \in Requests |-> req'[q]]
    BY Zenon DEF Overtake
  <1>6. /\ req'[r] \in Request /\ req'[r].pc = stage /\ req'[r].kind = "like"
        /\ \A q \in Requests \ {r} :
               /\ req'[q] \in Request
               /\ req'[q].pc = req[q].pc /\ req'[q].kind = req[q].kind /\ req'[q].count = req[q].count
               /\ req'[q].fan = req[q].fan
               /\ req[q].pc = "publish" => req'[q].late
    BY <1>1, <1>2, <1>3, <1>4
  <1>7. \A q \in Requests : Shape(req'[q])
    BY <1>6 DEF Shape
  <1>8. QED
    BY <1>5, <1>6, <1>7

LEMMA LikeHolds ==
  ASSUME CommunityAssumption, CommunityInv, NEW r \in Requests, Like(r)
  PROVE  CommunityInv'
  <1>1. /\ req[r].pc = "toggle" /\ req[r].kind = "like" /\ Overtake(r, "bump")
        /\ req[r].fan \notin rows["like"]
        /\ rows' = [rows EXCEPT !["like"] = @ \cup {req[r].fan}]
        /\ earned + Points["like"] <= MaxPoints /\ earned' = earned + Points["like"]
        /\ published' = published /\ reputation' = reputation /\ badges' = badges
        /\ shown' = shown /\ lost' = lost /\ peak' = peak /\ missed' = missed /\ stale' = stale
    BY DEF Like, At, Insert, Earn
  <1>2. Points["like"] \in Nat
    BY DEF CommunityAssumption
  <1>3. /\ req' \in [Requests -> Request] /\ \A q \in Requests : Shape(req'[q])
        /\ req'[r].pc = "bump" /\ req'[r].kind = "like"
        /\ \A q \in Requests \ {r} :
               /\ req'[q].pc = req[q].pc /\ req'[q].kind = req[q].kind /\ req'[q].count = req[q].count
               /\ req'[q].fan = req[q].fan
               /\ req[q].pc = "publish" => req'[q].late
    BY <1>1, InvRequests, OvertakeIs
  <1>4. ReputationIsEarned' /\ reputation' <= earned' /\ lost' <= earned'
    <2>1. lost' = lost + 0 /\ reputation' = reputation + 0 /\ 0 \in Nat
      BY <1>1, InvNumbers
    <2>2. Due(req[r]) = 0 /\ Due(req'[r]) = Points["like"]
      BY <1>1, <1>3 DEF Due
    <2>3. Due(req[r]) + Points["like"] = Due(req'[r]) + 0 + 0
      BY <1>2, <2>2
    <2>4. QED
      BY <1>1, <1>2, <1>3, <2>1, <2>3, AccountsMatch
  <1>5. req[r].fan \in Fans
    BY <1>1, InvRequests DEF Ready
  <1>6. rows' \in [Kinds -> SUBSET Fans] /\ rows'["vote"] = rows["vote"]
    BY <1>1, <1>5, InvTables, AddingIs DEF Kinds
  <1>7. (\A q \in Requests : Ready(req[q]))'
    <2> SUFFICES ASSUME NEW q \in Requests PROVE Ready(req[q])'
      OBVIOUS
    <2>1. CASE q = r
      BY <1>3, <2>1 DEF Ready
    <2>2. CASE q # r
      <3>1. /\ Ready(req[q]) /\ Shape(req'[q]) /\ req'[q].pc = req[q].pc /\ req'[q].kind = req[q].kind
            /\ req'[q].count = req[q].count /\ req'[q].fan = req[q].fan
            /\ req[q].pc = "publish" => req'[q].late
        BY <1>3, <2>2, InvRequests
      <3>2. QED
        BY <1>1, <1>6, <3>1 DEF Ready
    <2>3. QED
      BY <2>1, <2>2
  <1>8. LikeCountSettles'
    BY <1>3 DEF LikeCountSettles
  <1>9. \A k \in {"vote", "template"} :
           Reached(k)' => \/ BadgeOf(k) \in badges' \cup missed'
                         \/ \E q \in Requests : req'[q].kind = k /\ req'[q].pc # "idle"
    BY <1>1, <1>3, <1>6, BadgesKept DEF Reached
  <1>10. /\ published' \in Nat /\ peak' \in Nat /\ published' <= peak' /\ peak' <= MaxTemplates
         /\ earned' \in Nat /\ earned' <= MaxPoints /\ reputation' \in Nat /\ lost' \in Nat
         /\ shown' \in Nat /\ shown' <= Cardinality(Fans) /\ stale' \in BOOLEAN
    BY <1>1, <1>2, InvNumbers
  <1>11. /\ rows' \in [Kinds -> SUBSET Fans] /\ badges' \subseteq Badges /\ missed' \subseteq Badges
         /\ "Community Helper" \in badges' => Cardinality(rows'["vote"]) >= HelperVotes
         /\ "Top Creator" \in badges' => peak' >= TopTemplates
    BY <1>1, <1>6, InvTables, InvBadges
  <1>12. QED
    BY <1>3, <1>4, <1>7, <1>8, <1>9, <1>10, <1>11, InvParts

LEMMA UnlikeHolds ==
  ASSUME CommunityAssumption, CommunityInv, NEW r \in Requests, Unlike(r)
  PROVE  CommunityInv'
  <1>1. /\ req[r].pc = "toggle" /\ req[r].kind = "like" /\ Overtake(r, "count")
        /\ rows' = [rows EXCEPT !["like"] = @ \ {req[r].fan}]
        /\ published' = published /\ reputation' = reputation /\ badges' = badges
        /\ shown' = shown /\ earned' = earned /\ lost' = lost /\ peak' = peak
        /\ missed' = missed /\ stale' = stale
    BY DEF Unlike, At, ghosts
  <1>3. /\ req' \in [Requests -> Request] /\ \A q \in Requests : Shape(req'[q])
        /\ req'[r].pc = "count" /\ req'[r].kind = "like"
        /\ \A q \in Requests \ {r} :
               /\ req'[q].pc = req[q].pc /\ req'[q].kind = req[q].kind /\ req'[q].count = req[q].count
               /\ req'[q].fan = req[q].fan
               /\ req[q].pc = "publish" => req'[q].late
    BY <1>1, InvRequests, OvertakeIs
  <1>4. ReputationIsEarned' /\ reputation' <= earned' /\ lost' <= earned'
    BY <1>1, <1>3, Unaccounted
  <1>6. rows' \in [Kinds -> SUBSET Fans] /\ rows'["vote"] = rows["vote"]
    BY <1>1, InvTables DEF Kinds
  <1>7. (\A q \in Requests : Ready(req[q]))'
    <2> SUFFICES ASSUME NEW q \in Requests PROVE Ready(req[q])'
      OBVIOUS
    <2>1. CASE q = r
      BY <1>3, <2>1 DEF Ready
    <2>2. CASE q # r
      <3>1. /\ Ready(req[q]) /\ Shape(req'[q]) /\ req'[q].pc = req[q].pc /\ req'[q].kind = req[q].kind
            /\ req'[q].count = req[q].count /\ req'[q].fan = req[q].fan
            /\ req[q].pc = "publish" => req'[q].late
        BY <1>3, <2>2, InvRequests
      <3>2. QED
        BY <1>1, <1>6, <3>1 DEF Ready
    <2>3. QED
      BY <2>1, <2>2
  <1>8. LikeCountSettles'
    BY <1>3 DEF LikeCountSettles
  <1>9. \A k \in {"vote", "template"} :
           Reached(k)' => \/ BadgeOf(k) \in badges' \cup missed'
                         \/ \E q \in Requests : req'[q].kind = k /\ req'[q].pc # "idle"
    BY <1>1, <1>3, <1>6, BadgesKept DEF Reached
  <1>10. /\ published' \in Nat /\ peak' \in Nat /\ published' <= peak' /\ peak' <= MaxTemplates
         /\ earned' \in Nat /\ earned' <= MaxPoints /\ reputation' \in Nat /\ lost' \in Nat
         /\ shown' \in Nat /\ shown' <= Cardinality(Fans) /\ stale' \in BOOLEAN
    BY <1>1, InvNumbers
  <1>11. /\ rows' \in [Kinds -> SUBSET Fans] /\ badges' \subseteq Badges /\ missed' \subseteq Badges
         /\ "Community Helper" \in badges' => Cardinality(rows'["vote"]) >= HelperVotes
         /\ "Top Creator" \in badges' => peak' >= TopTemplates
    BY <1>1, <1>6, InvTables, InvBadges
  <1>12. QED
    BY <1>3, <1>4, <1>7, <1>8, <1>9, <1>10, <1>11, InvParts

LEMMA PublishHolds ==
  ASSUME CommunityAssumption, CommunityInv, NEW r \in Requests, Publish(r)
  PROVE  CommunityInv'
  <1>1. /\ req[r].pc = "publish" /\ req[r].kind = "like" /\ Go(r, Idle)
        /\ shown' = req[r].count /\ stale' = req[r].late
        /\ rows' = rows /\ published' = published /\ reputation' = reputation /\ badges' = badges
        /\ earned' = earned /\ lost' = lost /\ peak' = peak /\ missed' = missed
    BY DEF Publish, At, End
  <1>2. /\ req' \in [Requests -> Request] /\ \A q \in Requests : Shape(req'[q])
        /\ req'[r] = Idle /\ \A q \in Requests \ {r} : req'[q] = req[q]
    BY <1>1, IdleIs, InvRequests, GotoIs
  <1>3. /\ shown' \in Nat /\ shown' <= Cardinality(Fans) /\ stale' \in BOOLEAN
        /\ stale' \/ shown' = Cardinality(rows'["like"])
    <2>1. req[r].count \in Nat /\ req[r].late \in BOOLEAN /\ Ready(req[r])
      BY InvRequests DEF Request
    <2>2. QED
      BY <1>1, <2>1 DEF Ready
  <1>4. ReputationIsEarned' /\ reputation' <= earned' /\ lost' <= earned'
    BY <1>1, <1>2, IdleIs, Unaccounted
  <1>5. (\A q \in Requests : Ready(req[q]))'
    <2> SUFFICES ASSUME NEW q \in Requests PROVE Ready(req[q])'
      OBVIOUS
    <2>1. CASE q = r
      BY <1>2, <2>1, IdleIs DEF Ready
    <2>2. CASE q # r
      BY <1>1, <1>2, <2>2, InvRequests DEF Ready
    <2>3. QED
      BY <2>1, <2>2
  <1>6. LikeCountSettles'
    BY <1>3 DEF LikeCountSettles
  <1>7. \A k \in {"vote", "template"} :
           Reached(k)' => \/ BadgeOf(k) \in badges' \cup missed'
                         \/ \E q \in Requests : req'[q].kind = k /\ req'[q].pc # "idle"
    BY <1>1, <1>2, BadgesKept DEF Reached
  <1>8. /\ published' \in Nat /\ peak' \in Nat /\ published' <= peak' /\ peak' <= MaxTemplates
        /\ earned' \in Nat /\ earned' <= MaxPoints /\ reputation' \in Nat /\ lost' \in Nat
        /\ shown' \in Nat /\ shown' <= Cardinality(Fans) /\ stale' \in BOOLEAN
    BY <1>1, <1>3, InvNumbers
  <1>9. /\ rows' \in [Kinds -> SUBSET Fans] /\ badges' \subseteq Badges /\ missed' \subseteq Badges
        /\ "Community Helper" \in badges' => Cardinality(rows'["vote"]) >= HelperVotes
        /\ "Top Creator" \in badges' => peak' >= TopTemplates
    BY <1>1, InvTables, InvBadges
  <1>10. QED
    BY <1>2, <1>4, <1>5, <1>6, <1>7, <1>8, <1>9, InvParts

LEMMA FailHolds ==
  ASSUME CommunityAssumption, CommunityInv, NEW r \in Requests, Fail(r)
  PROVE  CommunityInv'
  <1>1. /\ req[r].pc # "idle" /\ Go(r, Idle)
        /\ lost' = lost + Due(req[r])
        /\ missed' = missed \cup (IF req[r].kind \in {"vote", "template"} THEN {BadgeOf(req[r].kind)} ELSE {})
        /\ stale' = (stale \/ (req[r].kind = "like" /\ req[r].pc # "toggle"))
        /\ rows' = rows /\ published' = published /\ reputation' = reputation /\ badges' = badges
        /\ shown' = shown /\ earned' = earned /\ peak' = peak
    BY DEF Fail, Free, End, store, Due
  <1>2. /\ req' \in [Requests -> Request] /\ \A q \in Requests : Shape(req'[q])
        /\ req'[r] = Idle /\ \A q \in Requests \ {r} : req'[q] = req[q]
    BY <1>1, IdleIs, InvRequests, GotoIs
  <1>3. Due(req[r]) \in Nat /\ Due(req'[r]) = 0
    <2>1. Due(req[r]) \in Nat
      BY InvRequests, BumpsPay
    <2>2. Due(req'[r]) = 0
      BY <1>2, IdleIs DEF Due
    <2>3. QED
      BY <2>1, <2>2
  <1>4. ReputationIsEarned' /\ reputation' <= earned' /\ lost' <= earned'
    <2>1. earned' = earned + 0 /\ reputation' = reputation + 0 /\ 0 \in Nat
      <3>1. earned' = earned /\ reputation' = reputation
        BY <1>1
      <3>2. QED
        BY <3>1, InvNumbers
    <2>2. Due(req[r]) + 0 = Due(req'[r]) + Due(req[r]) + 0
      BY <1>3
    <2>3. lost' = lost + Due(req[r])
      BY <1>1
    <2>4. QED
      BY <1>2, <1>3, <2>1, <2>2, <2>3, AccountsMatch
  <1>5. (\A q \in Requests : Ready(req[q]))'
    <2> SUFFICES ASSUME NEW q \in Requests PROVE Ready(req[q])'
      OBVIOUS
    <2>1. CASE q = r
      BY <1>2, <2>1, IdleIs DEF Ready
    <2>2. CASE q # r
      BY <1>1, <1>2, <2>2, InvRequests DEF Ready
    <2>3. QED
      BY <2>1, <2>2
  <1>6. LikeCountSettles'
    BY <1>1, <1>2, InvRequests DEF LikeCountSettles
  <1>7. \A k \in {"vote", "template"} :
           Reached(k)' => \/ BadgeOf(k) \in badges' \cup missed'
                         \/ \E q \in Requests : req'[q].kind = k /\ req'[q].pc # "idle"
    BY <1>1, <1>2, BadgesKept DEF Reached
  <1>8. /\ published' \in Nat /\ peak' \in Nat /\ published' <= peak' /\ peak' <= MaxTemplates
        /\ earned' \in Nat /\ earned' <= MaxPoints /\ reputation' \in Nat /\ lost' \in Nat
        /\ shown' \in Nat /\ shown' <= Cardinality(Fans) /\ stale' \in BOOLEAN
    <2>1. stale' \in BOOLEAN
      BY <1>1, InvNumbers, Zenon
    <2>2. lost' \in Nat
      <3>1. lost' = lost + Due(req[r])
        BY <1>1
      <3>2. QED
        BY <1>3, <3>1, InvNumbers
    <2>3. published' = published /\ reputation' = reputation /\ shown' = shown /\ earned' = earned
          /\ peak' = peak
      BY <1>1
    <2>4. QED
      BY <2>1, <2>2, <2>3, InvNumbers
  <1>9. /\ rows' \in [Kinds -> SUBSET Fans] /\ badges' \subseteq Badges /\ missed' \subseteq Badges
        /\ "Community Helper" \in badges' => Cardinality(rows'["vote"]) >= HelperVotes
        /\ "Top Creator" \in badges' => peak' >= TopTemplates
    BY <1>1, InvTables, InvBadges DEF BadgeOf, Badges
  <1>10. QED
    BY <1>2, <1>4, <1>5, <1>6, <1>7, <1>8, <1>9, InvParts

\* Unfollow, Republish and Withdraw: no request takes part.
LEMMA QuietHolds ==
  ASSUME CommunityAssumption, CommunityInv,
         (\E fan \in Fans : Unfollow(fan)) \/ Republish \/ Withdraw
  PROVE  CommunityInv'
  <1>1. /\ reputation' = reputation /\ badges' = badges /\ shown' = shown /\ req' = req
        /\ earned' = earned /\ lost' = lost /\ stale' = stale
        /\ rows'["vote"] = rows["vote"] /\ rows'["like"] = rows["like"]
        /\ rows' \in [Kinds -> SUBSET Fans]
    BY InvTables DEF Unfollow, Republish, Withdraw, ghosts, Kinds
  <1>2. /\ published' \in Nat /\ peak' \in Nat /\ published' <= peak' /\ peak' <= MaxTemplates
        /\ peak <= peak' /\ missed \subseteq missed' /\ missed' \subseteq Badges
        /\ published' <= published \/ "Top Creator" \in missed'
    <2>1. CASE \E fan \in Fans : Unfollow(fan)
      <3>1. published' = published /\ peak' = peak /\ missed' = missed
        BY <2>1 DEF Unfollow, ghosts
      <3>2. /\ published' \in Nat /\ peak' \in Nat /\ published' <= peak' /\ peak' <= MaxTemplates
            /\ peak <= peak' /\ published' <= published
        BY <3>1, InvNumbers
      <3>3. missed \subseteq missed' /\ missed' \subseteq Badges
        BY <3>1, InvTables
      <3>4. QED
        BY <3>2, <3>3, Zenon
    <2>2. CASE Republish
      <3>1. /\ published < MaxTemplates /\ published' = published + 1
            /\ peak' = IF published = peak THEN peak + 1 ELSE peak
        BY <2>2 DEF Republish, PublishOne
      <3>2. /\ published \in Nat /\ peak \in Nat /\ published <= peak /\ peak <= MaxTemplates
            /\ MaxTemplates \in Nat
        BY InvNumbers
      <3>3. /\ published' \in Nat /\ peak' \in Nat /\ published' <= peak' /\ peak' <= MaxTemplates
            /\ peak <= peak'
        <4>1. CASE published = peak
          BY <3>1, <3>2, <4>1
        <4>2. CASE published # peak
          BY <3>1, <3>2, <4>2
        <4>3. QED
          BY <4>1, <4>2
      <3>4. missed' = missed \cup {"Top Creator"}
        BY <2>2 DEF Republish
      <3>5. QED
        BY <3>3, <3>4, InvTables DEF Badges
    <2>3. CASE Withdraw
      <3>1. published > 0 /\ published' = published - 1 /\ peak' = peak /\ missed' = missed
        BY <2>3 DEF Withdraw, ghosts
      <3>2. published \in Nat /\ peak \in Nat /\ published <= peak /\ peak <= MaxTemplates
        BY InvNumbers
      <3>3. /\ published' \in Nat /\ peak' \in Nat /\ published' <= peak' /\ peak' <= MaxTemplates
            /\ peak <= peak' /\ published' <= published
        BY <3>1, <3>2
      <3>4. QED
        BY <3>1, <3>3, InvTables
    <2>4. QED
      BY <2>1, <2>2, <2>3
  <1>4. ReputationIsEarned' /\ reputation' <= earned' /\ lost' <= earned'
    <2>1. Owed' = Owed
      BY <1>1 DEF Owed, Pending
    <2>2. ReputationIsEarned
      BY DEF CommunityInv
    <2>3. QED
      BY <1>1, <2>1, <2>2, InvNumbers DEF ReputationIsEarned
  <1>5. (\A q \in Requests : Ready(req[q]))'
    <2> SUFFICES ASSUME NEW q \in Requests PROVE Ready(req[q])'
      OBVIOUS
    <2>1. req'[q] = req[q] /\ Ready(req[q])
      BY <1>1, InvRequests
    <2>2. peak >= TopTemplates => peak' >= TopTemplates
      BY <1>2, PeakGrows
    <2>3. QED
      BY <1>1, <2>1, <2>2 DEF Ready
  <1>6. LikeCountSettles'
    BY <1>1, InvRequests DEF LikeCountSettles
  <1>7. \A k \in {"vote", "template"} :
           Reached(k)' => \/ BadgeOf(k) \in badges' \cup missed'
                         \/ \E q \in Requests : req'[q].kind = k /\ req'[q].pc # "idle"
    <2>1. Reached("vote")' = Reached("vote")
      BY <1>1 DEF Reached
    <2>2. Reached("template")' => Reached("template") \/ BadgeOf("template") \in missed'
      <3>1. BadgeOf("template") = "Top Creator"
        BY DEF BadgeOf
      <3>2. published \in Nat /\ published' \in Nat /\ TopTemplates \in Nat
        BY <1>2, InvNumbers
      <3>3. CASE "Top Creator" \in missed'
        BY <3>1, <3>3
      <3>4. CASE published' <= published
        <4>1. published' >= TopTemplates => published >= TopTemplates
          BY <3>2, <3>4
        <4>2. QED
          BY <4>1 DEF Reached
      <3>5. QED
        BY <1>2, <3>3, <3>4
    <2>3. QED
      BY <1>1, <1>2, <2>1, <2>2, BadgesKept
  <1>8. /\ published' \in Nat /\ peak' \in Nat /\ published' <= peak' /\ peak' <= MaxTemplates
        /\ earned' \in Nat /\ earned' <= MaxPoints /\ reputation' \in Nat /\ lost' \in Nat
        /\ shown' \in Nat /\ shown' <= Cardinality(Fans) /\ stale' \in BOOLEAN
    BY <1>1, <1>2, InvNumbers
  <1>9. "Top Creator" \in badges' => peak' >= TopTemplates
    <2> SUFFICES ASSUME "Top Creator" \in badges' PROVE peak' >= TopTemplates
      OBVIOUS
    <2>1. peak >= TopTemplates
      BY <1>1, InvBadges
    <2>2. QED
      BY <1>2, <2>1, PeakGrows
  <1>10. /\ rows' \in [Kinds -> SUBSET Fans] /\ badges' \subseteq Badges /\ missed' \subseteq Badges
         /\ "Community Helper" \in badges' => Cardinality(rows'["vote"]) >= HelperVotes
    BY <1>1, <1>2, InvTables, InvBadges
  <1>11. req' \in [Requests -> Request]
    BY <1>1, InvRequests
  <1>12. QED
    BY <1>4, <1>5, <1>6, <1>7, <1>8, <1>9, <1>10, <1>11, InvParts

(***************************************************************************)
(* The promises of the community                                           *)
(***************************************************************************)

LEMMA CommunityStarts ==
  ASSUME CommunityAssumption, Init
  PROVE  CommunityInv
  <1>1. /\ rows = [kind \in Kinds |-> {}] /\ published = 0 /\ reputation = 0 /\ badges = {} /\ shown = 0
        /\ req = [r \in Requests |-> Idle] /\ earned = 0 /\ lost = 0 /\ peak = 0 /\ missed = {}
        /\ stale = FALSE
    BY DEF Init
  <1>2. /\ MaxTemplates \in Nat /\ MaxPoints \in Nat /\ Cardinality(Fans) \in Nat
        /\ HelperVotes \in Nat /\ TopTemplates \in Nat /\ HelperVotes > 0 /\ TopTemplates > 0
        /\ DOMAIN Points = Kinds \cup {"review"}
    BY FS_CardinalityType DEF CommunityAssumption, Kinds
  <1>3. /\ req \in [Requests -> Request]
        /\ \A r \in Requests : req[r].pc = "idle" /\ req[r].kind = "template"
    BY <1>1, IdleIs
  <1>4. Cardinality({}) = 0
    BY FS_EmptySet
  <1>5. rows["vote"] = {} /\ rows["like"] = {} /\ rows \in [Kinds -> SUBSET Fans]
    BY <1>1 DEF Kinds
  <1>6. TypeOK
    <2>1. \A r \in Requests : req[r].kind \in DOMAIN Points \cup {"template"}
      BY <1>3
    <2>2. /\ published \in 0..peak /\ peak \in 0..MaxTemplates /\ earned \in 0..MaxPoints
          /\ reputation \in 0..earned /\ lost \in 0..earned /\ shown \in 0..Cardinality(Fans)
      BY <1>1, <1>2
    <2>3. badges \subseteq Badges /\ missed \subseteq Badges /\ stale \in BOOLEAN
      BY <1>1
    <2>4. QED
      BY <1>5, <2>1, <2>2, <2>3, Zenon DEF TypeOK
  <1>7. \A r \in Requests : Ready(req[r])
    BY <1>3 DEF Ready, Shape
  <1>8. ReputationIsEarned
    <2>1. Pending = {}
      BY <1>3 DEF Pending
    <2>2. Owed = {}
      BY <2>1 DEF Owed
    <2>3. QED
      BY <1>1, <1>4, <2>2 DEF ReputationIsEarned
  <1>9. BadgesFollowNumbers
    <2>1. ~Reached("vote") /\ ~Reached("template")
      BY <1>1, <1>2, <1>4, <1>5 DEF Reached
    <2>2. QED
      BY <1>1, <2>1 DEF BadgesFollowNumbers
  <1>10. LikeCountSettles
    BY <1>1, <1>4, <1>5 DEF LikeCountSettles
  <1>11. QED
    BY <1>3, <1>6, <1>7, <1>8, <1>9, <1>10 DEF CommunityInv

LEMMA CommunitySteps ==
  ASSUME CommunityAssumption, CommunityInv, Next \/ UNCHANGED vars
  PROVE  CommunityInv'
  <1>1. CASE Next
    <2>1. ASSUME NEW r \in Requests, NEW fan \in Fans,
                 FindLike(r, fan) \/ \E kind \in Kinds : Start(r, kind, fan)
          PROVE  CommunityInv'
      BY <2>1, FindLikeHolds, StartHolds
    <2>2. ASSUME NEW r \in Requests,
                 \/ Review(r) \/ Create(r)
                 \/ Bump(r) \/ Like(r) \/ Unlike(r) \/ CountLikes(r) \/ Publish(r)
                 \/ First(r) \/ CountForBadge(r) \/ Award(r) \/ Fail(r)
          PROVE  CommunityInv'
      BY <2>2, ReviewHolds, CreateHolds, BumpHolds, LikeHolds, UnlikeHolds, CountLikesHolds, PublishHolds,
         FirstHolds, CountForBadgeHolds, AwardHolds, FailHolds
    <2>3. CASE (\E fan \in Fans : Unfollow(fan)) \/ Republish \/ Withdraw
      BY <2>3, QuietHolds
    <2>4. QED
      BY <1>1, <2>1, <2>2, <2>3, Zenon DEF Next
  <1>2. CASE UNCHANGED vars
    <2>1. /\ rows' = rows /\ published' = published /\ reputation' = reputation /\ badges' = badges
          /\ shown' = shown /\ req' = req /\ earned' = earned /\ lost' = lost /\ peak' = peak
          /\ missed' = missed /\ stale' = stale
      BY <1>2 DEF vars, store, ghosts
    <2>2. QED
      BY <2>1 DEF CommunityInv, TypeOK, Ready, ReputationIsEarned, Owed, Pending, BadgesFollowNumbers,
                  Reached, Free, LikeCountSettles
  <1>3. QED
    BY <1>1, <1>2

\* The inductive invariant of the community.
THEOREM CommunityHolds == Spec => []CommunityInv
  <1>1. Init => CommunityInv
    BY CommunityAssumption, CommunityStarts
  <1>2. CommunityInv /\ [Next]_vars => CommunityInv'
    BY CommunityAssumption, CommunitySteps
  <1>3. QED
    BY <1>1, <1>2, PTL DEF Spec

\* For any number of users and requests the creator's reputation is what was earned,
\* less what is still to be added or was lost with a failed request: no two requests
\* overwrite each other's points.
THEOREM ReputationIsAlwaysEarned == Spec => []ReputationIsEarned
  <1>1. CommunityInv => ReputationIsEarned
    BY DEF CommunityInv
  <1>2. QED
    BY <1>1, CommunityHolds, PTL

\* For any number of users and requests, whoever has the votes or the templates has
\* the badge, but for the exceptions named, and nobody else has.
THEOREM BadgesAlwaysFollow == Spec => []BadgesFollowNumbers
  <1>1. CommunityInv => BadgesFollowNumbers
    BY DEF CommunityInv
  <1>2. QED
    BY <1>1, CommunityHolds, PTL

\* For any number of users and requests, points and badges are those of what others did.
THEOREM StandingIsAlwaysEarned == Spec => []StandingIsEarned
  BY ReputationIsAlwaysEarned, BadgesAlwaysFollow, PTL DEF StandingIsEarned

\* For any number of users and requests, the like count shown is that of the likes
\* when the last toggle has ended, unless one was overtaken or failed.
THEOREM LikeCountAlwaysSettles == Spec => []LikeCountSettles
  <1>1. CommunityInv => LikeCountSettles
    BY DEF CommunityInv
  <1>2. QED
    BY <1>1, CommunityHolds, PTL

\* The tables of the community keep their types.
THEOREM CommunityTypes == Spec => []TypeOK
  <1>1. CommunityInv => TypeOK
    BY DEF CommunityInv
  <1>2. QED
    BY <1>1, CommunityHolds, PTL

(***************************************************************************)
(* The page that builds a workbook                                         *)
(***************************************************************************)

\* Before a build is asked for, its row has no status, tokens or maker.
LEMMA NoRowIs ==
  /\ Ai!NoRow \in Ai!Row
  /\ Ai!NoRow.status = "none" /\ Ai!NoRow.tokens = 0 /\ Ai!NoRow.by = "none"
  /\ Ai!NoRow.template = FALSE /\ Ai!NoRow.progress = "none"
  <1>1. "none" \in Ai!Statuses /\ "none" \in Ai!Stages /\ 0 \in Nat
    BY DEF Ai!Statuses, Ai!Stages
  <1>s. "none" \in Ai!Makers
    BY DEF Ai!Makers
  <1>b. FALSE \in BOOLEAN
    BY Zenon
  <1>2. Ai!NoRow \in Ai!Row
    BY <1>1, <1>s, <1>b, Zenon DEF Ai!NoRow, Ai!Row
  <1>3. QED
    BY <1>2 DEF Ai!NoRow

\* A call that is not in flight.
LEMMA NoCallIs ==
  /\ Ai!NoCall \in Ai!Call
  /\ Ai!NoCall.pc = "idle" /\ Ai!NoCall.for = "status" /\ Ai!NoCall.build = 0
  /\ Ai!NoCall.seen = 0
  BY DEF Ai!NoCall, Ai!Call, Ai!Statuses, Ai!Stages

\* What the server does to the rows spoils nothing that was read of an ended build.
Grows ==
  /\ builds' \in [Builds -> Ai!Row] /\ \A b \in Builds : Ai!Made(builds'[b])
  /\ \A b \in Builds : builds[b].status \in Ai!Ended =>
        builds'[b].status \in Ai!Ended /\ builds'[b].tokens = builds[b].tokens

LEMMA RowChanges ==
  ASSUME builds \in [Builds -> Ai!Row], \A b \in Builds : Ai!Made(builds[b]),
         NEW b \in Builds, NEW r \in Ai!Row, Ai!Made(r), builds' = [builds EXCEPT ![b] = r],
         builds[b].status \in Ai!Ended => r.status \in Ai!Ended /\ r.tokens = builds[b].tokens
  PROVE  Grows
  BY DEF Grows

LEMMA ServerGrows ==
  ASSUME ModelsAssumption, Ai!AiInv, NEW b \in Builds,
         \/ Ai!Begin(b) \/ Ai!AttemptFails(b) \/ Ai!AnswerInvalid(b) \/ Ai!AnswerValid(b)
         \/ Ai!fallbackSpec(b) \/ Ai!Complete(b) \/ Ai!Fail(b)
  PROVE  Grows
  <1> DEFINE x == builds[b]
  <1>1. /\ builds \in [Builds -> Ai!Row] /\ \A a \in Builds : Ai!Made(builds[a])
        /\ x \in Ai!Row /\ Ai!Made(x)
    BY DEF Ai!AiInv
  <1>2. x.asked \in Nat /\ x.tokens \in Nat
    BY <1>1 DEF Ai!Row
  <1>3. CASE Ai!Begin(b)
    <2> DEFINE y == [x EXCEPT !.status = "PROCESSING", !.progress = "generate"]
    <2>1. x.status = "PENDING" /\ builds' = [builds EXCEPT ![b] = y]
      BY <1>1, <1>3 DEF Ai!Begin, Ai!Row
    <2>2. y \in Ai!Row /\ y.tokens = x.tokens /\ y.by = x.by /\ y.template = x.template
      BY <1>1 DEF Ai!Row, Ai!Statuses, Ai!Stages
    <2>3. Ai!Made(y)
      BY <1>1, <2>1, <2>2 DEF Ai!Made, Ai!Ended
    <2> HIDE DEF y
    <2>4. QED
      BY <1>1, <2>1, <2>2, <2>3, RowChanges DEF Ai!Ended
  <1>4. CASE Ai!AttemptFails(b) \/ Ai!AnswerInvalid(b)
    <2>1. PICK n \in Nat : builds' = [builds EXCEPT ![b].asked = n]
      <3>1. x.asked + 1 \in Nat /\ ((x.asked \div 2) + 1) * 2 \in Nat
        BY <1>2
      <3>2. \/ builds' = [builds EXCEPT ![b].asked = x.asked + 1]
            \/ builds' = [builds EXCEPT ![b].asked = ((x.asked \div 2) + 1) * 2]
        BY <1>1, <1>4 DEF Ai!AttemptFails, Ai!AnswerInvalid, Ai!Attempts
      <3>3. QED
        BY <3>1, <3>2
    <2> DEFINE y == [x EXCEPT !.asked = n]
    <2>2. builds' = [builds EXCEPT ![b] = y]
      BY <1>1, <2>1 DEF Ai!Row
    <2>3. /\ y \in Ai!Row /\ y.tokens = x.tokens /\ y.by = x.by /\ y.template = x.template
          /\ y.status = x.status /\ y.progress = x.progress
      BY <1>1 DEF Ai!Row
    <2>4. Ai!Made(y)
      BY <1>1, <2>3 DEF Ai!Made
    <2> HIDE DEF y
    <2>5. QED
      BY <1>1, <2>2, <2>3, <2>4, RowChanges
  <1>5. CASE Ai!AnswerValid(b) \/ Ai!fallbackSpec(b)
    <2>1. PICK by \in Ai!Makers, tokens \in Nat :
             /\ builds' = [builds EXCEPT ![b].progress = "preview", ![b].by = by, ![b].tokens = tokens,
                                        ![b].asked = 0]
             /\ by = "fallback" => tokens = 0
      <3>1. CASE Ai!AnswerValid(b)
        <4>1. x.asked < 2 * Len(Models)
          BY <3>1 DEF Ai!AnswerValid, Ai!Asking, Ai!Attempts
        <4>2. Len(Models) \in Nat /\ DOMAIN Models = 1..Len(Models)
          BY DEF ModelsAssumption
        <4>3. (x.asked \div 2) + 1 \in 1..Len(Models)
          BY <1>2, <4>1, <4>2
        <4>4. Ai!Model(b) \in Ai!Makers /\ Ai!Model(b) # "fallback"
          BY <4>2, <4>3 DEF ModelsAssumption, Ai!Model, Ai!Attempts, Ai!Makers
        <4>5. PICK tokens \in {0, 1} : Ai!Built(b, Ai!Model(b), tokens)
          BY <3>1 DEF Ai!AnswerValid
        <4>6. QED
          BY <4>4, <4>5 DEF Ai!Built
      <3>2. CASE Ai!fallbackSpec(b)
        <4>0. 0 \in Nat
          OBVIOUS
        <4>1. "fallback" \in Ai!Makers
          BY DEF Ai!Makers
        <4>2. builds' = [builds EXCEPT ![b].progress = "preview", ![b].by = "fallback",
                                       ![b].tokens = 0, ![b].asked = 0]
          BY <3>2 DEF Ai!fallbackSpec, Ai!Built
        <4>3. QED
          BY <4>0, <4>1, <4>2
      <3>3. QED
        BY <1>5, <3>1, <3>2
    <2>2. x.status = "PROCESSING"
      BY <1>5 DEF Ai!AnswerValid, Ai!fallbackSpec, Ai!Asking, Ai!Reaches
    <2> DEFINE y == [x EXCEPT !.progress = "preview", !.by = by, !.tokens = tokens, !.asked = 0]
    <2>3. builds' = [builds EXCEPT ![b] = y]
      BY <1>1, <2>1 DEF Ai!Row
    <2>4. /\ y \in Ai!Row /\ y.tokens = tokens /\ y.by = by /\ y.template = x.template
          /\ y.status = x.status /\ y.progress = "preview"
      BY <1>1 DEF Ai!Row, Ai!Stages
    <2>5. Ai!Made(y)
      BY <1>1, <2>1, <2>2, <2>4 DEF Ai!Made
    <2> HIDE DEF y
    <2>6. QED
      BY <1>1, <2>2, <2>3, <2>4, <2>5, RowChanges DEF Ai!Ended
  <1>6. CASE Ai!Complete(b)
    <2> DEFINE stage == IF x.by = "fallback" THEN "done:starter" ELSE "done"
               y == [x EXCEPT !.status = "COMPLETED", !.template = TRUE, !.progress = stage]
    <2>1. x.status = "PROCESSING" /\ builds' = [builds EXCEPT ![b] = y]
      BY <1>1, <1>6 DEF Ai!Complete, Ai!Reaches, Ai!Row
    <2>2. stage \in {"done", "done:starter"}
      OBVIOUS
    <2> HIDE DEF stage
    <2>3. /\ y \in Ai!Row /\ y.tokens = x.tokens /\ y.by = x.by /\ y.status = "COMPLETED"
          /\ y.progress = stage
      BY <1>1, <2>2 DEF Ai!Row, Ai!Statuses, Ai!Stages
    <2>4. Ai!Made(y)
      BY <1>1, <2>2, <2>3 DEF Ai!Made, Ai!Ended
    <2> HIDE DEF y
    <2>5. QED
      BY <1>1, <2>1, <2>3, <2>4, RowChanges DEF Ai!Ended
  <1>7. CASE Ai!Fail(b)
    <2> DEFINE y == [x EXCEPT !.status = "FAILED", !.progress = "failed"]
    <2>1. builds' = [builds EXCEPT ![b] = y]
      BY <1>1, <1>7 DEF Ai!Fail, Ai!Row
    <2>2. /\ y \in Ai!Row /\ y.tokens = x.tokens /\ y.by = x.by /\ y.status = "FAILED"
          /\ y.progress = "failed"
      BY <1>1 DEF Ai!Row, Ai!Statuses, Ai!Stages
    <2>3. Ai!Made(y)
      BY <1>1, <2>2 DEF Ai!Made, Ai!Ended
    <2> HIDE DEF y
    <2>4. QED
      BY <1>1, <2>1, <2>2, <2>3, RowChanges DEF Ai!Ended
  <1>8. QED
    BY <1>3, <1>4, <1>5, <1>6, <1>7

\* A call that changes, or ends, while rows only grow.
LEMMA CallChanges ==
  ASSUME ModelsAssumption, Ai!AiInv, Grows,
         NEW c \in Requests, NEW q \in Ai!Call, aiCall' = [aiCall EXCEPT ![c] = q],
         q.for # "generate" /\ q.pc = "sent" => q.build # 0,
         q.for = "publish" => q.pc # "read" /\ q.seen = q.build,
         q.pc = "read" =>
             /\ q.build # 0
             /\ q.status \in Ai!Ended =>
                    builds'[q.build].status \in Ai!Ended /\ q.tokens = builds'[q.build].tokens,
         shownBuild' = shownBuild, due' \in Builds \cup {0}, strayed' = strayed, wrong' = FALSE
  PROVE  Ai!AiInv'
  <1>1. aiCall \in [Requests -> Ai!Call] /\ \A d \in Requests : Ai!Sound(aiCall[d])
    BY DEF Ai!AiInv
  <1>2. aiCall' \in [Requests -> Ai!Call] /\ aiCall'[c] = q
        /\ \A d \in Requests : d # c => aiCall'[d] = aiCall[d]
    BY <1>1
  <1>3. ASSUME NEW d \in Requests PROVE Ai!Sound(aiCall[d])'
    <2>1. CASE d = c
      BY <1>2, <2>1 DEF Ai!Sound, Ai!True
    <2>2. CASE d # c
      <3>1. aiCall'[d] = aiCall[d] /\ Ai!Sound(aiCall[d]) /\ aiCall[d].build \in Builds \cup {0}
        BY <1>1, <1>2, <2>2 DEF Ai!Call
      <3>2. QED
        BY <3>1 DEF Ai!Sound, Ai!True, Grows
    <2>3. QED
      BY <2>1, <2>2
  <1>4. Ai!True(shownBuild.build, shownBuild.status, shownBuild.tokens)'
    <2>1. shownBuild.build \in Builds \cup {0} /\ Ai!True(shownBuild.build, shownBuild.status, shownBuild.tokens)
      BY DEF Ai!AiInv, Ai!Sight
    <2>2. QED
      BY <2>1 DEF Ai!True, Grows
  <1>5. QED
    BY <1>2, <1>3, <1>4 DEF Ai!AiInv, Grows

\* The server goes on with a build while the page waits.
LEMMA ServerWorks ==
  ASSUME ModelsAssumption, Ai!AiInv, Grows, UNCHANGED <<shownBuild, due, aiCall, strayed, wrong>>
  PROVE  Ai!AiInv'
  <1>1. ASSUME NEW d \in Requests PROVE Ai!Sound(aiCall[d])'
    <2>1. Ai!Sound(aiCall[d]) /\ aiCall[d].build \in Builds \cup {0}
      BY DEF Ai!AiInv, Ai!Call
    <2>2. QED
      BY <2>1 DEF Ai!Sound, Ai!True, Grows
  <1>2. Ai!True(shownBuild.build, shownBuild.status, shownBuild.tokens)'
    <2>1. shownBuild.build \in Builds \cup {0} /\ Ai!True(shownBuild.build, shownBuild.status, shownBuild.tokens)
      BY DEF Ai!AiInv, Ai!Sight
    <2>2. QED
      BY <2>1 DEF Ai!True, Grows
  <1>3. QED
    BY <1>1, <1>2 DEF Ai!AiInv, Grows

\* Rows that do not change only grow.
LEMMA RowsStand ==
  ASSUME Ai!AiInv, builds' = builds
  PROVE  Grows
  BY DEF Grows, Ai!AiInv

\* A call of the page goes out.
LEMMA PageSends ==
  ASSUME ModelsAssumption, Ai!AiInv, NEW c \in Requests,
         NEW for \in {"status", "result", "generate", "refine", "publish"}, NEW b \in Builds \cup {0},
         Ai!Send(c, for, b), for # "generate" => b # 0,
         for = "publish" => Ai!Card /\ b = shownBuild.build, due' \in Builds \cup {0}
  PROVE  Ai!AiInv'
  <1> DEFINE seen0 == IF for # "publish" THEN 0 ELSE IF strayed THEN b ELSE shownBuild.template
             q == [Ai!NoCall EXCEPT !.pc = "sent", !.for = for, !.build = b, !.seen = seen0]
  <1>1. seen0 \in Builds \cup {0} /\ (for = "publish" => seen0 = b)
    BY DEF Ai!AiInv, Ai!Sight, Ai!Card
  <1>2. aiCall' = [aiCall EXCEPT ![c] = q]
        /\ UNCHANGED <<builds, shownBuild, strayed, wrong>>
    BY DEF Ai!Send
  <1> HIDE DEF seen0
  <1>3. q \in Ai!Call /\ q.pc = "sent" /\ q.for = for /\ q.build = b /\ q.seen = seen0
    BY <1>1, NoCallIs DEF Ai!Call
  <1> HIDE DEF q
  <1>4. Grows
    BY <1>2, RowsStand
  <1>5. wrong = FALSE
    BY DEF Ai!AiInv
  <1>6. QED
    BY <1>1, <1>2, <1>3, <1>4, <1>5, CallChanges

\* A call that ends without the page hearing of it.
LEMMA CallEnds ==
  ASSUME ModelsAssumption, Ai!AiInv, NEW c \in Requests, Ai!End(c), wrong' = FALSE,
         UNCHANGED <<builds, shownBuild, due, strayed>>
  PROVE  Ai!AiInv'
  <1>1. Grows /\ due \in Builds \cup {0}
    BY RowsStand DEF Ai!AiInv
  <1>2. QED
    BY <1>1, NoCallIs, CallChanges DEF Ai!End

\* The server answers about a build.
LEMMA ServerAnswers ==
  ASSUME ModelsAssumption, Ai!AiInv, Grows, NEW c \in Requests, NEW b \in Builds, Ai!Answer(c, b),
         aiCall[c].for # "publish", UNCHANGED <<shownBuild, due, strayed, wrong>>
  PROVE  Ai!AiInv'
  <1> DEFINE a == aiCall[c]
             r == builds'[b]
             q == [a EXCEPT !.pc = "read", !.build = b, !.status = r.status, !.progress = r.progress,
                            !.tokens = r.tokens]
  <1>1. a \in Ai!Call /\ aiCall \in [Requests -> Ai!Call] /\ wrong = FALSE /\ due \in Builds \cup {0}
    BY DEF Ai!AiInv
  <1>2. r \in Ai!Row /\ b # 0
    BY DEF Grows, ModelsAssumption
  <1>3. aiCall' = [aiCall EXCEPT ![c] = q]
    BY <1>1 DEF Ai!Answer, Ai!Call
  <1> HIDE DEF r
  <1>4. /\ q \in Ai!Call /\ q.pc = "read" /\ q.for = a.for /\ q.build = b
        /\ q.status = r.status /\ q.tokens = r.tokens
    BY <1>1, <1>2 DEF Ai!Call, Ai!Row
  <1> HIDE DEF q
  <1>5. q.status \in Ai!Ended => builds'[q.build].status \in Ai!Ended /\ q.tokens = builds'[q.build].tokens
    BY <1>4 DEF r
  <1>6. QED
    BY <1>1, <1>2, <1>3, <1>4, <1>5, CallChanges

LEMMA CreateWorks ==
  ASSUME ModelsAssumption, Ai!AiInv, NEW c \in Requests, Ai!create(c)
  PROVE  Ai!AiInv'
  <1>1. PICK b \in Builds :
           /\ builds[b] = Ai!NoRow
           /\ builds' = [builds EXCEPT ![b].status = "PENDING", ![b].progress = "queued"]
           /\ Ai!Answer(c, b)
    BY DEF Ai!create
  <1> DEFINE y == [Ai!NoRow EXCEPT !.status = "PENDING", !.progress = "queued"]
  <1>2. builds \in [Builds -> Ai!Row] /\ \A d \in Builds : Ai!Made(builds[d])
    BY DEF Ai!AiInv
  <1>3. builds' = [builds EXCEPT ![b] = y]
    BY <1>1, <1>2, NoRowIs DEF Ai!Row
  <1>4. /\ y \in Ai!Row /\ y.status = "PENDING" /\ y.progress = "queued" /\ y.tokens = 0
        /\ y.by = "none" /\ y.template = FALSE
    BY NoRowIs DEF Ai!Row, Ai!Statuses, Ai!Stages
  <1> HIDE DEF y
  <1>5. Ai!Made(y)
    BY <1>4 DEF Ai!Made
  <1>6. builds[b].status \notin Ai!Ended
    BY <1>1, NoRowIs DEF Ai!Ended
  <1>7. Grows
    BY <1>2, <1>3, <1>4, <1>5, <1>6, RowChanges
  <1>8. QED
    BY <1>1, <1>7, ServerAnswers DEF Ai!create

LEMMA GetWorks ==
  ASSUME ModelsAssumption, Ai!AiInv, NEW c \in Requests, Ai!getStatus(c) \/ Ai!getResult(c)
  PROVE  Ai!AiInv'
  <1>1. /\ aiCall[c].pc = "sent" /\ aiCall[c].for \in {"status", "result"} /\ builds' = builds
        /\ Ai!Answer(c, aiCall[c].build) /\ UNCHANGED <<shownBuild, due, strayed, wrong>>
    BY DEF Ai!getStatus, Ai!getResult, Ai!At
  <1>2. aiCall[c].build \in Builds
    BY <1>1 DEF Ai!AiInv, Ai!Sound, Ai!Call
  <1>3. QED
    BY <1>1, <1>2, RowsStand, ServerAnswers

LEMMA PublishWorks ==
  ASSUME ModelsAssumption, Ai!AiInv, NEW c \in Requests, Ai!publishGenerated(c)
  PROVE  Ai!AiInv'
  <1>1. aiCall[c].for = "publish" /\ Ai!Sound(aiCall[c]) /\ wrong = FALSE
    BY DEF Ai!AiInv, Ai!publishGenerated
  <1>2. wrong' = FALSE
    BY <1>1 DEF Ai!Sound, Ai!publishGenerated
  <1>3. QED
    BY <1>2, CallEnds DEF Ai!publishGenerated

\* The page shows what a call has brought.
LEMMA PageShows ==
  ASSUME ModelsAssumption, Ai!AiInv, NEW c \in Requests, NEW template \in Builds \cup {0},
         NEW stray \in BOOLEAN, aiCall[c].pc = "read", Ai!Show(c, template, stray),
         ~stray => template \in {0, aiCall[c].build}
  PROVE  Ai!AiInv'
  <1> DEFINE a == aiCall[c]
  <1>1. /\ a \in Ai!Call /\ aiCall \in [Requests -> Ai!Call] /\ Ai!Sound(a) /\ wrong = FALSE
        /\ due \in Builds \cup {0}
    BY DEF Ai!AiInv
  <1>2. a.build # 0 /\ Ai!True(a.build, a.status, a.tokens)
    BY <1>1 DEF Ai!Sound
  <1>3. /\ shownBuild' = [build |-> a.build, status |-> a.status, progress |-> a.progress,
                          tokens |-> a.tokens, template |-> template]
        /\ strayed' = stray /\ builds' = builds /\ wrong' = wrong /\ aiCall' = [aiCall EXCEPT ![c] = Ai!NoCall]
        /\ due' \in Builds \cup {0}
    BY <1>1 DEF Ai!Show, Ai!End, Ai!Call
  <1>4. shownBuild' \in Ai!Sight
    BY <1>1, <1>3 DEF Ai!Sight, Ai!Call
  <1>5. Ai!True(shownBuild.build, shownBuild.status, shownBuild.tokens)'
    BY <1>2, <1>3 DEF Ai!True
  <1>6. ASSUME NEW d \in Requests PROVE Ai!Sound(aiCall[d])' /\ aiCall'[d] \in Ai!Call
    <2>1. aiCall'[d] = aiCall[d] \/ aiCall'[d] = Ai!NoCall
      BY <1>1, <1>3
    <2>2. CASE aiCall'[d] = Ai!NoCall
      BY <2>2, NoCallIs DEF Ai!Sound
    <2>3. CASE aiCall'[d] = aiCall[d]
      BY <1>3, <2>3 DEF Ai!AiInv, Ai!Sound, Ai!True
    <2>4. QED
      BY <2>1, <2>2, <2>3
  <1>7. aiCall' \in [Requests -> Ai!Call]
    BY <1>1, <1>3, NoCallIs
  <1>8. strayed' \in BOOLEAN /\ (~strayed' => shownBuild'.template \in {0, shownBuild'.build})
    BY <1>3
  <1>9. builds' \in [Builds -> Ai!Row] /\ (\A b \in Builds : Ai!Made(builds[b]))'
    BY <1>3 DEF Ai!AiInv, Ai!Made
  <1>10. QED
    BY <1>1, <1>3, <1>4, <1>5, <1>6, <1>7, <1>8, <1>9 DEF Ai!AiInv

LEMMA ShowWorks ==
  ASSUME ModelsAssumption, Ai!AiInv, NEW c \in Requests,
         Ai!ShowStarted(c) \/ Ai!ShowStatus(c) \/ Ai!ShowResult(c)
  PROVE  Ai!AiInv'
  <1>1. /\ aiCall[c].build \in Builds \cup {0} /\ shownBuild.template \in Builds \cup {0}
        /\ strayed \in BOOLEAN
        /\ ~strayed => shownBuild.template \in {0, shownBuild.build}
    BY DEF Ai!AiInv, Ai!Call, Ai!Sight
  <1>2. CASE Ai!ShowStarted(c)
    BY <1>2, PageShows DEF Ai!ShowStarted, Ai!At
  <1>3. CASE Ai!ShowResult(c)
    BY <1>1, <1>3, PageShows DEF Ai!ShowResult, Ai!At
  <1>4. CASE Ai!ShowStatus(c)
    <2>1. Ai!Strays(c) \in BOOLEAN
      BY <1>1 DEF Ai!Strays
    <2>2. ~Ai!Strays(c) => shownBuild.template \in {0, aiCall[c].build}
      BY <1>1 DEF Ai!Strays
    <2>3. QED
      BY <1>1, <1>4, <2>1, <2>2, PageShows DEF Ai!ShowStatus, Ai!At
  <1>5. QED
    BY <1>2, <1>3, <1>4

LEMMA AskWorks ==
  ASSUME ModelsAssumption, Ai!AiInv, NEW c \in Requests,
         \/ Ai!startGenerate(c) \/ Ai!refine(c) \/ Ai!publish(c) \/ Ai!openHistory(c)
         \/ Ai!Poll(c) \/ Ai!AskResult(c)
  PROVE  Ai!AiInv'
  <1>1. /\ due \in Builds \cup {0} /\ shownBuild.build \in Builds \cup {0} /\ 0 \notin Builds
        /\ Ai!Card => shownBuild.build # 0
    BY DEF Ai!AiInv, Ai!Sight, Ai!Card, Ai!True, Ai!Ended, ModelsAssumption
  <1>2. CASE Ai!startGenerate(c)
    BY <1>1, <1>2, PageSends DEF Ai!startGenerate
  <1>3. CASE Ai!refine(c)
    BY <1>1, <1>3, PageSends DEF Ai!refine
  <1>4. CASE Ai!publish(c)
    BY <1>1, <1>4, PageSends DEF Ai!publish
  <1>5. CASE Ai!openHistory(c)
    <2>1. PICK b \in Builds : Ai!Send(c, "result", b) /\ due' = due
      BY <1>5 DEF Ai!openHistory
    <2>2. QED
      BY <1>1, <2>1, PageSends
  <1>6. CASE Ai!Poll(c)
    BY <1>1, <1>6, PageSends DEF Ai!Poll
  <1>7. CASE Ai!AskResult(c)
    BY <1>1, <1>7, PageSends DEF Ai!AskResult
  <1>8. QED
    BY <1>2, <1>3, <1>4, <1>5, <1>6, <1>7

LEMMA AiStarts ==
  ASSUME ModelsAssumption, Ai!Init
  PROVE  Ai!AiInv
  <1>1. builds \in [Builds -> Ai!Row] /\ \A b \in Builds : builds[b] = Ai!NoRow
    BY NoRowIs DEF Ai!Init
  <1>2. aiCall \in [Requests -> Ai!Call] /\ \A c \in Requests : aiCall[c] = Ai!NoCall
    BY NoCallIs DEF Ai!Init
  <1>3. \A b \in Builds : Ai!Made(builds[b])
    BY <1>1, NoRowIs DEF Ai!Made
  <1>4. \A c \in Requests : Ai!Sound(aiCall[c])
    BY <1>2, NoCallIs DEF Ai!Sound
  <1>5. shownBuild \in Ai!Sight /\ shownBuild.status = "none" /\ shownBuild.template = 0
    BY DEF Ai!Init, Ai!Sight, Ai!Statuses, Ai!Stages
  <1>6. Ai!True(shownBuild.build, shownBuild.status, shownBuild.tokens)
    BY <1>5 DEF Ai!True, Ai!Ended
  <1>7. strayed = FALSE /\ wrong = FALSE /\ due = 0
    BY DEF Ai!Init
  <1>8. QED
    BY <1>1, <1>2, <1>3, <1>4, <1>5, <1>6, <1>7 DEF Ai!AiInv

LEMMA AiSteps ==
  ASSUME ModelsAssumption, Ai!AiInv, [Ai!Next]_(Ai!aiVars)
  PROVE  Ai!AiInv'
  <1>1. CASE Ai!Next
    <2>1. ASSUME NEW b \in Builds,
                 \/ Ai!Begin(b) \/ Ai!AttemptFails(b) \/ Ai!AnswerInvalid(b) \/ Ai!AnswerValid(b)
                 \/ Ai!fallbackSpec(b) \/ Ai!Complete(b) \/ Ai!Fail(b)
          PROVE  Ai!AiInv'
      <3>1. UNCHANGED <<shownBuild, due, aiCall, strayed, wrong>>
        BY <2>1 DEF Ai!Begin, Ai!AttemptFails, Ai!AnswerInvalid, Ai!AnswerValid, Ai!fallbackSpec,
                    Ai!Complete, Ai!Fail, Ai!Built
      <3>2. QED
        BY <2>1, <3>1, ServerGrows, ServerWorks
    <2>2. ASSUME NEW c \in Requests,
                 \/ Ai!startGenerate(c) \/ Ai!refine(c) \/ Ai!publish(c) \/ Ai!openHistory(c)
                 \/ Ai!Poll(c) \/ Ai!AskResult(c)
          PROVE  Ai!AiInv'
      BY <2>2, AskWorks
    <2>3. ASSUME NEW c \in Requests, \/ Ai!create(c) \/ Ai!getStatus(c) \/ Ai!getResult(c)
                                     \/ Ai!publishGenerated(c)
          PROVE  Ai!AiInv'
      BY <2>3, CreateWorks, GetWorks, PublishWorks
    <2>4. ASSUME NEW c \in Requests, Ai!Lost(c)
          PROVE  Ai!AiInv'
      BY <2>4, CallEnds DEF Ai!Lost, Ai!AiInv
    <2>5. ASSUME NEW c \in Requests, Ai!ShowStarted(c) \/ Ai!ShowStatus(c) \/ Ai!ShowResult(c)
          PROVE  Ai!AiInv'
      BY <2>5, ShowWorks
    <2>6. QED
      BY <1>1, <2>1, <2>2, <2>3, <2>4, <2>5, Zenon DEF Ai!Next
  <1>2. CASE UNCHANGED Ai!aiVars
    <2>1. Grows /\ UNCHANGED <<shownBuild, due, aiCall, strayed, wrong>>
      BY <1>2, RowsStand DEF Ai!aiVars
    <2>2. QED
      BY <2>1, ServerWorks
  <1>3. QED
    BY <1>1, <1>2

\* The inductive invariant of the AI page.
THEOREM AiPageHolds == Ai!Spec => []Ai!AiInv
  <1>1. Ai!Init => Ai!AiInv
    BY ModelsAssumption, AiStarts
  <1>2. Ai!AiInv /\ [Ai!Next]_(Ai!aiVars) => Ai!AiInv'
    BY ModelsAssumption, AiSteps
  <1>3. QED
    BY <1>1, <1>2, PTL DEF Ai!Spec

\* For any number of builds and calls in flight, and any language models: the workbook on
\* the page, its maker and what is published are those of the build the page is about.
THEOREM PageIsAlwaysOfOneBuild == Ai!Spec => []PageIsOfOneBuild
  <1>1. Ai!AiInv => PageIsOfOneBuild
    <2> SUFFICES ASSUME Ai!AiInv PROVE Ai!PageIsOfOneBuild
      BY DEF PageIsOfOneBuild
    <2>1. ~wrong
      BY DEF Ai!AiInv
    <2>2. ASSUME ~strayed, Ai!Card
          PROVE  shownBuild.template = shownBuild.build /\ (Ai!IsStarter \/ builds[shownBuild.build].by # "fallback")
      <3> DEFINE b == shownBuild.build
      <3>1. shownBuild.template \in {0, b} /\ shownBuild.template # 0 /\ shownBuild.status = "COMPLETED"
        BY <2>2 DEF Ai!AiInv, Ai!Card
      <3>2. b \in Builds /\ shownBuild.tokens = builds[b].tokens
        BY <3>1 DEF Ai!AiInv, Ai!True, Ai!Ended, Ai!Sight
      <3>3. builds[b].by = "fallback" => builds[b].tokens = 0
        BY <3>2 DEF Ai!AiInv, Ai!Made
      <3>4. QED
        BY <3>1, <3>2, <3>3 DEF Ai!IsStarter
    <2>3. QED
      BY <2>1, <2>2 DEF Ai!PageIsOfOneBuild
  <1>2. QED
    BY <1>1, AiPageHolds, PTL

(***************************************************************************)
(* Paying in the browser                                                   *)
(***************************************************************************)

LEMMA NoAttemptIs ==
  Pay!Idle \in Pay!Attempt /\ Pay!Idle.pc = "idle" /\ Pay!Idle.key = NoKey /\ Pay!Idle.bill = 0
  BY DEF Pay!Idle, Pay!Attempt

LEMMA NoLoopIs ==
  /\ Pay!NoLoop \in Pay!Loop /\ Pay!NoLoop.pc = "none" /\ Pay!NoLoop.bill = 0
  /\ Pay!NoLoop.read = "none" /\ Pay!NoLoop.left = FALSE
  <1>1. 0 \in Nat /\ "none" \in {"none", "ask", "read", "wait"} /\ "none" \in Pay!Statuses \cup {"none"}
    OBVIOUS
  <1>b. FALSE \in BOOLEAN
    BY Zenon
  <1>2. Pay!NoLoop \in Pay!Loop
    BY <1>1, <1>b, Zenon DEF Pay!NoLoop, Pay!Loop
  <1>3. QED
    BY <1>2 DEF Pay!NoLoop

\* Whatever payment is looked at, it has a status.
LEMMA BillIs ==
  ASSUME bills \in Seq(Pay!Bill), NEW i \in DOMAIN bills
  PROVE  bills[i].status \in Pay!Statuses
  <1>1. bills[i] \in Pay!Bill
    OBVIOUS
  <1>2. QED
    BY <1>1 DEF Pay!Bill

\* Payments are created and settle; what has ended stays as it ended.
Settles ==
  /\ bills' \in Seq(Pay!Bill)
  /\ \A i \in DOMAIN bills :
        /\ i \in DOMAIN bills'
        /\ bills[i].status # "PENDING" => bills'[i].status = bills[i].status

LEMMA BillIsAdded ==
  ASSUME bills \in Seq(Pay!Bill), NEW r \in Pay!Bill, bills' = Append(bills, r)
  PROVE  Settles /\ Len(bills) + 1 \in DOMAIN bills'
  <1>1. bills' \in Seq(Pay!Bill) /\ Len(bills') = Len(bills) + 1
    OBVIOUS
  <1>2. \A i \in DOMAIN bills : i \in DOMAIN bills' /\ bills'[i] = bills[i]
    OBVIOUS
  <1>3. Len(bills) + 1 \in DOMAIN bills'
    BY <1>1
  <1>4. QED
    BY <1>1, <1>2, <1>3 DEF Settles

LEMMA BillSettles ==
  ASSUME bills \in Seq(Pay!Bill), NEW i \in DOMAIN bills, NEW s \in Pay!Statuses,
         bills' = [bills EXCEPT ![i].status = s],
         bills[i].status # "PENDING" => s = bills[i].status
  PROVE  Settles /\ bills'[i].status = s
  <1> DEFINE r == [bills[i] EXCEPT !.status = s]
  <1>1. bills[i] \in Pay!Bill
    OBVIOUS
  <1>2. r \in Pay!Bill /\ r.status = s /\ bills' = [bills EXCEPT ![i] = r]
    BY <1>1 DEF Pay!Bill
  <1> HIDE DEF r
  <1>3. bills' \in Seq(Pay!Bill) /\ DOMAIN bills' = DOMAIN bills
    BY <1>2
  <1>4. \A j \in DOMAIN bills : bills'[j] = IF j = i THEN r ELSE bills[j]
    BY <1>2
  <1>5. QED
    BY <1>2, <1>3, <1>4 DEF Settles

LEMMA BillsStand ==
  ASSUME bills \in Seq(Pay!Bill), bills' = bills
  PROVE  Settles
  BY DEF Settles

\* What a loop has read stays true of its payment.
LEMMA AskingHolds ==
  ASSUME Settles, NEW l \in Requests, Pay!Asks(loop[l]), loop' = loop
  PROVE  Pay!Asks(loop[l])'
  BY DEF Pay!Asks, Settles

\* Nothing the server or the checkout does disturbs the status page.
LEMMA PaymentsMove ==
  ASSUME Pay!PagesInv, Settles, attempt' \in Pay!Attempt,
         attempt'.pc \in {"charge", "go"} => attempt'.bill \in DOMAIN bills',
         UNCHANGED <<page, at, seen, error, loop, overtaken>>
  PROVE  Pay!PagesInv'
  <1>1. \A l \in Requests : Pay!Asks(loop[l])'
    BY AskingHolds DEF Pay!PagesInv
  <1>2. page = "status" => at \in DOMAIN bills /\ at \in DOMAIN bills'
    BY DEF Pay!PagesInv, Settles
  <1>3. page = "status" /\ Pay!Ended => Pay!Ended'
    BY <1>2 DEF Pay!Ended, Settles
  <1>4. (page = "status" /\ ~error /\ ~overtaken => Pay!Ended \/ \E l \in Requests : loop[l].bill = at)'
    BY <1>3 DEF Pay!PagesInv
  <1>5. QED
    BY <1>1, <1>2, <1>4 DEF Pay!PagesInv, Settles

\* A loop of the status page goes on, and shows what it has read.
LEMMA LoopMoves ==
  ASSUME Pay!PagesInv, NEW l \in Requests, NEW q \in Pay!Loop, Pay!Asks(q),
         loop' = [loop EXCEPT ![l] = q], UNCHANGED <<bills, page, at, attempt>>,
         seen' \in Pay!Sight, error' \in BOOLEAN, overtaken' \in BOOLEAN,
         page = "status" /\ ~error' /\ ~overtaken' =>
             \/ Pay!Ended'
             \/ \E k \in Requests : loop'[k].bill = at
  PROVE  Pay!PagesInv'
  <1>1. loop \in [Requests -> Pay!Loop] /\ \A k \in Requests : Pay!Asks(loop[k])
    BY DEF Pay!PagesInv
  <1>2. loop' \in [Requests -> Pay!Loop] /\ \A k \in Requests : loop'[k] = IF k = l THEN q ELSE loop[k]
    BY <1>1
  <1>3. ASSUME NEW k \in Requests PROVE Pay!Asks(loop[k])'
    BY <1>1, <1>2 DEF Pay!Asks
  <1>4. (page = "status" /\ ~error /\ ~overtaken => Pay!Ended \/ \E k \in Requests : loop[k].bill = at)'
    OBVIOUS
  <1>5. QED
    BY <1>2, <1>3, <1>4 DEF Pay!PagesInv

LEMMA TickWorks ==
  ASSUME Pay!PagesInv, NEW l \in Requests, Pay!Tick(l) \/ Pay!Timer(l)
  PROVE  Pay!PagesInv'
  <1> DEFINE x == loop[l]
  <1>1. /\ x \in Pay!Loop /\ Pay!Asks(x) /\ loop \in [Requests -> Pay!Loop] /\ bills \in Seq(Pay!Bill)
        /\ seen \in Pay!Sight /\ error \in BOOLEAN /\ overtaken \in BOOLEAN
    BY DEF Pay!PagesInv
  <1>2. PICK q \in Pay!Loop : loop' = [loop EXCEPT ![l] = q] /\ Pay!Asks(q) /\ q.bill = x.bill
    <2>1. CASE Pay!Tick(l)
      <3> DEFINE s == bills[x.bill].status
                 q == [x EXCEPT !.pc = "read", !.read = s]
      <3>1. x.bill \in DOMAIN bills /\ x.pc = "ask"
        BY <1>1, <2>1 DEF Pay!Tick, Pay!Asks
      <3>2. s \in Pay!Statuses
        BY <1>1, <3>1, BillIs
      <3>3. loop' = [loop EXCEPT ![l] = q]
        BY <1>1, <2>1 DEF Pay!Tick, Pay!Loop
      <3> HIDE DEF s
      <3>4. q \in Pay!Loop /\ q.pc = "read" /\ q.read = s /\ q.bill = x.bill
        BY <1>1, <3>2 DEF Pay!Loop
      <3> HIDE DEF q
      <3>5. Pay!Asks(q)
        BY <3>1, <3>4 DEF Pay!Asks, s
      <3>6. QED
        BY <3>3, <3>4, <3>5
    <2>2. CASE Pay!Timer(l)
      <3> DEFINE q == [x EXCEPT !.pc = "ask"]
      <3>1. x.bill \in DOMAIN bills /\ x.pc = "wait"
        BY <1>1, <2>2 DEF Pay!Timer, Pay!Asks
      <3>2. loop' = [loop EXCEPT ![l] = q]
        BY <1>1, <2>2 DEF Pay!Timer, Pay!Loop
      <3>3. q \in Pay!Loop /\ q.pc = "ask" /\ q.bill = x.bill
        BY <1>1 DEF Pay!Loop
      <3> HIDE DEF q
      <3>4. Pay!Asks(q)
        BY <3>1, <3>3 DEF Pay!Asks
      <3>5. QED
        BY <3>2, <3>3, <3>4
    <2>3. QED
      BY <2>1, <2>2
  <1>3. UNCHANGED <<bills, page, at, attempt, seen, error, overtaken>>
    BY DEF Pay!Tick, Pay!Timer
  <1>4. \A k \in Requests : loop'[k].bill = loop[k].bill
    BY <1>1, <1>2
  <1>5. page = "status" /\ ~error' /\ ~overtaken' => Pay!Ended' \/ \E k \in Requests : loop'[k].bill = at
    BY <1>3, <1>4 DEF Pay!PagesInv, Pay!Ended
  <1>6. QED
    BY <1>1, <1>2, <1>3, <1>5, LoopMoves

LEMMA TickedWorks ==
  ASSUME Pay!PagesInv, NEW l \in Requests, Pay!Ticked(l)
  PROVE  Pay!PagesInv'
  <1> DEFINE x == loop[l]
             w == [x EXCEPT !.pc = "wait", !.read = "none"]
             q == IF x.read = "PENDING" THEN w ELSE Pay!NoLoop
  <1>1. /\ x \in Pay!Loop /\ Pay!Asks(x) /\ loop \in [Requests -> Pay!Loop] /\ bills \in Seq(Pay!Bill)
        /\ seen \in Pay!Sight /\ error \in BOOLEAN /\ overtaken \in BOOLEAN
    BY DEF Pay!PagesInv
  <1>2. x.pc = "read" /\ x.bill \in DOMAIN bills /\ x.read \in {"PENDING", bills[x.bill].status}
    BY <1>1 DEF Pay!Ticked, Pay!Asks
  <1>3. loop' = [loop EXCEPT ![l] = q] /\ UNCHANGED <<bills, page, at, attempt, error>>
    BY DEF Pay!Ticked
  <1>4. w \in Pay!Loop /\ w.pc = "wait" /\ w.bill = x.bill
    BY <1>1 DEF Pay!Loop
  <1> HIDE DEF w
  <1>5. q \in Pay!Loop /\ Pay!Asks(q)
    BY <1>2, <1>4, NoLoopIs DEF Pay!Asks
  <1>6. loop'[l] = q
    BY <1>1, <1>3
  <1> HIDE DEF q
  <1>7. x.bill \in Nat /\ x.read \in Pay!Statuses \cup {"none"}
    BY <1>1 DEF Pay!Loop
  <1>8. seen' \in Pay!Sight
    BY <1>1, <1>7 DEF Pay!Ticked, Pay!Sight
  <1>9. overtaken' \in BOOLEAN
    BY <1>1 DEF Pay!Ticked
  <1>10. ASSUME page = "status", ~error', ~overtaken'
         PROVE  Pay!Ended' \/ \E k \in Requests : loop'[k].bill = at
    <2>1. x.bill = at /\ seen' = [bill |-> x.bill, status |-> x.read]
      BY <1>10 DEF Pay!Ticked
    <2>2. CASE x.read = "PENDING"
      BY <1>4, <1>6, <2>1, <2>2 DEF q
    <2>3. CASE x.read # "PENDING"
      BY <1>2, <1>3, <2>1, <2>3 DEF Pay!Ended
    <2>4. QED
      BY <2>2, <2>3
  <1>11. QED
    BY <1>1, <1>3, <1>5, <1>8, <1>9, <1>10, LoopMoves

LEMMA TickFailsWorks ==
  ASSUME Pay!PagesInv, NEW l \in Requests, Pay!TickFails(l)
  PROVE  Pay!PagesInv'
  <1>1. /\ seen \in Pay!Sight /\ error \in BOOLEAN /\ overtaken \in BOOLEAN
    BY DEF Pay!PagesInv
  <1>2. Pay!Asks(Pay!NoLoop)
    BY NoLoopIs DEF Pay!Asks
  <1>3. error' \in BOOLEAN /\ (page = "status" => error')
    BY <1>1 DEF Pay!TickFails
  <1>4. QED
    BY <1>1, <1>2, <1>3, NoLoopIs, LoopMoves DEF Pay!TickFails

\* The page's cleanup leaves every loop asking about a payment, or none.
LEMMA CleanupIs ==
  ASSUME Pay!PagesInv
  PROVE  /\ Pay!Cleanup(loop) \in [Requests -> Pay!Loop]
         /\ \A l \in Requests : Pay!Asks(Pay!Cleanup(loop)[l])
  <1> DEFINE y(l) == [loop[l] EXCEPT !.left = TRUE]
  <1>1. ASSUME NEW l \in Requests
        PROVE  y(l) \in Pay!Loop /\ y(l).pc = loop[l].pc /\ y(l).bill = loop[l].bill /\ y(l).read = loop[l].read
    <2>1. loop[l] \in Pay!Loop
      BY DEF Pay!PagesInv
    <2>2. QED
      BY <2>1 DEF Pay!Loop
  <1> HIDE DEF y
  <1>2. ASSUME NEW l \in Requests
        PROVE  /\ Pay!Cleanup(loop)[l] \in {y(l), loop[l], Pay!NoLoop}
               /\ Pay!Cleanup(loop)[l] = y(l) => loop[l].pc \in {"ask", "read"} \/ y(l) \in {loop[l], Pay!NoLoop}
    BY DEF Pay!Cleanup, y
  <1>3. ASSUME NEW l \in Requests
        PROVE  Pay!Cleanup(loop)[l] \in Pay!Loop /\ Pay!Asks(Pay!Cleanup(loop)[l])
    <2>1. loop[l] \in Pay!Loop /\ Pay!Asks(loop[l])
      BY DEF Pay!PagesInv
    <2>2. Pay!Asks(Pay!NoLoop)
      BY NoLoopIs DEF Pay!Asks
    <2>3. loop[l].pc \in {"ask", "read"} => Pay!Asks(y(l))
      BY <1>1, <2>1 DEF Pay!Asks
    <2>4. QED
      BY <1>1, <1>2, <2>1, <2>2, <2>3, NoLoopIs
  <1>4. DOMAIN Pay!Cleanup(loop) = Requests /\ Pay!Cleanup(loop) = [l \in Requests |-> Pay!Cleanup(loop)[l]]
    BY DEF Pay!Cleanup
  <1>5. QED
    BY <1>3, <1>4

\* The status page of a payment opens, whatever page was there.
LEMMA StatusOpens ==
  ASSUME Pay!PagesInv, NEW i \in DOMAIN bills, Pay!OpenStatus(i), attempt' \in Pay!Attempt,
         attempt'.pc = "idle", bills' = bills
  PROVE  Pay!PagesInv'
  <1>1. PICK l \in Requests :
           loop' = [Pay!Cleanup(loop) EXCEPT ![l] = [Pay!NoLoop EXCEPT !.pc = "ask", !.bill = i]]
    BY DEF Pay!OpenStatus
  <1> DEFINE q == [Pay!NoLoop EXCEPT !.pc = "ask", !.bill = i]
  <1>2. bills \in Seq(Pay!Bill) /\ i \in Nat
    BY DEF Pay!PagesInv
  <1>3. q \in Pay!Loop /\ q.pc = "ask" /\ q.bill = i
    BY <1>2, NoLoopIs DEF Pay!Loop
  <1>4. loop' = [Pay!Cleanup(loop) EXCEPT ![l] = q]
    BY <1>1
  <1> HIDE DEF q
  <1>5. /\ loop' \in [Requests -> Pay!Loop] /\ loop'[l] = q
        /\ \A k \in Requests : loop'[k] = IF k = l THEN q ELSE Pay!Cleanup(loop)[k]
    BY <1>3, <1>4, CleanupIs
  <1>6. ASSUME NEW k \in Requests PROVE Pay!Asks(loop[k])'
    <2>1. Pay!Asks(Pay!Cleanup(loop)[k]) /\ Pay!Asks(q)
      BY <1>3, CleanupIs DEF Pay!Asks
    <2>2. loop'[k] = q \/ loop'[k] = Pay!Cleanup(loop)[k]
      BY <1>5
    <2>3. QED
      BY <2>1, <2>2 DEF Pay!Asks
  <1>7. page' = "status" /\ at' = i /\ loop'[l].bill = i
    BY <1>3, <1>5 DEF Pay!OpenStatus
  <1>8. seen' \in Pay!Sight /\ error' \in BOOLEAN /\ overtaken' \in BOOLEAN
    <2>1. seen \in Pay!Sight /\ error \in BOOLEAN /\ overtaken \in BOOLEAN
      BY DEF Pay!PagesInv
    <2>2. Pay!NoSight \in Pay!Sight
      BY DEF Pay!NoSight, Pay!Sight
    <2>3. CASE page = "status"
      BY <2>1, <2>3 DEF Pay!OpenStatus
    <2>4. CASE page # "status"
      BY <2>2, <2>4 DEF Pay!OpenStatus
    <2>5. QED
      BY <2>3, <2>4
  <1>9. QED
    BY <1>2, <1>5, <1>6, <1>7, <1>8 DEF Pay!PagesInv

LEMMA VisitWorks ==
  ASSUME Pay!PagesInv, NEW i, Pay!Visit(i)
  PROVE  Pay!PagesInv'
  BY StatusOpens DEF Pay!Visit, Pay!PagesInv

LEMMA NavigateWorks ==
  ASSUME Pay!PagesInv, Pay!Navigate
  PROVE  Pay!PagesInv'
  <1>1. attempt.bill \in DOMAIN bills
    BY DEF Pay!Navigate, Pay!PagesInv
  <1>2. QED
    BY <1>1, StatusOpens, NoAttemptIs DEF Pay!Navigate

LEMMA OpenCheckoutWorks ==
  ASSUME Pay!PagesInv, Pay!OpenCheckout
  PROVE  Pay!PagesInv'
  <1>1. loop' = Pay!Cleanup(loop) /\ UNCHANGED <<bills, attempt, seen, error, overtaken>>
        /\ page' = "checkout"
    BY DEF Pay!OpenCheckout
  <1>2. ASSUME NEW k \in Requests PROVE Pay!Asks(loop[k])'
    <2>1. Pay!Asks(Pay!Cleanup(loop)[k])
      BY CleanupIs
    <2>2. QED
      BY <1>1, <2>1 DEF Pay!Asks
  <1>3. loop' \in [Requests -> Pay!Loop]
    BY <1>1, CleanupIs
  <1>4. QED
    BY <1>1, <1>2, <1>3 DEF Pay!PagesInv

LEMMA LeaveWorks ==
  ASSUME Pay!PagesInv, Pay!Leave
  PROVE  Pay!PagesInv'
  <1>1. loop' = [l \in Requests |-> Pay!NoLoop] /\ UNCHANGED <<bills, seen, error, overtaken>>
        /\ page' = "away" /\ attempt' = Pay!Idle
    BY DEF Pay!Leave
  <1>2. ASSUME NEW k \in Requests PROVE Pay!Asks(loop[k])'
    BY <1>1, NoLoopIs DEF Pay!Asks
  <1>3. loop' \in [Requests -> Pay!Loop]
    BY <1>1, NoLoopIs
  <1>4. QED
    BY <1>1, <1>2, <1>3, NoAttemptIs DEF Pay!PagesInv

LEMMA SimulateWorks ==
  ASSUME Pay!PagesInv, Pay!simulate
  PROVE  Pay!PagesInv'
  <1> DEFINE s == IF bills[at].status = "PENDING" THEN "COMPLETED" ELSE bills[at].status
  <1>1. /\ bills \in Seq(Pay!Bill) /\ page = "status" /\ at \in DOMAIN bills /\ seen \in Pay!Sight
        /\ seen.status = "PENDING"
    BY DEF Pay!PagesInv, Pay!simulate
  <1>2. bills[at].status \in Pay!Statuses
    BY <1>1, BillIs
  <1>3. s \in Pay!Statuses /\ (bills[at].status # "PENDING" => s = bills[at].status)
    BY <1>2 DEF Pay!Statuses
  <1>4. bills' = [bills EXCEPT ![at].status = s]
    BY <1>1 DEF Pay!simulate, Pay!Bill
  <1> HIDE DEF s
  <1>5. Settles /\ bills'[at].status = s
    BY <1>1, <1>3, <1>4, BillSettles
  <1>6. UNCHANGED <<page, at, attempt, error, loop, overtaken>> /\ seen' = [seen EXCEPT !.status = s]
    BY <1>5 DEF Pay!simulate
  <1>7. seen' \in Pay!Sight
    BY <1>1, <1>3, <1>6 DEF Pay!Sight
  <1>8. \A l \in Requests : Pay!Asks(loop[l])'
    BY <1>5, <1>6, AskingHolds DEF Pay!PagesInv
  <1>9. (page = "status" /\ ~error /\ ~overtaken => Pay!Ended \/ \E l \in Requests : loop[l].bill = at)'
    BY <1>1, <1>6 DEF Pay!PagesInv, Pay!Ended
  <1>10. at \in DOMAIN bills'
    BY <1>1, <1>5 DEF Settles
  <1>11. attempt \in Pay!Attempt /\ (attempt.pc \in {"charge", "go"} => attempt.bill \in DOMAIN bills')
    BY <1>5 DEF Pay!PagesInv, Settles
  <1>12. QED
    BY <1>5, <1>6, <1>7, <1>8, <1>9, <1>10, <1>11 DEF Pay!PagesInv, Settles

LEMMA SettleWorks ==
  ASSUME Pay!PagesInv, NEW i, Pay!Settle(i)
  PROVE  Pay!PagesInv'
  <1>1. PICK s \in {"COMPLETED", "FAILED"} : bills' = [bills EXCEPT ![i].status = s]
    BY DEF Pay!Settle
  <1>2. bills \in Seq(Pay!Bill) /\ i \in DOMAIN bills /\ bills[i].status = "PENDING"
    BY DEF Pay!PagesInv, Pay!Settle
  <1>3. s \in Pay!Statuses
    BY DEF Pay!Statuses
  <1>4. Settles
    BY <1>1, <1>2, <1>3, BillSettles
  <1>5. attempt \in Pay!Attempt /\ (attempt.pc \in {"charge", "go"} => attempt.bill \in DOMAIN bills')
    BY <1>4 DEF Pay!PagesInv, Settles
  <1>6. QED
    BY <1>4, <1>5, PaymentsMove DEF Pay!Settle, Pay!status

\* A checkout goes on without a change to the payments.
LEMMA AttemptMoves ==
  ASSUME Pay!PagesInv, attempt' \in Pay!Attempt,
         attempt'.pc \in {"charge", "go"} => attempt'.bill \in DOMAIN bills,
         UNCHANGED <<bills, page, at, seen, error, loop, overtaken>>
  PROVE  Pay!PagesInv'
  <1>1. Settles
    BY BillsStand DEF Pay!PagesInv
  <1>2. QED
    BY <1>1, PaymentsMove

LEMMA CheckoutWorks ==
  ASSUME Pay!PagesInv,
         \/ \E k \in Baskets \cup {NoKey} : Pay!pay(k)
         \/ Pay!Reuse \/ Pay!Conflict \/ Pay!Charged \/ Pay!AttemptLost
  PROVE  Pay!PagesInv'
  <1>1. attempt \in Pay!Attempt /\ (attempt.pc \in {"charge", "go"} => attempt.bill \in DOMAIN bills)
        /\ bills \in Seq(Pay!Bill)
    BY DEF Pay!PagesInv
  <1>2. UNCHANGED <<bills, page, at, seen, error, loop, overtaken>>
    BY DEF Pay!pay, Pay!Reuse, Pay!Conflict, Pay!Charged, Pay!AttemptLost, Pay!status
  <1>3. CASE \E k \in Baskets \cup {NoKey} : Pay!pay(k)
    <2>1. PICK k \in Baskets \cup {NoKey} : attempt' = [Pay!Idle EXCEPT !.pc = "find", !.key = k]
      BY <1>3 DEF Pay!pay
    <2>2. attempt' \in Pay!Attempt /\ attempt'.pc = "find"
      BY <2>1, NoAttemptIs DEF Pay!Attempt
    <2>3. QED
      BY <1>2, <2>2, AttemptMoves
  <1>4. CASE Pay!Reuse
    <2>1. PICK i \in Pay!WithKey(attempt.key) : attempt' = [attempt EXCEPT !.pc = "go", !.bill = i]
      BY <1>4 DEF Pay!Reuse
    <2>2. i \in DOMAIN bills /\ i \in Nat
      BY <1>1 DEF Pay!WithKey
    <2>3. attempt' \in Pay!Attempt /\ attempt'.bill = i
      BY <1>1, <2>1, <2>2 DEF Pay!Attempt
    <2>4. QED
      BY <1>2, <2>2, <2>3, AttemptMoves
  <1>5. CASE Pay!Charged
    <2>1. attempt' = [attempt EXCEPT !.pc = "go"] /\ attempt.pc = "charge"
      BY <1>5 DEF Pay!Charged
    <2>2. attempt' \in Pay!Attempt /\ attempt'.bill = attempt.bill
      BY <1>1, <2>1 DEF Pay!Attempt
    <2>3. QED
      BY <1>1, <1>2, <2>1, <2>2, AttemptMoves
  <1>6. CASE Pay!Conflict \/ Pay!AttemptLost
    <2>1. attempt' = Pay!Idle
      BY <1>6 DEF Pay!Conflict, Pay!AttemptLost
    <2>2. QED
      BY <1>2, <2>1, NoAttemptIs, AttemptMoves
  <1>7. QED
    BY <1>3, <1>4, <1>5, <1>6

LEMMA CreatePaymentWorks ==
  ASSUME Pay!PagesInv, Pay!Create
  PROVE  Pay!PagesInv'
  <1> DEFINE r == [key |-> attempt.key, mine |-> TRUE, status |-> "PENDING"]
             n == Len(bills) + 1
  <1>1. attempt \in Pay!Attempt /\ bills \in Seq(Pay!Bill)
    BY DEF Pay!PagesInv
  <1>2. r \in Pay!Bill /\ n \in Nat
    BY <1>1 DEF Pay!Attempt, Pay!Bill, Pay!Statuses
  <1>3. bills' = Append(bills, r) /\ attempt' = [attempt EXCEPT !.pc = "charge", !.bill = n]
    BY DEF Pay!Create
  <1> HIDE DEF r
  <1>4. Settles /\ n \in DOMAIN bills'
    BY <1>1, <1>2, <1>3, BillIsAdded
  <1> HIDE DEF n
  <1>5. attempt' \in Pay!Attempt /\ attempt'.bill = n
    BY <1>1, <1>2, <1>3 DEF Pay!Attempt
  <1>6. QED
    BY <1>4, <1>5, PaymentsMove DEF Pay!Create, Pay!status

LEMMA OtherPaysWorks ==
  ASSUME Pay!PagesInv, NEW k \in Baskets \cup {NoKey}, Pay!OtherPays(k)
  PROVE  Pay!PagesInv'
  <1> DEFINE r == [key |-> k, mine |-> FALSE, status |-> "PENDING"]
  <1>1. attempt \in Pay!Attempt /\ bills \in Seq(Pay!Bill)
        /\ (attempt.pc \in {"charge", "go"} => attempt.bill \in DOMAIN bills)
    BY DEF Pay!PagesInv
  <1>2. r \in Pay!Bill
    BY DEF Pay!Bill, Pay!Statuses
  <1>3. bills' = Append(bills, r)
    BY DEF Pay!OtherPays
  <1> HIDE DEF r
  <1>4. Settles
    BY <1>1, <1>2, <1>3, BillIsAdded
  <1>5. attempt.pc \in {"charge", "go"} => attempt.bill \in DOMAIN bills'
    BY <1>1, <1>4 DEF Settles
  <1>6. QED
    BY <1>1, <1>4, <1>5, PaymentsMove DEF Pay!OtherPays, Pay!status

LEMMA ChargeFailsWorks ==
  ASSUME Pay!PagesInv, Pay!ChargeFails
  PROVE  Pay!PagesInv'
  <1> DEFINE i == attempt.bill
             s == IF bills[i].status = "PENDING" THEN "FAILED" ELSE bills[i].status
  <1>1. bills \in Seq(Pay!Bill) /\ i \in DOMAIN bills
    BY DEF Pay!PagesInv, Pay!ChargeFails
  <1>2. bills[i].status \in Pay!Statuses
    BY <1>1, BillIs
  <1>3. s \in Pay!Statuses /\ (bills[i].status # "PENDING" => s = bills[i].status)
    BY <1>2 DEF Pay!Statuses
  <1>4. bills' = [bills EXCEPT ![i].status = s]
    BY <1>1 DEF Pay!ChargeFails, Pay!Bill
  <1> HIDE DEF s
  <1>5. Settles
    BY <1>1, <1>3, <1>4, BillSettles
  <1>6. QED
    BY <1>5, NoAttemptIs, PaymentsMove DEF Pay!ChargeFails, Pay!status

LEMMA PagesStart ==
  ASSUME Pay!Init
  PROVE  Pay!PagesInv
  <1>1. loop \in [Requests -> Pay!Loop] /\ \A l \in Requests : loop[l] = Pay!NoLoop
    BY NoLoopIs DEF Pay!Init
  <1>2. \A l \in Requests : Pay!Asks(loop[l])
    BY <1>1, NoLoopIs DEF Pay!Asks
  <1>3. bills = <<>> /\ page = "checkout" /\ seen = Pay!NoSight /\ error = FALSE /\ overtaken = FALSE
        /\ attempt = Pay!Idle
    BY DEF Pay!Init
  <1>4. seen \in Pay!Sight /\ bills \in Seq(Pay!Bill)
    BY <1>3 DEF Pay!NoSight, Pay!Sight
  <1>5. QED
    BY <1>1, <1>2, <1>3, <1>4, NoAttemptIs DEF Pay!PagesInv

LEMMA PagesStep ==
  ASSUME Pay!PagesInv, [Pay!Next]_(Pay!payVars)
  PROVE  Pay!PagesInv'
  <1>1. CASE Pay!Next
    <2>1. ASSUME NEW l \in Requests, Pay!Tick(l) \/ Pay!Ticked(l) \/ Pay!Timer(l) \/ Pay!TickFails(l)
          PROVE  Pay!PagesInv'
      BY <2>1, TickWorks, TickedWorks, TickFailsWorks
    <2>2. ASSUME NEW i \in 1..MaxBills, Pay!Visit(i) \/ Pay!Settle(i)
          PROVE  Pay!PagesInv'
      BY <2>2, VisitWorks, SettleWorks
    <2>3. ASSUME NEW k \in Baskets \cup {NoKey}, Pay!pay(k) \/ Pay!OtherPays(k)
          PROVE  Pay!PagesInv'
      BY <2>3, CheckoutWorks, OtherPaysWorks
    <2>4. ASSUME Pay!OpenCheckout \/ Pay!simulate \/ Pay!Leave \/ Pay!Navigate
          PROVE  Pay!PagesInv'
      BY <2>4, OpenCheckoutWorks, SimulateWorks, LeaveWorks, NavigateWorks
    <2>5. ASSUME Pay!Reuse \/ Pay!Create \/ Pay!Conflict \/ Pay!Charged \/ Pay!ChargeFails \/ Pay!AttemptLost
          PROVE  Pay!PagesInv'
      BY <2>5, CheckoutWorks, CreatePaymentWorks, ChargeFailsWorks
    <2>6. QED
      BY <1>1, <2>1, <2>2, <2>3, <2>4, <2>5, Zenon DEF Pay!Next
  <1>2. CASE UNCHANGED Pay!payVars
    <2>1. UNCHANGED <<bills, page, at, attempt, seen, error, loop, overtaken>>
      BY <1>2 DEF Pay!payVars
    <2>2. QED
      BY <2>1, AttemptMoves DEF Pay!PagesInv
  <1>3. QED
    BY <1>1, <1>2

\* The inductive invariant of the payment pages.
THEOREM PaymentPagesHold == Pay!Spec => []Pay!PagesInv
  <1>1. Pay!Init => Pay!PagesInv
    BY PagesStart
  <1>2. Pay!PagesInv /\ [Pay!Next]_(Pay!payVars) => Pay!PagesInv'
    BY PagesStep
  <1>3. QED
    BY <1>1, <1>2, PTL DEF Pay!Spec

\* For any number of payments and of loops running at once: the status page goes on
\* asking until it shows how its payment ended.
THEOREM StatusPageAlwaysSettles == Pay!Spec => []StatusPageSettles
  <1>1. Pay!PagesInv => StatusPageSettles
    <2> SUFFICES ASSUME Pay!PagesInv, page = "status", ~error, ~overtaken
                 PROVE  /\ seen.bill \in {0, at} \/ \E l \in Requests : loop[l].bill = at
                        /\ (\A l \in Requests : loop[l] = Pay!NoLoop) =>
                              seen.bill = at /\ seen.status = bills[at].status /\ seen.status # "PENDING"
      BY DEF StatusPageSettles, Pay!StatusPageSettles
    <2>1. Pay!Ended \/ \E l \in Requests : loop[l].bill = at
      BY DEF Pay!PagesInv
    <2>2. at # 0
      BY DEF Pay!PagesInv
    <2>3. QED
      BY <2>1, <2>2, NoLoopIs DEF Pay!Ended
  <1>2. QED
    BY <1>1, PaymentPagesHold, PTL

(***************************************************************************)
(* The files, preview and demo of a template                               *)
(***************************************************************************)

\* The numbers of uploads, and what is empty.
LEMMA EmptyIs ==
  /\ 0 \in Pub!Links
  /\ Pub!Nothing \in [Pub!Fields -> Pub!Links] /\ (\A f \in Pub!Fields : Pub!Nothing[f] = 0)
  /\ Pub!NoRow \in Pub!Rows /\ Pub!NoRow.file = 0 /\ Pub!NoRow.preview = 0 /\ Pub!NoRow.demo = 0
  <1>1. 0 \in Pub!Links
    BY UploadsAssumption DEF Pub!Links
  <1>2. QED
    BY <1>1 DEF Pub!Nothing, Pub!NoRow, Pub!Rows

LEMMA QuietIs ==
  /\ Pub!Quiet \in Pub!Request
  /\ Pub!Quiet.pc = "idle" /\ Pub!Quiet.old = Pub!NoRow /\ Pub!Quiet.link = 0
  /\ Pub!Quiet.brings = Pub!Nothing
  <1>1. FALSE \in BOOLEAN
    BY Zenon
  <1>2. "idle" \in Pub!Steps \cup {"idle", "read", "answer", "version"}
    OBVIOUS
  <1>3. Pub!Quiet \in Pub!Request
    BY <1>1, <1>2, EmptyIs, Zenon DEF Pub!Quiet, Pub!Request
  <1>4. QED
    BY <1>3 DEF Pub!Quiet

LEMMA NoFormIs == Pub!NoForm \in Pub!Form /\ Pub!NoForm.mode = "new" /\ Pub!NoForm.demo = 0
  BY EmptyIs DEF Pub!NoForm, Pub!Form

\* Files and sheets are only added.
Adds ==
  /\ uploads' \in Pub!Links
  /\ stored' \in SUBSET Pub!Links /\ versions' \in SUBSET Pub!Links
  /\ sheets' \in [filled : SUBSET Pub!Links, open : SUBSET Pub!Links]
  /\ stored \subseteq stored' /\ versions \subseteq versions'
  /\ sheets.filled \subseteq sheets'.filled /\ sheets.open \subseteq sheets'.open

LEMMA StaysThere ==
  ASSUME Adds
  PROVE  /\ \A n : Pub!There(n) => Pub!There(n)'
         /\ \A n : Pub!Ready(n) => Pub!Ready(n)'
         /\ \A r : Pub!Held(r) => Pub!Held(r)'
  BY DEF Adds, Pub!There, Pub!Ready, Pub!Held

\* The step of one request that leaves the row and the forms alone.
LEMMA AskMoves ==
  ASSUME Pub!PubInv, NEW t \in Requests, NEW q \in Pub!Request,
         ask' = [ask EXCEPT ![t] = q],
         Adds, UNCHANGED <<listing, newest, astray>>,
         form' \in [Requests -> Pub!Form], \A u \in Requests : Pub!FormInv(form'[u]),
         Pub!AskInv(q)',
         listing = Pub!NoRow => q.link = 0 /\ (q.pc = "idle" \/ \A u \in Requests \ {t} : ask[u].pc = "idle")
  PROVE  Pub!PubInv'
  <1>1. ask' \in [Requests -> Pub!Request]
    BY DEF Pub!PubInv, Pub!TypeOK
  <1>2. Pub!TypeOK'
    BY <1>1 DEF Pub!PubInv, Pub!TypeOK, Adds
  <1>3. Pub!Held(listing)' /\ Pub!Ready(listing.demo)'
    BY StaysThere DEF Pub!PubInv, Pub!Held, Pub!Ready, Pub!There, Adds
  <1>4. \A u \in Requests : Pub!FormInv(form[u])'
    BY StaysThere DEF Pub!FormInv, Pub!Ready, Adds
  <1>5. ASSUME NEW u \in Requests PROVE Pub!AskInv(ask[u])'
    <2>1. CASE u = t
      BY <2>1 DEF Pub!PubInv, Pub!TypeOK
    <2>2. CASE u # t
      <3>1. ask'[u] = ask[u] /\ Pub!AskInv(ask[u])
        BY <2>2 DEF Pub!PubInv, Pub!TypeOK
      <3>2. QED
        BY <3>1, StaysThere DEF Pub!AskInv, Pub!Held, Pub!Ready, Pub!There, Adds
    <2>3. QED
      BY <2>1, <2>2
  <1>6. Pub!Creation'
    <2>1. ask'[t] = q /\ \A u \in Requests \ {t} : ask'[u] = ask[u]
      BY DEF Pub!PubInv, Pub!TypeOK
    <2>2. QED
      BY <2>1 DEF Pub!PubInv, Pub!Creation, Pub!At
  <1>7. Pub!LatestStands'
    BY DEF Pub!PubInv, Pub!LatestStands, Pub!Shown, Pub!Served
  <1>8. QED
    BY <1>2, <1>3, <1>4, <1>5, <1>6, <1>7 DEF Pub!PubInv

\* What the actions of one request do to it.
LEMMA PubHas ==
  ASSUME Pub!PubInv, NEW t \in Requests
  PROVE  /\ ask[t] \in Pub!Request /\ Pub!AskInv(ask[t])
         /\ form[t] \in Pub!Form /\ Pub!FormInv(form[t])
         /\ listing \in Pub!Rows
         /\ listing = Pub!NoRow => ask[t].link = 0
         /\ listing = Pub!NoRow /\ ask[t].pc # "idle" => \A u \in Requests \ {t} : ask[u].pc = "idle"
  BY DEF Pub!PubInv, Pub!TypeOK, Pub!Creation, Pub!At

\* A request goes on with what it has.
LEMMA Advances ==
  ASSUME Pub!PubInv, NEW t \in Requests, NEW q \in Pub!Request, ask' = [ask EXCEPT ![t] = q],
         Adds, UNCHANGED <<listing, newest, astray, form>>,
         q.old = ask[t].old \/ q.old = listing, q.late = ask[t].late, q.link = ask[t].link, q.linkLate = ask[t].linkLate,
         q.brings["demo"] # 0 => q.brings["demo"] \in sheets'.filled /\ q.brings["demo"] \in sheets'.open,
         q.brings["file"] # 0 /\ Storage # "s3" => q.brings["file"] \in stored' \cup versions',
         ask[t].pc # "idle", q.pc \in Pub!Steps,
         q.old = Pub!NoRow <=> listing = Pub!NoRow,
         q.pc = "upload" \/ (q.pc = "write" /\ q.old # Pub!NoRow) \/ q.brings["file"] # 0,
         q.pc = "open" => q.brings["file"] \in sheets'.filled
  PROVE  Pub!PubInv'
  <1>1. form' \in [Requests -> Pub!Form] /\ (\A u \in Requests : Pub!FormInv(form'[u]))
    BY DEF Pub!PubInv, Pub!TypeOK
  <1>2. Pub!AskInv(ask[t]) /\ Pub!Held(listing) /\ Pub!Ready(listing.demo)
    BY DEF Pub!PubInv
  <1>3. Pub!Held(q.old) /\ Pub!Ready(q.old.demo) /\ Pub!Ready(q.link)
    BY <1>2 DEF Pub!AskInv
  <1>4. (Pub!Held(q.old) /\ Pub!Ready(q.old.demo) /\ Pub!Ready(q.link))'
    BY <1>3, StaysThere DEF Pub!Held, Pub!Ready, Pub!There, Adds
  <1>5. Pub!AskInv(q)'
    BY <1>2, <1>4 DEF Pub!AskInv, Pub!Steps, Pub!Ready, Pub!There
  <1>6. listing = Pub!NoRow => q.link = 0 /\ \A u \in Requests \ {t} : ask[u].pc = "idle"
    BY PubHas
  <1>7. QED
    BY <1>1, <1>5, <1>6, AskMoves

LEMMA NoneAdded ==
  ASSUME Pub!PubInv, UNCHANGED <<uploads, stored, versions, sheets>>
  PROVE  Adds
  BY DEF Adds, Pub!PubInv, Pub!TypeOK

LEMMA ReadWorks ==
  ASSUME Pub!PubInv, NEW t \in Requests, Pub!Read(t)
  PROVE  Pub!PubInv'
  <1> DEFINE q == [ask[t] EXCEPT !.pc = IF ask[t].chosen THEN "upload" ELSE "write", !.old = listing]
  <1>1. ask[t].pc = "read" /\ UNCHANGED <<listing, newest, astray, uploads, stored, versions, sheets, form>>
    BY DEF Pub!Read, Pub!At, Pub!rowVars, Pub!fileVars
  <1>2. q \in Pub!Request
    BY PubHas DEF Pub!Request, Pub!Steps
  <1>3. ask' = [ask EXCEPT ![t] = q]
    BY DEF Pub!Read, Pub!PubInv, Pub!TypeOK
  <1>4. /\ q.old = listing /\ q.late = ask[t].late /\ q.link = ask[t].link /\ q.linkLate = ask[t].linkLate
        /\ q.brings = ask[t].brings /\ q.pc \in {"upload", "write"}
    BY PubHas DEF Pub!Request
  <1>5. Adds
    BY <1>1, NoneAdded
  <1>6. Pub!AskInv(ask[t]) /\ listing # Pub!NoRow
    BY <1>1, PubHas DEF Pub!AskInv
  <1> HIDE DEF q
  <1>7. /\ q.brings["demo"] # 0 => q.brings["demo"] \in sheets'.filled /\ q.brings["demo"] \in sheets'.open
        /\ q.brings["file"] # 0 /\ Storage # "s3" => q.brings["file"] \in stored' \cup versions'
    BY <1>1, <1>4, <1>6 DEF Pub!AskInv, Pub!Ready, Pub!There
  <1>8. QED
    BY <1>1, <1>2, <1>3, <1>4, <1>5, <1>6, <1>7, Advances DEF Pub!Steps

LEMMA StoreFileWorks ==
  ASSUME Pub!PubInv, NEW t \in Requests, Pub!StoreFile(t)
  PROVE  Pub!PubInv'
  <1> DEFINE n == uploads'
             q == [ask[t] EXCEPT !.pc = "preview", !.brings = [ask[t].brings EXCEPT !["file"] = n]]
  <1>1. /\ ask[t].pc = "upload" /\ UNCHANGED <<listing, newest, astray, versions, sheets, form>>
        /\ uploads < MaxUploads /\ n = uploads + 1
        /\ stored' = IF Storage = "s3" THEN stored ELSE stored \cup {n}
    BY DEF Pub!StoreFile, Pub!At, Pub!rowVars
  <1>2. n \in Pub!Links /\ n # 0
    BY <1>1, UploadsAssumption DEF Pub!PubInv, Pub!TypeOK, Pub!Links
  <1>3. ask[t] \in Pub!Request
    BY PubHas
  <1>4. ask' = [ask EXCEPT ![t] = q]
    BY <1>3 DEF Pub!StoreFile, Pub!PubInv, Pub!TypeOK, Pub!Request
  <1> HIDE DEF n
  <1>5. ask[t].brings \in [Pub!Fields -> Pub!Links]
    BY <1>3 DEF Pub!Request
  <1>6. [ask[t].brings EXCEPT !["file"] = n] \in [Pub!Fields -> Pub!Links]
    BY <1>2, <1>5
  <1>7. q \in Pub!Request
    BY <1>3, <1>6 DEF Pub!Request, Pub!Steps
  <1>8. /\ q.old = ask[t].old /\ q.late = ask[t].late /\ q.link = ask[t].link /\ q.linkLate = ask[t].linkLate
        /\ q.brings["file"] = n /\ q.brings["demo"] = ask[t].brings["demo"] /\ q.pc = "preview"
    BY <1>3, <1>5 DEF Pub!Request, Pub!Fields
  <1>9. Adds
    BY <1>1, <1>2 DEF Adds, Pub!PubInv, Pub!TypeOK, n
  <1>10. Pub!AskInv(ask[t])
    BY PubHas
  <1> HIDE DEF q
  <1>11. /\ q.brings["demo"] # 0 => q.brings["demo"] \in sheets'.filled /\ q.brings["demo"] \in sheets'.open
         /\ Storage # "s3" => n \in stored' \cup versions'
    BY <1>1, <1>8, <1>10 DEF Pub!AskInv, Pub!Ready, Pub!There
  <1>12. q.old = Pub!NoRow <=> listing = Pub!NoRow
    BY <1>1, <1>8, <1>10 DEF Pub!AskInv, Pub!Steps
  <1>13. QED
    BY <1>1, <1>2, <1>4, <1>7, <1>8, <1>9, <1>11, <1>12, Advances DEF Pub!Steps

LEMMA DrawPreviewWorks ==
  ASSUME Pub!PubInv, NEW t \in Requests, Pub!DrawPreview(t)
  PROVE  Pub!PubInv'
  <1> DEFINE n == IF ask[t].brings["file"] \in Workbooks THEN ask[t].brings["file"] ELSE 0
             q == [ask[t] EXCEPT !.pc = IF ask[t].sheet THEN "sheet" ELSE "write",
                                 !.brings = [ask[t].brings EXCEPT !["preview"] = n]]
  <1>1. ask[t].pc = "preview" /\ UNCHANGED <<listing, newest, astray, uploads, stored, versions, sheets, form>>
    BY DEF Pub!DrawPreview, Pub!At, Pub!rowVars, Pub!fileVars
  <1>2. ask[t] \in Pub!Request /\ ask[t].brings \in [Pub!Fields -> Pub!Links]
    BY PubHas DEF Pub!Request
  <1>3. n \in Pub!Links
    BY <1>2, EmptyIs DEF Pub!Fields
  <1>4. ask' = [ask EXCEPT ![t] = q]
    BY <1>2 DEF Pub!DrawPreview, Pub!File, Pub!PubInv, Pub!TypeOK, Pub!Request
  <1> HIDE DEF n
  <1>5. [ask[t].brings EXCEPT !["preview"] = n] \in [Pub!Fields -> Pub!Links]
    BY <1>2, <1>3
  <1>6. q \in Pub!Request
    BY <1>2, <1>5 DEF Pub!Request, Pub!Steps
  <1>7. /\ q.old = ask[t].old /\ q.late = ask[t].late /\ q.link = ask[t].link /\ q.linkLate = ask[t].linkLate
        /\ q.brings["file"] = ask[t].brings["file"] /\ q.brings["demo"] = ask[t].brings["demo"]
        /\ q.pc \in {"sheet", "write"}
    BY <1>2 DEF Pub!Request, Pub!Fields
  <1>8. Adds
    BY <1>1, NoneAdded
  <1>9. Pub!AskInv(ask[t])
    BY PubHas
  <1> HIDE DEF q
  <1>10. /\ q.brings["demo"] # 0 => q.brings["demo"] \in sheets'.filled /\ q.brings["demo"] \in sheets'.open
         /\ Storage # "s3" => q.brings["file"] \in stored' \cup versions'
         /\ q.brings["file"] # 0 /\ (q.old = Pub!NoRow <=> listing = Pub!NoRow)
    BY <1>1, <1>7, <1>9 DEF Pub!AskInv, Pub!Ready, Pub!There, Pub!Steps
  <1>11. QED
    BY <1>1, <1>4, <1>6, <1>7, <1>8, <1>10, Advances DEF Pub!Steps

LEMMA TokenWorks ==
  ASSUME Pub!PubInv, NEW t \in Requests, Pub!Authorize(t) \/ Pub!MakeSheet(t)
  PROVE  Pub!PubInv'
  <1>1. PICK step \in {"make", "fill"} :
           /\ ask[t].pc \in {"sheet", "make"} /\ ask' = [ask EXCEPT ![t].pc = step]
           /\ UNCHANGED <<listing, newest, astray, uploads, stored, versions, sheets, form>>
    BY DEF Pub!Authorize, Pub!MakeSheet, Pub!At, Pub!To, Pub!rowVars, Pub!fileVars
  <1> DEFINE q == [ask[t] EXCEPT !.pc = step]
  <1>2. ask[t] \in Pub!Request
    BY PubHas
  <1>3. ask' = [ask EXCEPT ![t] = q]
    BY <1>1, <1>2 DEF Pub!PubInv, Pub!TypeOK, Pub!Request
  <1>4. q \in Pub!Request
    BY <1>1, <1>2 DEF Pub!Request, Pub!Steps
  <1>5. /\ q.old = ask[t].old /\ q.late = ask[t].late /\ q.link = ask[t].link /\ q.linkLate = ask[t].linkLate
        /\ q.brings = ask[t].brings /\ q.pc \in {"make", "fill"}
    BY <1>1, <1>2 DEF Pub!Request
  <1>6. Adds
    BY <1>1, NoneAdded
  <1>7. Pub!AskInv(ask[t])
    BY PubHas
  <1> HIDE DEF q
  <1>8. /\ q.brings["demo"] # 0 => q.brings["demo"] \in sheets'.filled /\ q.brings["demo"] \in sheets'.open
        /\ Storage # "s3" => q.brings["file"] \in stored' \cup versions'
        /\ q.brings["file"] # 0 /\ (q.old = Pub!NoRow <=> listing = Pub!NoRow)
    BY <1>1, <1>5, <1>7 DEF Pub!AskInv, Pub!Ready, Pub!There, Pub!Steps
  <1>9. QED
    BY <1>1, <1>3, <1>4, <1>5, <1>6, <1>8, Advances DEF Pub!Steps

LEMMA FillSheetWorks ==
  ASSUME Pub!PubInv, NEW t \in Requests, Pub!FillSheet(t)
  PROVE  Pub!PubInv'
  <1> DEFINE q == [ask[t] EXCEPT !.pc = "open"]
             n == ask[t].brings["file"]
  <1>1. /\ ask[t].pc = "fill" /\ ask' = [ask EXCEPT ![t].pc = "open"]
        /\ sheets' = [sheets EXCEPT !.filled = sheets.filled \cup {n}]
        /\ UNCHANGED <<listing, newest, astray, uploads, stored, versions, form>>
    BY DEF Pub!FillSheet, Pub!At, Pub!To, Pub!rowVars, Pub!File
  <1>2. ask[t] \in Pub!Request /\ n \in Pub!Links
    BY PubHas DEF Pub!Request, Pub!Fields
  <1>3. ask' = [ask EXCEPT ![t] = q]
    BY <1>1, <1>2 DEF Pub!PubInv, Pub!TypeOK, Pub!Request
  <1>4. q \in Pub!Request
    BY <1>1, <1>2 DEF Pub!Request, Pub!Steps
  <1>5. /\ q.old = ask[t].old /\ q.late = ask[t].late /\ q.link = ask[t].link /\ q.linkLate = ask[t].linkLate
        /\ q.brings = ask[t].brings /\ q.pc = "open"
    BY <1>1, <1>2 DEF Pub!Request
  <1>6. Adds /\ n \in sheets'.filled
    BY <1>1, <1>2 DEF Adds, Pub!PubInv, Pub!TypeOK
  <1>7. Pub!AskInv(ask[t])
    BY PubHas
  <1> HIDE DEF q
  <1>8. /\ q.brings["demo"] # 0 => q.brings["demo"] \in sheets'.filled /\ q.brings["demo"] \in sheets'.open
        /\ Storage # "s3" => q.brings["file"] \in stored' \cup versions'
        /\ q.brings["file"] # 0 /\ (q.old = Pub!NoRow <=> listing = Pub!NoRow)
        /\ q.brings["file"] \in sheets'.filled
    BY <1>1, <1>5, <1>6, <1>7 DEF Pub!AskInv, Pub!Ready, Pub!There, Pub!Steps, Adds
  <1>9. QED
    BY <1>1, <1>3, <1>4, <1>5, <1>6, <1>8, Advances DEF Pub!Steps

LEMMA OpenSheetWorks ==
  ASSUME Pub!PubInv, NEW t \in Requests, Pub!OpenSheet(t)
  PROVE  Pub!PubInv'
  <1> DEFINE n == ask[t].brings["file"]
             q == [ask[t] EXCEPT !.pc = "write", !.brings = [ask[t].brings EXCEPT !["demo"] = n]]
  <1>1. /\ ask[t].pc = "open"
        /\ sheets' = [sheets EXCEPT !.open = sheets.open \cup {n}]
        /\ UNCHANGED <<listing, newest, astray, uploads, stored, versions, form>>
    BY DEF Pub!OpenSheet, Pub!At, Pub!rowVars, Pub!File
  <1>2. ask[t] \in Pub!Request /\ ask[t].brings \in [Pub!Fields -> Pub!Links] /\ n \in Pub!Links
    BY PubHas DEF Pub!Request, Pub!Fields
  <1>3. ask' = [ask EXCEPT ![t] = q]
    BY <1>2 DEF Pub!OpenSheet, Pub!File, Pub!PubInv, Pub!TypeOK, Pub!Request
  <1>4. [ask[t].brings EXCEPT !["demo"] = n] \in [Pub!Fields -> Pub!Links]
    BY <1>2
  <1>5. q \in Pub!Request
    BY <1>2, <1>4 DEF Pub!Request, Pub!Steps
  <1>6. /\ q.old = ask[t].old /\ q.late = ask[t].late /\ q.link = ask[t].link /\ q.linkLate = ask[t].linkLate
        /\ q.brings["file"] = n /\ q.brings["demo"] = n /\ q.pc = "write"
    BY <1>2 DEF Pub!Request, Pub!Fields
  <1>7. Adds /\ n \in sheets'.open
    BY <1>1, <1>2 DEF Adds, Pub!PubInv, Pub!TypeOK
  <1>8. Pub!AskInv(ask[t])
    BY PubHas
  <1> HIDE DEF q
  <1>9. /\ n \in sheets'.filled /\ n \in sheets'.open /\ n # 0
        /\ Storage # "s3" => n \in stored' \cup versions'
        /\ q.old = Pub!NoRow <=> listing = Pub!NoRow
    BY <1>1, <1>6, <1>7, <1>8 DEF Pub!AskInv, Pub!There, Pub!Steps, Adds
  <1>10. QED
    BY <1>1, <1>3, <1>5, <1>6, <1>7, <1>9, Advances DEF Pub!Steps

\* A request that is not yet, or no longer, at work.
LEMMA Rests ==
  ASSUME Pub!PubInv, NEW t \in Requests, NEW q \in Pub!Request, ask' = [ask EXCEPT ![t] = q],
         UNCHANGED <<listing, newest, astray, uploads, stored, versions, sheets>>,
         form' \in [Requests -> Pub!Form], \A u \in Requests : Pub!FormInv(form'[u]),
         q.old = Pub!NoRow, q.brings = Pub!Nothing,
         \/ q.pc = "idle" /\ q.link = 0
         \/ q.pc = "read" /\ listing # Pub!NoRow /\ Pub!Ready(q.link) /\ (q.link # 0 /\ ~q.linkLate => q.link = listing.demo)
         \/ q.pc = "upload" /\ q.link = 0 /\ listing = Pub!NoRow /\ \A u \in Requests : ask[u].pc = "idle"
  PROVE  Pub!PubInv'
  <1>1. Adds
    BY NoneAdded
  <1>2. q.brings["demo"] = 0 /\ q.brings["file"] = 0
    BY EmptyIs DEF Pub!Fields
  <1>3. Pub!Ready(q.link)' /\ Pub!Ready(q.brings["demo"])' /\ Pub!Held(q.old)' /\ Pub!Ready(q.old.demo)'
    BY <1>2, EmptyIs DEF Pub!Ready, Pub!Held
  <1>4. Pub!AskInv(q)'
    BY <1>2, <1>3 DEF Pub!AskInv, Pub!Steps
  <1>5. QED
    BY <1>1, <1>4, AskMoves

LEMMA FormsMove ==
  ASSUME Pub!PubInv, NEW t \in Requests, NEW f \in Pub!Form, Pub!FormInv(f), form' = [form EXCEPT ![t] = f]
  PROVE  form' \in [Requests -> Pub!Form] /\ \A u \in Requests : Pub!FormInv(form'[u])
  BY DEF Pub!PubInv, Pub!TypeOK

LEMMA ShutIs ==
  ASSUME NEW f \in Pub!Form, Pub!FormInv(f)
  PROVE  Pub!Shut(f) \in Pub!Form /\ Pub!FormInv(Pub!Shut(f))
  BY DEF Pub!Shut, Pub!Form, Pub!FormInv

LEMMA EndWorks ==
  ASSUME Pub!PubInv, NEW t \in Requests, Pub!Answered(t) \/ Pub!Fail(t)
  PROVE  Pub!PubInv'
  <1>1. /\ ask' = [ask EXCEPT ![t] = Pub!Quiet]
        /\ UNCHANGED <<listing, newest, astray, uploads, stored, versions, sheets>>
    BY DEF Pub!Answered, Pub!Fail, Pub!rowVars, Pub!fileVars
  <1>2. form' \in [Requests -> Pub!Form] /\ \A u \in Requests : Pub!FormInv(form'[u])
    <2>1. CASE Pub!Answered(t)
      BY <2>1, PubHas, ShutIs, FormsMove DEF Pub!Answered
    <2>2. CASE Pub!Fail(t)
      BY <2>2 DEF Pub!Fail, Pub!PubInv, Pub!TypeOK
    <2>3. QED
      BY <2>1, <2>2
  <1>3. PICK q \in Pub!Request : q = Pub!Quiet
    BY QuietIs
  <1>4. QED
    BY <1>1, <1>2, <1>3, QuietIs, Rests

LEMMA SubmitWorks ==
  ASSUME Pub!PubInv, NEW t \in Requests, NEW i \in Pub!Inputs(t), Pub!Submit(t, i)
  PROVE  Pub!PubInv'
  <1> DEFINE next == [Pub!Quiet EXCEPT !.pc = IF form[t].mode = "edit" THEN "read" ELSE "upload",
                         !.sheet = i.sheet, !.chosen = i.chosen, !.link = i.link,
                         !.linkLate = i.link # 0 /\ form[t].late]
  <1>1. /\ ask' = [ask EXCEPT ![t] = next]
        /\ UNCHANGED <<listing, newest, astray, uploads, stored, versions, sheets, form>>
        /\ form[t].mode = "edit" \/ (listing = Pub!NoRow /\ \A u \in Requests : ask[u].pc = "idle")
    BY DEF Pub!Submit, Pub!rowVars, Pub!fileVars, Pub!At
  <1>2. /\ form[t] \in Pub!Form /\ Pub!FormInv(form[t])
    BY PubHas
  <1>3. i \in [chosen : BOOLEAN, sheet : BOOLEAN, link : {form[t].demo, 0}]
    BY DEF Pub!Inputs
  <1>4. i.link \in Pub!Links /\ (form[t].mode # "edit" => i.link = 0) /\ i.link \in {form[t].demo, 0}
    BY <1>2, <1>3, EmptyIs DEF Pub!Form, Pub!Inputs
  <1>5. i.sheet \in BOOLEAN /\ i.chosen \in BOOLEAN
    BY <1>3
  <1>6. PICK q \in Pub!Request : q = next
    <2>1. (i.link # 0 /\ form[t].late) \in BOOLEAN
      BY Zenon
    <2>2. (IF form[t].mode = "edit" THEN "read" ELSE "upload") \in Pub!Steps \cup {"idle", "read", "answer", "version"}
      BY DEF Pub!Steps
    <2>3. next \in Pub!Request
      BY <1>4, <1>5, <2>1, <2>2, QuietIs DEF Pub!Request
    <2>4. QED
      BY <2>3
  <1>7. /\ q.pc = IF form[t].mode = "edit" THEN "read" ELSE "upload"
        /\ q.link = i.link /\ q.old = Pub!NoRow /\ q.brings = Pub!Nothing
    BY <1>6, QuietIs DEF Pub!Request
  <1>8. i.link # 0 /\ ~q.linkLate => ~form[t].late
    <2>1. q.linkLate <=> (i.link # 0 /\ form[t].late)
      BY <1>6, QuietIs DEF Pub!Request
    <2>2. QED
      BY <2>1
  <1> HIDE DEF next
  <1>9. form' \in [Requests -> Pub!Form] /\ \A u \in Requests : Pub!FormInv(form'[u])
    BY <1>1 DEF Pub!PubInv, Pub!TypeOK
  <1>10. Pub!Ready(0)
    BY DEF Pub!Ready
  <1>11. CASE form[t].mode = "edit"
    <2>1. listing # Pub!NoRow /\ Pub!Ready(q.link) /\ (q.link # 0 /\ ~q.linkLate => q.link = listing.demo)
      BY <1>2, <1>4, <1>7, <1>8, <1>10, <1>11 DEF Pub!FormInv
    <2>2. QED
      BY <1>1, <1>6, <1>7, <1>9, <1>11, <2>1, Rests
  <1>12. CASE form[t].mode # "edit"
    BY <1>1, <1>4, <1>6, <1>7, <1>9, <1>12, Rests
  <1>13. QED
    BY <1>11, <1>12

LEMMA FormWorks ==
  ASSUME Pub!PubInv, NEW t \in Requests, Pub!Load(t) \/ Pub!Edit(t) \/ Pub!Cancel(t)
  PROVE  Pub!PubInv'
  <1>1. UNCHANGED <<listing, newest, astray, uploads, stored, versions, sheets, ask>>
    BY DEF Pub!Load, Pub!Edit, Pub!Cancel, Pub!rowVars, Pub!fileVars
  <1>2. form[t] \in Pub!Form /\ Pub!FormInv(form[t]) /\ listing.demo \in Pub!Links /\ Pub!Ready(listing.demo)
    BY PubHas DEF Pub!PubInv, Pub!Rows
  <1>3. PICK f \in Pub!Form : Pub!FormInv(f) /\ form' = [form EXCEPT ![t] = f]
    <2>1. CASE Pub!Load(t)
      <3> DEFINE f == [mode |-> "listed", demo |-> listing.demo, late |-> FALSE]
      <3>1. f \in Pub!Form
        BY <1>2 DEF Pub!Form
      <3>2. Pub!FormInv(f)
        BY <1>2, <2>1 DEF Pub!FormInv, Pub!Load
      <3>3. QED
        BY <2>1, <3>1, <3>2 DEF Pub!Load
    <2>2. CASE Pub!Edit(t)
      <3> DEFINE f == [form[t] EXCEPT !.mode = "edit"]
      <3>1. f \in Pub!Form /\ Pub!FormInv(f)
        BY <1>2, <2>2 DEF Pub!Form, Pub!FormInv, Pub!Edit
      <3>2. form' = [form EXCEPT ![t] = f]
        BY <2>2 DEF Pub!Edit, Pub!PubInv, Pub!TypeOK
      <3>3. QED
        BY <3>1, <3>2
    <2>3. CASE Pub!Cancel(t)
      BY <1>2, <2>3, ShutIs DEF Pub!Cancel
    <2>4. QED
      BY <2>1, <2>2, <2>3
  <1>4. form' \in [Requests -> Pub!Form] /\ \A u \in Requests : Pub!FormInv(form'[u])
    BY <1>3, FormsMove
  <1>5. Pub!TypeOK' /\ Pub!Held(listing)' /\ Pub!Ready(listing.demo)'
    BY <1>1, <1>4 DEF Pub!PubInv, Pub!TypeOK, Pub!Held, Pub!Ready, Pub!There
  <1>6. \A u \in Requests : Pub!FormInv(form[u])'
    BY <1>1, <1>4 DEF Pub!FormInv, Pub!Ready
  <1>7. \A u \in Requests : Pub!AskInv(ask[u])'
    BY <1>1 DEF Pub!PubInv, Pub!AskInv, Pub!Held, Pub!Ready, Pub!There
  <1>8. Pub!Creation' /\ Pub!LatestStands'
    BY <1>1 DEF Pub!PubInv, Pub!Creation, Pub!At, Pub!LatestStands, Pub!Shown, Pub!Served
  <1>9. QED
    BY <1>5, <1>6, <1>7, <1>8 DEF Pub!PubInv

LEMMA AddVersionWorks ==
  ASSUME Pub!PubInv, NEW t \in Requests, Pub!AddVersion(t)
  PROVE  Pub!PubInv'
  <1> DEFINE next == [Pub!Quiet EXCEPT !.pc = "version", !.brings = [Pub!Quiet.brings EXCEPT !["file"] = uploads']]
  <1>1. /\ ask[t].pc = "idle" /\ listing # Pub!NoRow
        /\ uploads < MaxUploads /\ uploads' = uploads + 1
        /\ versions' = versions \cup {uploads'}
        /\ UNCHANGED <<listing, newest, astray, form, stored, sheets>>
    BY DEF Pub!AddVersion, Pub!At, Pub!rowVars
  <1>2. ask' = [ask EXCEPT ![t] = next]
    BY QuietIs DEF Pub!AddVersion, Pub!Request
  <1>3. PICK n \in Pub!Links : n = uploads' /\ n # 0
    BY <1>1, UploadsAssumption DEF Pub!PubInv, Pub!TypeOK, Pub!Links
  <1>4. PICK q \in Pub!Request : q = next
    <2>1. [Pub!Quiet.brings EXCEPT !["file"] = uploads'] \in [Pub!Fields -> Pub!Links]
      BY <1>3, QuietIs, EmptyIs
    <2>2. next \in Pub!Request
      BY <2>1, QuietIs DEF Pub!Request
    <2>3. QED
      BY <2>2
  <1>5. /\ q.pc = "version" /\ q.old = Pub!NoRow /\ q.link = 0
        /\ q.brings = [Pub!Nothing EXCEPT !["file"] = n]
    BY <1>3, <1>4, QuietIs DEF Pub!Request
  <1>6. q.brings["file"] = n /\ q.brings["demo"] = 0
    BY <1>5, EmptyIs DEF Pub!Fields
  <1> HIDE DEF next
  <1>7. Adds
    BY <1>1, <1>3 DEF Adds, Pub!PubInv, Pub!TypeOK
  <1>8. Pub!There(n)' /\ Pub!Ready(q.link)' /\ Pub!Ready(q.brings["demo"])' /\ Pub!Held(q.old)' /\ Pub!Ready(q.old.demo)'
    BY <1>1, <1>3, <1>5, <1>6, EmptyIs DEF Pub!Ready, Pub!Held, Pub!There
  <1>9. Pub!AskInv(q)'
    BY <1>1, <1>3, <1>5, <1>6, <1>8 DEF Pub!AskInv, Pub!Steps
  <1>10. form' \in [Requests -> Pub!Form] /\ \A u \in Requests : Pub!FormInv(form'[u])
    BY <1>1 DEF Pub!PubInv, Pub!TypeOK
  <1>11. QED
    BY <1>1, <1>2, <1>4, <1>7, <1>9, <1>10, AskMoves

\* The row changes: what the other requests and the forms have of it is late.
LEMMA RowMoves ==
  ASSUME Pub!PubInv, NEW t \in Requests, NEW q \in Pub!Request, Pub!Overtake(t, q),
         q.pc \in {"idle", "answer"}, q.old = Pub!NoRow, q.link = 0, q.brings = Pub!Nothing,
         ask[t].pc # "idle",
         UNCHANGED <<uploads, stored, versions, sheets>>,
         newest' \in [Pub!Fields -> Pub!Links], astray' \in SUBSET Pub!Fields,
         listing' \in Pub!Rows, listing' # Pub!NoRow, Pub!Held(listing'), Pub!Ready(listing'.demo),
         Pub!LatestStands'
  PROVE  Pub!PubInv'
  <1>1. /\ form' = [u \in Requests |-> [form[u] EXCEPT !.late = form[u].mode # "new"]]
        /\ ask' = [u \in Requests |->
              IF u = t THEN q
              ELSE [ask[u] EXCEPT !.late = ask[u].old # Pub!NoRow, !.linkLate = ask[u].link # 0]]
    BY DEF Pub!Overtake
  <1>2. ASSUME NEW u \in Requests
        PROVE  /\ form'[u] \in Pub!Form /\ form'[u].mode = form[u].mode /\ form'[u].demo = form[u].demo
               /\ form[u].mode # "new" => form'[u].late
    <2>1. (form[u].mode # "new") \in BOOLEAN
      BY Zenon
    <2>2. form[u] \in Pub!Form
      BY PubHas
    <2>3. QED
      BY <1>1, <2>1, <2>2 DEF Pub!Form
  <1>3. ASSUME NEW u \in Requests, u # t
        PROVE  /\ ask'[u] \in Pub!Request
               /\ ask'[u].pc = ask[u].pc /\ ask'[u].old = ask[u].old /\ ask'[u].link = ask[u].link
               /\ ask'[u].brings = ask[u].brings
               /\ ask[u].old # Pub!NoRow => ask'[u].late
               /\ ask[u].link # 0 => ask'[u].linkLate
    <2>1. (ask[u].old # Pub!NoRow) \in BOOLEAN /\ (ask[u].link # 0) \in BOOLEAN
      BY Zenon
    <2>2. ask[u] \in Pub!Request
      BY PubHas
    <2>3. QED
      BY <1>1, <1>3, <2>1, <2>2 DEF Pub!Request
  <1>4. ask'[t] = q
    BY <1>1
  <1>5. form' \in [Requests -> Pub!Form] /\ ask' \in [Requests -> Pub!Request]
    <2>1. \A u \in Requests : form'[u] \in Pub!Form /\ ask'[u] \in Pub!Request
      BY <1>2, <1>3, <1>4
    <2>2. QED
      BY <1>1, <2>1
  <1>6. Pub!TypeOK'
    BY <1>5 DEF Pub!PubInv, Pub!TypeOK
  <1>7. Pub!Held(listing)' /\ Pub!Ready(listing.demo)'
    BY DEF Pub!Held, Pub!Ready, Pub!There
  <1>8. ASSUME NEW u \in Requests PROVE Pub!FormInv(form[u])'
    <2>1. Pub!FormInv(form[u])
      BY PubHas
    <2>2. QED
      BY <1>2, <2>1 DEF Pub!FormInv, Pub!Ready
  <1>9. ASSUME NEW u \in Requests PROVE Pub!AskInv(ask[u])'
    <2>1. CASE u = t
      <3>1. q.brings["demo"] = 0 /\ q.brings["file"] = 0
        BY EmptyIs DEF Pub!Fields
      <3>2. (Pub!Ready(q.link) /\ Pub!Ready(q.brings["demo"]) /\ Pub!Held(q.old) /\ Pub!Ready(q.old.demo))'
        BY <3>1, EmptyIs DEF Pub!Ready, Pub!Held
      <3>3. QED
        BY <1>4, <2>1, <3>1, <3>2 DEF Pub!AskInv, Pub!Steps
    <2>2. CASE u # t
      <3>1. Pub!AskInv(ask[u]) /\ (listing = Pub!NoRow => ask[u].pc = "idle")
        BY <2>2, PubHas
      <3>2. ask'[u].pc = "idle" \/ listing # Pub!NoRow
        BY <1>3, <2>2, <3>1
      <3>3. QED
        BY <1>3, <2>2, <3>1, <3>2 DEF Pub!AskInv, Pub!Steps, Pub!Held, Pub!Ready, Pub!There
    <2>3. QED
      BY <2>1, <2>2
  <1>10. Pub!Creation'
    BY DEF Pub!Creation
  <1>11. QED
    BY <1>6, <1>7, <1>8, <1>9, <1>10 DEF Pub!PubInv

\* What an update or a creation writes.
LEMMA WrittenIs ==
  ASSUME NEW q \in Pub!Request
  PROVE  /\ Pub!Written(q) \in Pub!Rows
         /\ Pub!Written(q).file = Pub!Kept(q.brings["file"], q.old.file)
         /\ Pub!Written(q).key = Pub!Kept(q.brings["file"], q.old.key)
         /\ Pub!Written(q).preview = Pub!Kept(q.brings["preview"], q.old.preview)
         /\ Pub!Written(q).demo = Pub!Kept(q.brings["demo"], Pub!Kept(q.link, q.old.demo))
  <1>1. q.brings["file"] \in Pub!Links /\ q.brings["preview"] \in Pub!Links /\ q.brings["demo"] \in Pub!Links
    BY DEF Pub!Request, Pub!Fields
  <1>2. q.old \in Pub!Rows /\ q.link \in Pub!Links
    BY DEF Pub!Request
  <1>3. \A a, b \in Pub!Links : Pub!Kept(a, b) \in Pub!Links
    BY DEF Pub!Kept
  <1>4. QED
    BY <1>1, <1>2, <1>3 DEF Pub!Written, Pub!Rows

LEMMA WriteWorks ==
  ASSUME Pub!PubInv, NEW t \in Requests, Pub!Write(t)
  PROVE  Pub!PubInv'
  <1> DEFINE q == ask[t]
  <1>1. /\ q.pc = "write" /\ listing' = Pub!Written(q)
        /\ newest' = [f \in Pub!Fields |-> Pub!Kept(q.brings[f], newest[f])]
        /\ astray' = {f \in Pub!Fields : q.brings[f] = 0 /\ (f \in astray \/ Pub!WrittenLate(q, f))}
        /\ Pub!Overtake(t, [Pub!Quiet EXCEPT !.pc = "answer"])
        /\ UNCHANGED <<uploads, stored, versions, sheets>>
    BY DEF Pub!Write, Pub!At, Pub!fileVars
  <1>2. /\ q \in Pub!Request /\ Pub!AskInv(q) /\ listing \in Pub!Rows
        /\ (listing = Pub!NoRow => q.link = 0 /\ newest = Pub!Nothing)
        /\ newest \in [Pub!Fields -> Pub!Links] /\ Pub!LatestStands /\ Pub!Held(listing)
    BY PubHas DEF Pub!PubInv, Pub!TypeOK, Pub!Creation
  <1> HIDE DEF q
  <1>3. listing' \in Pub!Rows
    BY <1>1, <1>2, WrittenIs
  <1>4. /\ listing'.file = Pub!Kept(q.brings["file"], q.old.file)
        /\ listing'.key = Pub!Kept(q.brings["file"], q.old.key)
        /\ listing'.preview = Pub!Kept(q.brings["preview"], q.old.preview)
        /\ listing'.demo = Pub!Kept(q.brings["demo"], Pub!Kept(q.link, q.old.demo))
    BY <1>1, <1>2, WrittenIs
  <1>5. /\ q.old = Pub!NoRow <=> listing = Pub!NoRow
        /\ q.old = Pub!NoRow => q.brings["file"] # 0
        /\ q.old # Pub!NoRow /\ ~q.late => q.old = listing
        /\ q.link # 0 /\ ~q.linkLate => q.link = listing.demo
        /\ Pub!Held(q.old) /\ Pub!Ready(q.old.demo) /\ Pub!Ready(q.link) /\ Pub!Ready(q.brings["demo"])
        /\ q.brings["file"] # 0 => Pub!There(q.brings["file"])
    BY <1>1, <1>2 DEF Pub!AskInv, Pub!Steps
  <1>6. listing'.file # 0 /\ listing'.key # 0 /\ Pub!Held(listing')
    BY <1>4, <1>5 DEF Pub!Held, Pub!Kept
  <1>7. Pub!Ready(listing'.demo)
    BY <1>4, <1>5 DEF Pub!Ready, Pub!Kept
  <1>8. listing' # Pub!NoRow
    BY <1>6, EmptyIs
  <1>9. newest' \in [Pub!Fields -> Pub!Links]
    <2>1. \A f \in Pub!Fields : q.brings[f] \in Pub!Links /\ newest[f] \in Pub!Links
      BY <1>2 DEF Pub!Request
    <2>2. QED
      BY <1>1, <2>1 DEF Pub!Kept
  <1>10. astray' \in SUBSET Pub!Fields
    BY <1>1
  <1>11. ASSUME NEW f \in Pub!Fields \ astray'
         PROVE  Pub!Shown(f)' = newest'[f]
    <2>1. q.brings[f] # 0 \/ (f \notin astray /\ ~Pub!WrittenLate(q, f))
      BY <1>1
    <2>2. newest'[f] = Pub!Kept(q.brings[f], newest[f])
      BY <1>1
    <2>3. CASE q.brings[f] # 0
      BY <1>4, <2>2, <2>3 DEF Pub!Shown, Pub!Served, Pub!Kept, Pub!Fields
    <2>4. CASE q.brings[f] = 0 /\ listing = Pub!NoRow
      <3>1. newest[f] = 0 /\ q.link = 0
        BY <1>2, <2>4, EmptyIs
      <3>2. q.old.preview = 0 /\ q.old.demo = 0 /\ f # "file"
        BY <1>5, <2>4, EmptyIs
      <3>3. QED
        BY <1>4, <2>2, <2>4, <3>1, <3>2 DEF Pub!Shown, Pub!Kept, Pub!Fields
    <2>5. CASE q.brings[f] = 0 /\ listing # Pub!NoRow
      <3>1. Pub!Shown(f) = newest[f] /\ newest'[f] = newest[f]
        BY <1>2, <2>1, <2>2, <2>5 DEF Pub!LatestStands, Pub!Kept
      <3>2. CASE f = "file"
        BY <1>4, <1>5, <2>1, <2>5, <3>1, <3>2 DEF Pub!Shown, Pub!Served, Pub!Kept, Pub!WrittenLate
      <3>3. CASE f = "preview"
        BY <1>4, <1>5, <2>1, <2>5, <3>1, <3>3 DEF Pub!Shown, Pub!Kept, Pub!WrittenLate
      <3>4. CASE f = "demo"
        BY <1>4, <1>5, <2>1, <2>5, <3>1, <3>4 DEF Pub!Shown, Pub!Kept, Pub!WrittenLate
      <3>5. QED
        BY <3>2, <3>3, <3>4 DEF Pub!Fields
    <2>6. QED
      BY <2>3, <2>4, <2>5
  <1>12. Pub!LatestStands'
    BY <1>11 DEF Pub!LatestStands
  <1>13. PICK next \in Pub!Request : next = [Pub!Quiet EXCEPT !.pc = "answer"]
    BY QuietIs DEF Pub!Request
  <1>14. next.pc = "answer" /\ next.old = Pub!NoRow /\ next.link = 0 /\ next.brings = Pub!Nothing
    BY <1>13, QuietIs DEF Pub!Request
  <1>15. ask[t].pc # "idle"
    BY <1>1 DEF q
  <1>16. QED
    BY <1>1, <1>3, <1>6, <1>7, <1>8, <1>9, <1>10, <1>12, <1>13, <1>14, <1>15, RowMoves

LEMMA OfferVersionWorks ==
  ASSUME Pub!PubInv, NEW t \in Requests, Pub!OfferVersion(t)
  PROVE  Pub!PubInv'
  <1> DEFINE n == ask[t].brings["file"]
  <1>1. /\ ask[t].pc = "version" /\ listing' = [listing EXCEPT !.file = n]
        /\ newest' = [newest EXCEPT !["file"] = n]
        /\ astray' = IF Storage = "local" /\ listing.key # 0 THEN astray \cup {"file"} ELSE astray \ {"file"}
        /\ Pub!Overtake(t, Pub!Quiet)
        /\ UNCHANGED <<uploads, stored, versions, sheets>>
    BY DEF Pub!OfferVersion, Pub!At, Pub!fileVars, Pub!File
  <1>2. /\ ask[t] \in Pub!Request /\ Pub!AskInv(ask[t]) /\ listing \in Pub!Rows
        /\ newest \in [Pub!Fields -> Pub!Links] /\ Pub!LatestStands /\ Pub!Held(listing)
        /\ Pub!Ready(listing.demo) /\ astray \in SUBSET Pub!Fields
    BY PubHas DEF Pub!PubInv, Pub!TypeOK
  <1>3. n \in Pub!Links /\ n # 0 /\ Pub!There(n) /\ listing # Pub!NoRow
    BY <1>1, <1>2 DEF Pub!AskInv, Pub!Request, Pub!Fields, Pub!Steps
  <1> HIDE DEF n
  <1>4. /\ listing' \in Pub!Rows /\ listing'.file = n /\ listing'.key = listing.key
        /\ listing'.preview = listing.preview /\ listing'.demo = listing.demo
    BY <1>1, <1>2, <1>3 DEF Pub!Rows
  <1>5. listing' # Pub!NoRow /\ Pub!Held(listing') /\ Pub!Ready(listing'.demo)
    BY <1>2, <1>3, <1>4, EmptyIs DEF Pub!Held
  <1>6. newest' \in [Pub!Fields -> Pub!Links] /\ astray' \in SUBSET Pub!Fields
    BY <1>1, <1>2, <1>3 DEF Pub!Fields
  <1>7. ASSUME NEW f \in Pub!Fields \ astray'
        PROVE  Pub!Shown(f)' = newest'[f]
    <2>1. CASE f = "file"
      <3>1. Storage # "local"
        BY <1>1, <1>2, <1>3, <2>1 DEF Pub!Held
      <3>2. QED
        BY <1>1, <1>2, <1>4, <2>1, <3>1 DEF Pub!Shown, Pub!Served, Pub!Fields
    <2>2. CASE f # "file"
      <3>1. f \notin astray
        BY <1>1, <2>2
      <3>2. Pub!Shown(f) = newest[f] /\ newest'[f] = newest[f]
        BY <1>1, <1>2, <2>2, <3>1 DEF Pub!LatestStands
      <3>3. f \in {"preview", "demo"}
        BY <2>2 DEF Pub!Fields
      <3>4. QED
        BY <1>4, <2>2, <3>2, <3>3 DEF Pub!Shown
    <2>3. QED
      BY <2>1, <2>2
  <1>8. Pub!LatestStands'
    BY <1>7 DEF Pub!LatestStands
  <1>9. PICK next \in Pub!Request : next = Pub!Quiet
    BY QuietIs
  <1>10. QED
    BY <1>1, <1>4, <1>5, <1>6, <1>8, <1>9, QuietIs, RowMoves

LEMMA PubStarts ==
  ASSUME Pub!Init
  PROVE  Pub!PubInv
  <1>1. /\ listing = Pub!NoRow /\ newest = Pub!Nothing /\ astray = {}
        /\ uploads = 0 /\ stored = {} /\ versions = {}
        /\ sheets \in [filled : SUBSET Pub!Links, open : SUBSET Pub!Links]
        /\ form = [t \in Requests |-> Pub!NoForm] /\ ask = [t \in Requests |-> Pub!Quiet]
    BY DEF Pub!Init
  <1>2. Pub!TypeOK
    BY <1>1, EmptyIs, QuietIs, NoFormIs DEF Pub!TypeOK
  <1>3. Pub!Ready(0) /\ Pub!Held(Pub!NoRow)
    BY DEF Pub!Ready, Pub!Held
  <1>4. \A t \in Requests : Pub!FormInv(form[t])
    BY <1>1, <1>3, NoFormIs DEF Pub!FormInv
  <1>5. Pub!AskInv(Pub!Quiet)
    <2>1. Pub!Quiet.brings["demo"] = 0 /\ Pub!Quiet.brings["file"] = 0
      BY QuietIs, EmptyIs DEF Pub!Fields
    <2>2. QED
      BY <1>1, <1>3, <2>1, QuietIs, EmptyIs DEF Pub!AskInv, Pub!Steps
  <1>6. Pub!Creation
    BY <1>1, QuietIs DEF Pub!Creation, Pub!At
  <1>7. ASSUME NEW f \in Pub!Fields
        PROVE  Pub!Shown(f) = newest[f]
    BY <1>1, EmptyIs DEF Pub!Shown, Pub!Served, Pub!Fields, Pub!NoRow
  <1>8. QED
    BY <1>1, <1>2, <1>3, <1>4, <1>5, <1>6, <1>7, EmptyIs DEF Pub!PubInv, Pub!LatestStands

LEMMA PubSteps ==
  ASSUME Pub!PubInv, [Pub!Next]_(Pub!pubVars)
  PROVE  Pub!PubInv'
  <1>1. ASSUME NEW t \in Requests, Pub!Load(t) \/ Pub!Edit(t) \/ Pub!Cancel(t)
        PROVE  Pub!PubInv'
    BY <1>1, FormWorks
  <1>2. ASSUME NEW t \in Requests, NEW i \in Pub!Inputs(t), Pub!Submit(t, i)
        PROVE  Pub!PubInv'
    BY <1>2, SubmitWorks
  <1>3. ASSUME NEW t \in Requests, Pub!Answered(t) \/ Pub!Fail(t)
        PROVE  Pub!PubInv'
    BY <1>3, EndWorks
  <1>4. ASSUME NEW t \in Requests, Pub!Read(t) \/ Pub!StoreFile(t) \/ Pub!DrawPreview(t)
        PROVE  Pub!PubInv'
    BY <1>4, ReadWorks, StoreFileWorks, DrawPreviewWorks
  <1>5. ASSUME NEW t \in Requests, Pub!Authorize(t) \/ Pub!MakeSheet(t) \/ Pub!FillSheet(t) \/ Pub!OpenSheet(t)
        PROVE  Pub!PubInv'
    BY <1>5, TokenWorks, FillSheetWorks, OpenSheetWorks
  <1>6. ASSUME NEW t \in Requests, Pub!Write(t) \/ Pub!AddVersion(t) \/ Pub!OfferVersion(t)
        PROVE  Pub!PubInv'
    BY <1>6, WriteWorks, AddVersionWorks, OfferVersionWorks
  <1>7. CASE UNCHANGED Pub!pubVars
    <2>1. UNCHANGED <<listing, newest, astray, uploads, stored, versions, sheets, form, ask>>
      BY <1>7 DEF Pub!pubVars
    <2>2. QED
      BY <2>1 DEF Pub!PubInv, Pub!TypeOK, Pub!Held, Pub!Ready, Pub!There, Pub!FormInv, Pub!AskInv,
                  Pub!Creation, Pub!At, Pub!LatestStands, Pub!Shown, Pub!Served
  <1>8. QED
    BY <1>1, <1>2, <1>3, <1>4, <1>5, <1>6, <1>7, Zenon DEF Pub!Next

\* The inductive invariant of the way a template gets its files.
THEOREM PublishingHolds == Pub!Spec => []Pub!PubInv
  <1>1. Pub!Init => Pub!PubInv
    BY PubStarts
  <1>2. Pub!PubInv /\ [Pub!Next]_(Pub!pubVars) => Pub!PubInv'
    BY PubSteps
  <1>3. QED
    BY <1>1, <1>2, PTL DEF Pub!Spec

\* For any number of tabs and uploads, whichever storage is used: buyers get the file,
\* preview and demo made last, unless one was written back from an older copy.
THEOREM LatestAlwaysStands == Pub!Spec => []LatestStands
  <1>1. Pub!PubInv => LatestStands
    BY DEF Pub!PubInv, LatestStands
  <1>2. QED
    BY <1>1, PublishingHolds, PTL

\* For any number of tabs and uploads, wherever a request stops: the file offered is
\* stored or a version, and the demo was filled and opened before it was offered.
THEOREM OffersAreAlwaysWhole == Pub!Spec => []OffersAreWhole
  <1>1. Pub!PubInv => OffersAreWhole
    BY DEF Pub!PubInv, OffersAreWhole, Pub!OffersAreWhole, Pub!Held, Pub!Ready, Pub!There, Pub!Served
  <1>2. QED
    BY <1>1, PublishingHolds, PTL

\* For any number of tabs and uploads, buyers get the file made last, but for those
\* exceptions, and what is offered to them is whole (updateTemplate, persistUploads).
THEOREM FilesAlwaysStand == Pub!Spec => []FilesStand
  BY LatestAlwaysStands, OffersAreAlwaysWhole, PTL DEF FilesStand

(***************************************************************************)
(* Looking for templates and courses, and taking one                       *)
(***************************************************************************)

LEMMA StillIs ==
  Store!Still \in Store!Fetch /\ Store!Still.pc = "idle" /\ ~Store!Still.seat /\ Store!Still.of = Blank
  BY DEF Store!Still, Store!Fetch, Store!Wanted

\* A request that has just been sent.
LEMMA SentIs ==
  ASSUME NEW v \in Store!Wanted
  PROVE  LET q == [Store!Still EXCEPT !.pc = "sent", !.of = v]
         IN  q \in Store!Fetch /\ q.pc = "sent" /\ q.of = v /\ ~q.seat /\ ~q.old
  BY DEF Store!Still, Store!Fetch, Store!Wanted

\* What is asked for is something that can be asked for.
LEMMA WantIs ==
  ASSUME Store!TypeOK
  PROVE  \A kind \in Store!Things : Store!Want[kind] \in Store!Wanted
  BY DEF Store!TypeOK, Store!Want, Store!Things, Store!query, Store!Wanted

\* Of the requests that are outdated none is new, and they are about what they were.
LEMMA OutdatedIs ==
  ASSUME Store!TypeOK, NEW kind \in Store!Kinds
  PROVE  /\ Store!Outdated(kind) \in [Requests -> Store!Fetch]
         /\ \A c \in Requests : LET q == Store!Outdated(kind)[c]
                                IN  \/ q = Store!Still
                                    \/ /\ q.old /\ q.pc = fetches[kind][c].pc /\ q.of = fetches[kind][c].of
                                       /\ q.seat = fetches[kind][c].seat
  <1>1. ASSUME NEW c \in Requests
        PROVE  LET q == Store!Outdated(kind)[c]
               IN  /\ q \in Store!Fetch
                   /\ \/ q = Store!Still
                      \/ /\ q.old /\ q.pc = fetches[kind][c].pc /\ q.of = fetches[kind][c].of
                         /\ q.seat = fetches[kind][c].seat
    <2>1. fetches[kind][c] \in Store!Fetch
      BY DEF Store!TypeOK
    <2>2. CASE Store!Busy(kind, c)
      <3>1. Store!Outdated(kind)[c] = [fetches[kind][c] EXCEPT !.old = TRUE]
        BY <2>2 DEF Store!Outdated
      <3>2. QED
        BY <2>1, <3>1 DEF Store!Fetch
    <2>3. CASE ~Store!Busy(kind, c)
      BY <2>3, StillIs DEF Store!Outdated
    <2>4. QED
      BY <2>2, <2>3
  <1>2. Store!Outdated(kind) = [c \in Requests |-> Store!Outdated(kind)[c]]
    BY DEF Store!Outdated
  <1>3. QED
    BY <1>1, <1>2

\* Nothing changes for a kind of requests that an action leaves alone.
LEMMA KindKeeps ==
  ASSUME Store!StoreInv, NEW kind \in Store!Kinds, fetches'[kind] = fetches[kind],
         kind \in Store!Things => Store!Want'[kind] = Store!Want[kind],
         seats \subseteq seats', beheld \subseteq beheld'
  PROVE  \A c \in Requests : Store!FetchIsSound(kind, fetches[kind][c])'
  BY DEF Store!StoreInv, Store!FetchIsSound, Store!Kinds

LEMMA ShowsKeeps ==
  ASSUME Store!StoreInv, NEW kind \in Store!Things, fetches'[kind] = fetches[kind],
         Store!Want'[kind] = Store!Want[kind], have'[kind] = have[kind], amiss'[kind] = amiss[kind]
  PROVE  Store!Shows(kind)'
  BY DEF Store!StoreInv, Store!ShownIsWanted, Store!Shows, Store!Busy

\* A kind of requests that has just been asked anew.
LEMMA AskedIs ==
  ASSUME Store!StoreInv, NEW kind \in Store!Things, NEW c \in Requests, NEW v \in Store!Wanted,
         fetches'[kind] = Store!Asked(kind, c, v), Store!Want'[kind] = v, seats \subseteq seats'
  PROVE  /\ Store!Asked(kind, c, v) \in [Requests -> Store!Fetch]
         /\ \A d \in Requests : Store!FetchIsSound(kind, fetches[kind][d])'
         /\ Store!Shows(kind)'
  <1>1. kind \in Store!Kinds /\ kind # "enroll"
    BY DEF Store!Kinds, Store!Things
  <1>2. /\ Store!Outdated(kind) \in [Requests -> Store!Fetch]
        /\ \A d \in Requests : LET q == Store!Outdated(kind)[d]
                               IN  \/ q = Store!Still
                                   \/ /\ q.old /\ q.pc = fetches[kind][d].pc /\ q.of = fetches[kind][d].of
                                      /\ q.seat = fetches[kind][d].seat
    BY <1>1, OutdatedIs DEF Store!StoreInv
  <1>3. PICK q \in Store!Fetch : /\ q = [Store!Still EXCEPT !.pc = "sent", !.of = v]
                                 /\ q.pc = "sent" /\ q.of = v /\ ~q.seat /\ ~q.old
    BY SentIs
  <1>4. Store!Asked(kind, c, v) = [Store!Outdated(kind) EXCEPT ![c] = q]
    BY <1>3 DEF Store!Asked
  <1>5. /\ Store!Asked(kind, c, v) \in [Requests -> Store!Fetch] /\ fetches'[kind][c] = q
        /\ \A d \in Requests \ {c} : fetches'[kind][d] = Store!Outdated(kind)[d]
    BY <1>2, <1>4
  <1>6. ASSUME NEW d \in Requests PROVE Store!FetchIsSound(kind, fetches[kind][d])'
    <2>1. CASE d = c
      BY <1>1, <1>3, <1>5, <2>1 DEF Store!FetchIsSound
    <2>2. CASE d # c /\ Store!Outdated(kind)[d] = Store!Still
      BY <1>1, <1>5, <2>2, StillIs DEF Store!FetchIsSound
    <2>3. CASE d # c /\ Store!Outdated(kind)[d] # Store!Still
      <3>1. /\ fetches'[kind][d].old /\ fetches'[kind][d].of = fetches[kind][d].of
            /\ fetches'[kind][d].seat = fetches[kind][d].seat
        BY <1>2, <1>5, <2>3
      <3>2. Store!FetchIsSound(kind, fetches[kind][d])
        BY <1>1 DEF Store!StoreInv
      <3>3. QED
        BY <1>1, <3>1, <3>2 DEF Store!FetchIsSound
    <2>4. QED
      BY <2>1, <2>2, <2>3
  <1>7. Store!Shows(kind)'
    BY <1>3, <1>5 DEF Store!Shows, Store!Busy
  <1>8. QED
    BY <1>5, <1>6, <1>7

\* One request of a kind ends.
LEMMA EndedIs ==
  ASSUME Store!StoreInv, NEW kind \in Store!Kinds, NEW c \in Requests,
         fetches' = Store!Ended(kind, c), UNCHANGED Store!Want, seats = seats', beheld \subseteq beheld'
  PROVE  /\ fetches' \in [Store!Kinds -> [Requests -> Store!Fetch]]
         /\ \A k \in Store!Kinds : k # kind => fetches'[k] = fetches[k]
         /\ \A k \in Store!Kinds, d \in Requests : Store!FetchIsSound(k, fetches[k][d])'
         /\ \A d \in Requests : d # c => fetches'[kind][d] = fetches[kind][d]
  <1>1. PICK q \in Store!Fetch : q = Store!Still /\ q.pc = "idle" /\ ~q.seat
    BY StillIs
  <1>2. fetches \in [Store!Kinds -> [Requests -> Store!Fetch]]
    BY DEF Store!StoreInv, Store!TypeOK
  <1>3. fetches' = [fetches EXCEPT ![kind][c] = q]
    BY <1>1 DEF Store!Ended
  <1>4. /\ fetches' \in [Store!Kinds -> [Requests -> Store!Fetch]] /\ fetches'[kind][c] = q
        /\ \A k \in Store!Kinds, d \in Requests : k # kind \/ d # c => fetches'[k][d] = fetches[k][d]
        /\ \A k \in Store!Kinds : k # kind => fetches'[k] = fetches[k]
    BY <1>2, <1>3
  <1>5. ASSUME NEW k \in Store!Kinds, NEW d \in Requests PROVE Store!FetchIsSound(k, fetches[k][d])'
    <2>1. CASE k = kind /\ d = c
      BY <1>1, <1>4, <2>1 DEF Store!FetchIsSound
    <2>2. CASE k # kind \/ d # c
      <3>1. fetches'[k][d] = fetches[k][d] /\ Store!FetchIsSound(k, fetches[k][d])
        BY <1>4, <2>2 DEF Store!StoreInv
      <3>2. QED
        BY <3>1 DEF Store!FetchIsSound
    <2>3. QED
      BY <2>1, <2>2
  <1>6. QED
    BY <1>4, <1>5

\* Filters and page numbers: the list alone is asked for anew.
LEMMA ListAsks ==
  ASSUME Store!StoreInv, face \in Store!Lists, NEW c \in Requests,
         filter' \in Filters, sheet' \in Int,
         fetches' = [fetches EXCEPT !["list"] = Store!Asked("list", c, <<word, filter', sheet'>>)],
         UNCHANGED <<face, word, address, have, pages, seat, seats, tills, picked, beheld, amiss>>
  PROVE  Store!StoreInv'
  <1>1. PICK v \in Store!Wanted : v = <<word, filter', sheet'>>
    BY DEF Store!StoreInv, Store!TypeOK, Store!Wanted
  <1>2. /\ Store!Want'["list"] = v /\ Store!Want'["recs"] = Store!Want["recs"]
        /\ Store!Want'["item"] = Store!Want["item"]
    BY <1>1 DEF Store!Want, Store!query, Store!Recommends
  <1>3. /\ fetches' = [fetches EXCEPT !["list"] = Store!Asked("list", c, v)]
        /\ fetches \in [Store!Kinds -> [Requests -> Store!Fetch]]
    BY <1>1 DEF Store!StoreInv, Store!TypeOK
  <1>4. /\ fetches'["list"] = Store!Asked("list", c, v)
        /\ \A k \in Store!Kinds : k # "list" => fetches'[k] = fetches[k]
    BY <1>3 DEF Store!Kinds, Store!Things
  <1>5. /\ Store!Asked("list", c, v) \in [Requests -> Store!Fetch]
        /\ \A d \in Requests : Store!FetchIsSound("list", fetches["list"][d])'
        /\ Store!Shows("list")'
    BY <1>2, <1>4, AskedIs DEF Store!Things
  <1>6. ASSUME NEW k \in Store!Kinds, k # "list"
        PROVE  \A d \in Requests : Store!FetchIsSound(k, fetches[k][d])'
    BY <1>2, <1>4, <1>6, KindKeeps DEF Store!Things
  <1>7. Store!Shows("recs")' /\ Store!Shows("item")'
    BY <1>2, <1>4, ShowsKeeps DEF Store!Kinds, Store!Things
  <1>8. fetches' \in [Store!Kinds -> [Requests -> Store!Fetch]]
    BY <1>3, <1>5
  <1>9. Store!TypeOK'
    BY <1>8 DEF Store!StoreInv, Store!TypeOK
  <1>10. Store!ShownIsWanted'
    BY <1>5, <1>7 DEF Store!ShownIsWanted, Store!Things
  <1>11. QED
    BY <1>5, <1>6, <1>9, <1>10 DEF Store!StoreInv, Store!TakenWasSeen, Store!Opens

LEMMA FilterWorks ==
  ASSUME Store!StoreInv, NEW c \in Requests,
         \/ \E f \in Filters : Store!Choose(f, c)
         \/ \E n \in {sheet - 1, sheet + 1} : Store!Turn(n, c)
         \/ Store!Search(c)
  PROVE  Store!StoreInv'
  <1>1. filter \in Filters /\ sheet \in Int
    BY DEF Store!StoreInv, Store!TypeOK
  <1>2. ASSUME NEW f \in Filters, Store!Choose(f, c) PROVE Store!StoreInv'
    <2>1. /\ face \in Store!Lists /\ filter' \in Filters /\ sheet' \in Int
          /\ UNCHANGED <<face, word, address, have, pages, seat, seats, tills, picked, beheld, amiss>>
      BY <1>1, <1>2 DEF Store!Choose, Store!Lists
    <2>2. fetches' = [fetches EXCEPT !["list"] = Store!Asked("list", c, <<word, filter', sheet'>>)]
      BY <1>1, <1>2 DEF Store!Choose, Store!AskList
    <2>3. QED
      BY <2>1, <2>2, ListAsks
  <1>3. ASSUME NEW n \in {sheet - 1, sheet + 1}, Store!Turn(n, c) PROVE Store!StoreInv'
    <2>1. /\ face \in Store!Lists /\ filter' \in Filters /\ sheet' \in Int
          /\ UNCHANGED <<face, word, address, have, pages, seat, seats, tills, picked, beheld, amiss>>
      BY <1>1, <1>3 DEF Store!Turn, Store!Lists
    <2>2. fetches' = [fetches EXCEPT !["list"] = Store!Asked("list", c, <<word, filter', sheet'>>)]
      BY <1>1, <1>3 DEF Store!Turn, Store!AskList
    <2>3. QED
      BY <2>1, <2>2, ListAsks
  <1>4. CASE Store!Search(c)
    <2>1. /\ face \in Store!Lists /\ filter' \in Filters /\ sheet' \in Int
          /\ UNCHANGED <<face, word, address, have, pages, seat, seats, tills, picked, beheld, amiss>>
      BY <1>1, <1>4 DEF Store!Search, Store!Lists
    <2>2. fetches' = [fetches EXCEPT !["list"] = Store!Asked("list", c, <<word, filter', sheet'>>)]
      BY <1>1, <1>4 DEF Store!Search, Store!AskList
    <2>3. QED
      BY <2>1, <2>2, ListAsks
  <1>5. QED
    BY <1>2, <1>3, <1>4

\* Letters: the list is asked for anew, and the recommendations are, or are cleared.
LEMMA TypeWorks ==
  ASSUME Store!StoreInv, NEW w \in {letter, words}, NEW c \in Requests, NEW d \in Requests, Store!Type(w, c, d)
  PROVE  Store!StoreInv'
  <1>1. PICK v \in Store!Wanted : v = <<w, filter, sheet>>
    BY DEF Store!StoreInv, Store!TypeOK, Store!Wanted
  <1>2. w \in Store!Wanted /\ Blank \in Store!Wanted
    BY DEF Store!Wanted
  <1>3. /\ face \in Store!Lists /\ word' = w
        /\ UNCHANGED <<face, filter, sheet, address, pages, seat, seats, tills, picked, beheld>>
    BY DEF Store!Type
  <1>4. /\ Store!Want'["list"] = v /\ Store!Want'["item"] = Store!Want["item"]
        /\ Store!Want'["recs"] = IF Store!Recommends(w) THEN w ELSE Blank
    BY <1>1, <1>3 DEF Store!Want, Store!query, Store!Recommends
  <1>5. /\ fetches \in [Store!Kinds -> [Requests -> Store!Fetch]]
        /\ have \in [Store!Things -> Store!Wanted] /\ amiss \in [Store!Things -> BOOLEAN]
    BY DEF Store!StoreInv, Store!TypeOK
  <1>6. /\ fetches'["list"] = Store!Asked("list", c, v)
        /\ \A k \in Store!Kinds : k \notin {"list", "recs"} => fetches'[k] = fetches[k]
        /\ Store!Recommends(w) => fetches'["recs"] = Store!Asked("recs", d, w)
        /\ ~Store!Recommends(w) => fetches'["recs"] = Store!Outdated("recs")
        /\ DOMAIN fetches' = Store!Kinds /\ fetches' = [k \in Store!Kinds |-> fetches'[k]]
    BY <1>1, <1>5 DEF Store!Type, Store!Kinds, Store!Things
  <1>7. /\ have'["list"] = have["list"] /\ have'["item"] = have["item"]
        /\ amiss'["item"] = amiss["item"]
        /\ ~Store!Recommends(w) => have'["recs"] = Blank
        /\ have' \in [Store!Things -> Store!Wanted] /\ amiss' \in [Store!Things -> BOOLEAN]
    BY <1>2, <1>5 DEF Store!Type, Store!Things
  <1>8. /\ Store!Asked("list", c, v) \in [Requests -> Store!Fetch]
        /\ \A e \in Requests : Store!FetchIsSound("list", fetches["list"][e])'
        /\ Store!Shows("list")'
    BY <1>3, <1>4, <1>6, AskedIs DEF Store!Things
  <1>9. /\ fetches'["recs"] \in [Requests -> Store!Fetch]
        /\ \A e \in Requests : Store!FetchIsSound("recs", fetches["recs"][e])'
        /\ Store!Shows("recs")'
    <2>1. CASE Store!Recommends(w)
      <3>1. fetches'["recs"] = Store!Asked("recs", d, w) /\ Store!Want'["recs"] = w
        BY <1>4, <1>6, <2>1
      <3>2. "recs" \in Store!Things /\ seats \subseteq seats'
        BY <1>3 DEF Store!Things
      <3>3. QED
        BY <1>2, <3>1, <3>2, AskedIs
    <2>2. CASE ~Store!Recommends(w)
      <3>1. /\ fetches'["recs"] = Store!Outdated("recs") /\ have'["recs"] = Blank
            /\ Store!Want'["recs"] = Blank
        BY <1>4, <1>6, <1>7, <2>2
      <3>2. /\ Store!Outdated("recs") \in [Requests -> Store!Fetch]
            /\ \A e \in Requests : Store!Outdated("recs")[e].old \/ Store!Outdated("recs")[e].pc = "idle"
        BY OutdatedIs, StillIs DEF Store!StoreInv, Store!Kinds, Store!Things
      <3>3. QED
        BY <3>1, <3>2 DEF Store!FetchIsSound, Store!Shows
    <2>3. QED
      BY <2>1, <2>2
  <1>10. Store!Shows("item")'
    BY <1>4, <1>6, <1>7, ShowsKeeps DEF Store!Kinds, Store!Things
  <1>11. ASSUME NEW k \in Store!Kinds, k \notin {"list", "recs"}
         PROVE  \A e \in Requests : Store!FetchIsSound(k, fetches[k][e])'
    BY <1>3, <1>4, <1>6, <1>11, KindKeeps DEF Store!Things, Store!Kinds
  <1>12. fetches' \in [Store!Kinds -> [Requests -> Store!Fetch]]
    BY <1>5, <1>6, <1>8, <1>9 DEF Store!Kinds, Store!Things
  <1>13. Store!TypeOK'
    BY <1>3, <1>7, <1>12 DEF Store!StoreInv, Store!TypeOK
  <1>14. Store!ShownIsWanted'
    BY <1>8, <1>9, <1>10 DEF Store!ShownIsWanted, Store!Things
  <1>15. QED
    BY <1>3, <1>7, <1>8, <1>9, <1>11, <1>13, <1>14 DEF Store!StoreInv, Store!TakenWasSeen, Store!Opens

\* A request ends: what it is about is as wanted, or is marked, or nothing of it changes
\* and the request was an old one.
LEMMA AnswerLands ==
  ASSUME Store!StoreInv, NEW kind \in Store!Kinds, NEW c \in Requests, fetches' = Store!Ended(kind, c),
         UNCHANGED <<face, word, filter, sheet, address, seats, tills, picked>>,
         beheld \subseteq beheld', seat' \in BOOLEAN,
         have' \in [Store!Things -> Store!Wanted], amiss' \in [Store!Things -> BOOLEAN],
         \A k \in Store!Things \ {kind} : have'[k] = have[k] /\ amiss'[k] = amiss[k],
         kind \in Store!Things =>
             \/ have'[kind] = Store!Want[kind] \/ amiss'[kind]
             \/ fetches[kind][c].old /\ have'[kind] = have[kind] /\ amiss'[kind] = amiss[kind],
         have'["item"] # Blank => have'["item"] \in beheld',
         seat' => have'["item"] \in seats
  PROVE  Store!StoreInv'
  <1>1. Store!Want' = Store!Want
    BY DEF Store!Want, Store!query, Store!Recommends
  <1>2. /\ fetches' \in [Store!Kinds -> [Requests -> Store!Fetch]]
        /\ \A k \in Store!Kinds : k # kind => fetches'[k] = fetches[k]
        /\ \A k \in Store!Kinds, d \in Requests : Store!FetchIsSound(k, fetches[k][d])'
        /\ \A d \in Requests : d # c => fetches'[kind][d] = fetches[kind][d]
    BY <1>1, EndedIs
  <1>3. Store!TypeOK'
    BY <1>2 DEF Store!StoreInv, Store!TypeOK
  <1>4. ASSUME NEW k \in Store!Things PROVE Store!Shows(k)'
    <2>1. k \in Store!Kinds /\ Store!Shows(k)
      BY DEF Store!Kinds, Store!StoreInv, Store!ShownIsWanted
    <2>2. CASE k # kind
      BY <1>1, <1>2, <2>1, <2>2, ShowsKeeps
    <2>3. CASE k = kind
      <3>1. CASE have'[k] = Store!Want[k] \/ amiss'[k]
        BY <1>1, <3>1 DEF Store!Shows
      <3>2. CASE fetches[k][c].old /\ have'[k] = have[k] /\ amiss'[k] = amiss[k]
        BY <1>1, <1>2, <2>1, <2>3, <3>2 DEF Store!Shows, Store!Busy
      <3>3. QED
        BY <2>3, <3>1, <3>2
    <2>4. QED
      BY <2>2, <2>3
  <1>5. QED
    BY <1>2, <1>3, <1>4 DEF Store!StoreInv, Store!ShownIsWanted, Store!TakenWasSeen, Store!Opens

\* What is known of a request.
LEMMA FetchHas ==
  ASSUME Store!StoreInv, NEW kind \in Store!Kinds, NEW c \in Requests
  PROVE  /\ fetches[kind][c] \in Store!Fetch
         /\ Store!FetchIsSound(kind, fetches[kind][c])
         /\ have \in [Store!Things -> Store!Wanted] /\ amiss \in [Store!Things -> BOOLEAN]
         /\ have["item"] # Blank => have["item"] \in beheld
         /\ seat => have["item"] \in seats
         /\ seat \in BOOLEAN
  BY DEF Store!StoreInv, Store!TypeOK, Store!TakenWasSeen, Store!Opens

LEMMA AnswerWorks ==
  ASSUME Store!StoreInv, NEW kind \in {"list", "recs"}, NEW c \in Requests,
         Store!Answer(kind, c) \/ Store!NoAnswer(kind, c)
  PROVE  Store!StoreInv'
  <1>1. kind \in Store!Things /\ kind \in Store!Kinds /\ kind # "item" /\ kind # "enroll" /\ "item" \in Store!Things
    BY DEF Store!Things, Store!Kinds
  <1>2. PICK q \in Store!Fetch : q = fetches[kind][c]
    BY <1>1, FetchHas
  <1>3. /\ Store!FetchIsSound(kind, q) /\ have \in [Store!Things -> Store!Wanted]
        /\ amiss \in [Store!Things -> BOOLEAN] /\ (have["item"] # Blank => have["item"] \in beheld)
        /\ (seat => have["item"] \in seats) /\ seat \in BOOLEAN
    BY <1>1, <1>2, FetchHas
  <1>4. q.of \in Store!Wanted /\ Blank \in Store!Wanted /\ q.old \in BOOLEAN
    BY DEF Store!Fetch, Store!Wanted
  <1>5. /\ fetches' = Store!Ended(kind, c) /\ q.pc # "idle"
        /\ UNCHANGED <<face, word, filter, sheet, address, seats, tills, picked, seat, beheld>>
    BY <1>2 DEF Store!Answer, Store!NoAnswer, Store!Busy
  <1>6. \/ have' = [have EXCEPT ![kind] = q.of] /\ amiss' = [amiss EXCEPT ![kind] = q.old]
        \/ have' = [have EXCEPT ![kind] = Blank] /\ amiss' = [amiss EXCEPT ![kind] = TRUE]
    BY <1>2 DEF Store!Answer, Store!NoAnswer
  <1>7. have'[kind] = Store!Want[kind] \/ amiss'[kind]
    <2>1. CASE q.old \/ amiss'[kind]
      BY <1>1, <1>3, <1>6, <2>1
    <2>2. CASE ~q.old /\ ~amiss'[kind]
      <3>1. q.of = Store!Want[kind]
        BY <1>1, <1>3, <1>5, <2>2 DEF Store!FetchIsSound
      <3>2. QED
        BY <1>1, <1>3, <1>6, <2>2, <3>1
    <2>3. QED
      BY <2>1, <2>2
  <1>8. /\ have' \in [Store!Things -> Store!Wanted] /\ amiss' \in [Store!Things -> BOOLEAN]
        /\ \A k \in Store!Things \ {kind} : have'[k] = have[k] /\ amiss'[k] = amiss[k]
    BY <1>1, <1>3, <1>4, <1>6
  <1>9. have'["item"] = have["item"]
    BY <1>1, <1>8
  <1>10. QED
    BY <1>1, <1>3, <1>5, <1>7, <1>8, <1>9, AnswerLands

LEMMA ItemShowWorks ==
  ASSUME Store!StoreInv, NEW c \in Requests, Store!Show(c)
  PROVE  Store!StoreInv'
  <1>1. "item" \in Store!Things /\ "item" \in Store!Kinds
    BY DEF Store!Things, Store!Kinds
  <1>2. PICK q \in Store!Fetch : q = fetches["item"][c]
    BY <1>1, FetchHas
  <1>3. /\ Store!FetchIsSound("item", q) /\ have \in [Store!Things -> Store!Wanted]
        /\ amiss \in [Store!Things -> BOOLEAN]
    BY <1>1, <1>2, FetchHas
  <1>4. q.of \in Store!Wanted /\ q.old \in BOOLEAN /\ q.seat \in BOOLEAN
    BY DEF Store!Fetch
  <1>5. /\ fetches' = Store!Ended("item", c) /\ q.pc = "read"
        /\ UNCHANGED <<face, word, filter, sheet, address, seats, tills, picked>>
        /\ have' = [have EXCEPT !["item"] = q.of] /\ amiss' = [amiss EXCEPT !["item"] = q.old]
        /\ seat' = q.seat /\ beheld' = beheld \cup {q.of}
    BY <1>2 DEF Store!Show
  <1>6. /\ ~q.old => q.of = Store!Want["item"]
        /\ q.seat => q.of \in seats
    BY <1>3, <1>5 DEF Store!FetchIsSound
  <1>7. /\ have' \in [Store!Things -> Store!Wanted] /\ amiss' \in [Store!Things -> BOOLEAN]
        /\ \A k \in Store!Things \ {"item"} : have'[k] = have[k] /\ amiss'[k] = amiss[k]
        /\ have'["item"] = q.of /\ amiss'["item"] = q.old
    BY <1>1, <1>3, <1>4, <1>5
  <1>8. have'["item"] = Store!Want["item"] \/ amiss'["item"]
    BY <1>6, <1>7
  <1>9. QED
    BY <1>1, <1>4, <1>5, <1>6, <1>7, <1>8, AnswerLands

LEMMA NoShowWorks ==
  ASSUME Store!StoreInv, NEW c \in Requests, Store!NoShow(c)
  PROVE  Store!StoreInv'
  <1>1. "item" \in Store!Things /\ "item" \in Store!Kinds
    BY DEF Store!Things, Store!Kinds
  <1>2. PICK q \in Store!Fetch : q = fetches["item"][c]
    BY <1>1, FetchHas
  <1>3. /\ have \in [Store!Things -> Store!Wanted] /\ amiss \in [Store!Things -> BOOLEAN]
        /\ (have["item"] # Blank => have["item"] \in beheld) /\ seat \in BOOLEAN
        /\ (seat => have["item"] \in seats)
    BY <1>1, FetchHas
  <1>4. q.old \in BOOLEAN
    BY DEF Store!Fetch
  <1>5. /\ fetches' = Store!Ended("item", c)
        /\ UNCHANGED <<face, word, filter, sheet, address, have, seat, seats, tills, picked, beheld>>
        /\ amiss' = [amiss EXCEPT !["item"] = amiss["item"] \/ ~q.old]
    BY <1>2 DEF Store!NoShow
  <1>6. amiss' \in [Store!Things -> BOOLEAN]
    BY <1>1, <1>3, <1>4, <1>5
  <1>7. /\ \A k \in Store!Things \ {"item"} : have'[k] = have[k] /\ amiss'[k] = amiss[k]
        /\ amiss'["item"] \/ (q.old /\ amiss'["item"] = amiss["item"])
    <2>1. CASE q.old
      BY <1>1, <1>3, <1>5, <2>1
    <2>2. CASE ~q.old
      BY <1>1, <1>3, <1>5, <2>2
    <2>3. QED
      BY <2>1, <2>2
  <1>8. QED
    BY <1>1, <1>2, <1>3, <1>5, <1>6, <1>7, AnswerLands

LEMMA NoSeatWorks ==
  ASSUME Store!StoreInv, NEW c \in Requests, Store!NoSeat(c)
  PROVE  Store!StoreInv'
  <1>1. "enroll" \in Store!Kinds /\ "enroll" \notin Store!Things
    BY DEF Store!Things, Store!Kinds
  <1>2. QED
    BY <1>1, FetchHas, AnswerLands DEF Store!NoSeat

LEMMA ItemVisitWorks ==
  ASSUME Store!StoreInv, NEW i \in Items, NEW c \in Requests, Store!Visit(i, c)
  PROVE  Store!StoreInv'
  <1>1. i \in Store!Wanted
    BY DEF Store!Wanted
  <1>2. /\ address' = i /\ fetches' = [fetches EXCEPT !["item"] = Store!Asked("item", c, i)]
        /\ UNCHANGED <<face, word, filter, sheet, have, pages, seat, seats, tills, picked, beheld, amiss>>
    BY DEF Store!Visit
  <1>3. /\ Store!Want'["item"] = i /\ Store!Want'["recs"] = Store!Want["recs"]
        /\ Store!Want'["list"] = Store!Want["list"]
    BY <1>2 DEF Store!Want, Store!query, Store!Recommends
  <1>4. fetches \in [Store!Kinds -> [Requests -> Store!Fetch]]
    BY DEF Store!StoreInv, Store!TypeOK
  <1>5. /\ fetches'["item"] = Store!Asked("item", c, i)
        /\ \A k \in Store!Kinds : k # "item" => fetches'[k] = fetches[k]
    BY <1>2, <1>4 DEF Store!Kinds, Store!Things
  <1>6. /\ Store!Asked("item", c, i) \in [Requests -> Store!Fetch]
        /\ \A d \in Requests : Store!FetchIsSound("item", fetches["item"][d])'
        /\ Store!Shows("item")'
    BY <1>1, <1>2, <1>3, <1>5, AskedIs DEF Store!Things
  <1>7. ASSUME NEW k \in Store!Kinds, k # "item"
        PROVE  \A d \in Requests : Store!FetchIsSound(k, fetches[k][d])'
    BY <1>2, <1>3, <1>5, <1>7, KindKeeps DEF Store!Things
  <1>8. Store!Shows("recs")' /\ Store!Shows("list")'
    BY <1>2, <1>3, <1>5, ShowsKeeps DEF Store!Kinds, Store!Things
  <1>9. fetches' \in [Store!Kinds -> [Requests -> Store!Fetch]]
    BY <1>2, <1>4, <1>6
  <1>10. Store!TypeOK'
    BY <1>2, <1>9 DEF Store!StoreInv, Store!TypeOK
  <1>11. Store!ShownIsWanted'
    BY <1>6, <1>8 DEF Store!ShownIsWanted, Store!Things
  <1>12. QED
    BY <1>2, <1>6, <1>7, <1>10, <1>11 DEF Store!StoreInv, Store!TakenWasSeen, Store!Opens

\* A request moves on, about the same thing if it is for something to show.
LEMMA SlotMoves ==
  ASSUME Store!StoreInv, NEW kind \in Store!Kinds, NEW c \in Requests, NEW q \in Store!Fetch,
         fetches' = [fetches EXCEPT ![kind][c] = q],
         UNCHANGED <<face, word, filter, sheet, address, have, seat, tills, picked, beheld, amiss>>,
         seats \subseteq seats', seats' \subseteq beheld,
         Store!FetchIsSound(kind, q),
         kind \in Store!Things => q.pc # "idle" /\ q.of = fetches[kind][c].of /\ q.old = fetches[kind][c].old
  PROVE  Store!StoreInv'
  <1>1. Store!Want' = Store!Want
    BY DEF Store!Want, Store!query, Store!Recommends
  <1>2. fetches \in [Store!Kinds -> [Requests -> Store!Fetch]]
    BY DEF Store!StoreInv, Store!TypeOK
  <1>3. /\ fetches' \in [Store!Kinds -> [Requests -> Store!Fetch]] /\ fetches'[kind][c] = q
        /\ \A k \in Store!Kinds, d \in Requests : k # kind \/ d # c => fetches'[k][d] = fetches[k][d]
        /\ \A k \in Store!Kinds : k # kind => fetches'[k] = fetches[k]
    BY <1>2
  <1>4. Store!TypeOK'
    BY <1>3 DEF Store!StoreInv, Store!TypeOK
  <1>5. ASSUME NEW k \in Store!Kinds, NEW d \in Requests PROVE Store!FetchIsSound(k, fetches[k][d])'
    <2>1. CASE k = kind /\ d = c
      BY <1>1, <1>3, <2>1 DEF Store!FetchIsSound
    <2>2. CASE k # kind \/ d # c
      <3>1. fetches'[k][d] = fetches[k][d] /\ Store!FetchIsSound(k, fetches[k][d])
        BY <1>3, <2>2 DEF Store!StoreInv
      <3>2. QED
        BY <1>1, <3>1 DEF Store!FetchIsSound
    <2>3. QED
      BY <2>1, <2>2
  <1>6. ASSUME NEW k \in Store!Things PROVE Store!Shows(k)'
    <2>1. k \in Store!Kinds /\ Store!Shows(k)
      BY DEF Store!Kinds, Store!StoreInv, Store!ShownIsWanted
    <2>2. CASE k # kind
      BY <1>1, <1>3, <2>1, <2>2, ShowsKeeps
    <2>3. CASE k = kind
      <3>1. \A d \in Requests :
                Store!Busy(k, d) /\ ~fetches[k][d].old /\ fetches[k][d].of = Store!Want[k] =>
                (Store!Busy(k, d) /\ ~fetches[k][d].old /\ fetches[k][d].of = Store!Want[k])'
        BY <1>1, <1>3, <2>1, <2>3 DEF Store!Busy
      <3>2. QED
        BY <1>1, <2>1, <3>1 DEF Store!Shows
    <2>4. QED
      BY <2>2, <2>3
  <1>7. QED
    BY <1>4, <1>5, <1>6 DEF Store!StoreInv, Store!ShownIsWanted, Store!TakenWasSeen, Store!Opens

LEMMA LookWorks ==
  ASSUME Store!StoreInv, NEW c \in Requests, Store!Look(c)
  PROVE  Store!StoreInv'
  <1>1. "item" \in Store!Kinds /\ "item" \in Store!Things
    BY DEF Store!Kinds, Store!Things
  <1>2. fetches["item"][c] \in Store!Fetch /\ Store!FetchIsSound("item", fetches["item"][c])
    BY <1>1, FetchHas
  <1>3. PICK q \in Store!Fetch :
            /\ q = [fetches["item"][c] EXCEPT !.pc = "read", !.seat = fetches["item"][c].of \in seats]
            /\ q.pc = "read" /\ q.of = fetches["item"][c].of /\ q.old = fetches["item"][c].old
            /\ q.seat = (fetches["item"][c].of \in seats)
    <2>1. PICK b \in BOOLEAN : b = (fetches["item"][c].of \in seats)
      <3>1. \E b \in BOOLEAN : b = (fetches["item"][c].of \in seats)
        <4>1. CASE fetches["item"][c].of \in seats
          <5>1. TRUE = (fetches["item"][c].of \in seats)
            BY <4>1, Zenon
          <5>2. QED
            BY <5>1, Zenon
        <4>2. CASE fetches["item"][c].of \notin seats
          <5>1. FALSE = (fetches["item"][c].of \in seats)
            BY <4>2
          <5>2. QED
            BY <5>1, Zenon
        <4>3. QED
          BY <4>1, <4>2
      <3>2. QED
        BY <3>1, Zenon
    <2>2. /\ [fetches["item"][c] EXCEPT !.pc = "read", !.seat = b] \in Store!Fetch
          /\ [fetches["item"][c] EXCEPT !.pc = "read", !.seat = b].pc = "read"
          /\ [fetches["item"][c] EXCEPT !.pc = "read", !.seat = b].of = fetches["item"][c].of
          /\ [fetches["item"][c] EXCEPT !.pc = "read", !.seat = b].old = fetches["item"][c].old
          /\ [fetches["item"][c] EXCEPT !.pc = "read", !.seat = b].seat = b
      BY <1>2 DEF Store!Fetch
    <2>3. [fetches["item"][c] EXCEPT !.pc = "read", !.seat = b]
            = [fetches["item"][c] EXCEPT !.pc = "read", !.seat = fetches["item"][c].of \in seats]
      BY <2>1
    <2>4. QED
      BY <2>1, <2>2, <2>3
  <1>4. /\ fetches["item"][c].pc = "sent" /\ fetches' = [fetches EXCEPT !["item"][c] = q]
        /\ UNCHANGED <<face, word, filter, sheet, address, have, seat, seats, tills, picked, beheld, amiss>>
    BY <1>1, <1>3 DEF Store!Look, Store!StoreInv, Store!TypeOK
  <1>5. Store!FetchIsSound("item", q)
    BY <1>2, <1>3, <1>4 DEF Store!FetchIsSound
  <1>6. seats' \subseteq beheld
    BY <1>4 DEF Store!StoreInv, Store!TakenWasSeen, Store!Opens
  <1>7. QED
    BY <1>1, <1>3, <1>4, <1>5, <1>6, SlotMoves

LEMMA EnrollWorks ==
  ASSUME Store!StoreInv, NEW c \in Requests, Store!Enroll(c)
  PROVE  Store!StoreInv'
  <1>1. "enroll" \in Store!Kinds /\ "enroll" \notin Store!Things /\ "item" \in Store!Things
    BY DEF Store!Kinds, Store!Things
  <1>2. have["item"] \in Store!Wanted /\ have["item"] \in beheld
    BY <1>1, FetchHas DEF Store!Enroll, Store!MayEnroll
  <1>3. PICK q \in Store!Fetch : /\ q = [Store!Still EXCEPT !.pc = "sent", !.of = have["item"]]
                                 /\ q.pc = "sent" /\ q.of = have["item"] /\ ~q.seat /\ ~q.old
    BY <1>2, SentIs
  <1>4. /\ fetches' = [fetches EXCEPT !["enroll"][c] = q]
        /\ UNCHANGED <<face, word, filter, sheet, address, have, seat, seats, tills, picked, beheld, amiss>>
    BY <1>3 DEF Store!Enroll, Store!MayEnroll
  <1>5. Store!FetchIsSound("enroll", q)
    BY <1>2, <1>3 DEF Store!FetchIsSound
  <1>6. seats' \subseteq beheld
    BY <1>4 DEF Store!StoreInv, Store!TakenWasSeen, Store!Opens
  <1>7. QED
    BY <1>1, <1>4, <1>5, <1>6, SlotMoves

LEMMA AdmitWorks ==
  ASSUME Store!StoreInv, NEW c \in Requests, Store!Admit(c)
  PROVE  Store!StoreInv'
  <1>1. "enroll" \in Store!Kinds /\ "enroll" \notin Store!Things
    BY DEF Store!Kinds, Store!Things
  <1>2. fetches["enroll"][c] \in Store!Fetch /\ Store!FetchIsSound("enroll", fetches["enroll"][c])
    BY <1>1, FetchHas
  <1>3. PICK q \in Store!Fetch :
            /\ q = [fetches["enroll"][c] EXCEPT !.pc = IF fetches["enroll"][c].of \in seats THEN "refused" ELSE "read"]
            /\ q.of = fetches["enroll"][c].of
    <2>1. PICK p \in {"refused", "read"} : p = IF fetches["enroll"][c].of \in seats THEN "refused" ELSE "read"
      OBVIOUS
    <2>2. /\ [fetches["enroll"][c] EXCEPT !.pc = p] \in Store!Fetch
          /\ [fetches["enroll"][c] EXCEPT !.pc = p].of = fetches["enroll"][c].of
      BY <1>2 DEF Store!Fetch
    <2>3. QED
      BY <2>1, <2>2
  <1>4. /\ fetches["enroll"][c].pc = "sent" /\ fetches' = [fetches EXCEPT !["enroll"][c] = q]
        /\ seats' = IF q.of \in {i1} THEN seats \cup {q.of} ELSE seats
        /\ UNCHANGED <<face, word, filter, sheet, address, have, seat, tills, picked, beheld, amiss>>
    BY <1>1, <1>3 DEF Store!Admit, Store!StoreInv, Store!TypeOK
  <1>5. q.of \in beheld
    BY <1>2, <1>3, <1>4 DEF Store!FetchIsSound
  <1>6. Store!FetchIsSound("enroll", q)
    BY <1>5 DEF Store!FetchIsSound
  <1>7. seats' \subseteq beheld /\ seats \subseteq seats'
    BY <1>4, <1>5 DEF Store!StoreInv, Store!TakenWasSeen, Store!Opens
  <1>8. QED
    BY <1>1, <1>4, <1>6, <1>7, SlotMoves

\* The page of an item is closed, and with it what was asked for it.
LEMMA CloseWorks ==
  ASSUME Store!StoreInv, Store!Closed,
         UNCHANGED <<face, word, filter, sheet, seats, beheld>>,
         tills' \subseteq beheld, picked' \subseteq beheld,
         fetches' \in [Store!Kinds -> [Requests -> Store!Fetch]],
         \A k \in Store!Kinds, c \in Requests :
             fetches'[k][c] = Store!Still \/ (k # "item" /\ fetches'[k][c] = fetches[k][c]),
         fetches'["list"] = fetches["list"], fetches'["recs"] = fetches["recs"]
  PROVE  Store!StoreInv'
  <1>1. /\ Store!Want'["list"] = Store!Want["list"] /\ Store!Want'["recs"] = Store!Want["recs"]
        /\ Store!Want'["item"] = Blank
    BY DEF Store!Want, Store!query, Store!Recommends, Store!Closed
  <1>2. /\ have \in [Store!Things -> Store!Wanted] /\ amiss \in [Store!Things -> BOOLEAN]
        /\ Blank \in Store!Wanted /\ "item" \in Store!Things
    BY DEF Store!StoreInv, Store!TypeOK, Store!Wanted, Store!Things
  <1>3. /\ have' \in [Store!Things -> Store!Wanted] /\ have'["item"] = Blank
        /\ \A k \in Store!Things \ {"item"} : have'[k] = have[k]
    BY <1>2 DEF Store!Closed
  <1>4. /\ amiss' \in [Store!Things -> BOOLEAN]
        /\ \A k \in Store!Things \ {"item"} : amiss'[k] = amiss[k]
    BY <1>2 DEF Store!Closed
  <1>5. Store!TypeOK'
    BY <1>3, <1>4 DEF Store!StoreInv, Store!TypeOK, Store!Closed
  <1>6. ASSUME NEW k \in Store!Kinds, NEW c \in Requests PROVE Store!FetchIsSound(k, fetches[k][c])'
    <2>1. CASE fetches'[k][c] = Store!Still
      BY <2>1, StillIs DEF Store!FetchIsSound
    <2>2. CASE k # "item" /\ fetches'[k][c] = fetches[k][c]
      <3>1. Store!FetchIsSound(k, fetches[k][c])
        BY DEF Store!StoreInv
      <3>2. k # "enroll" => Store!Want'[k] = Store!Want[k]
        BY <1>1, <2>2 DEF Store!Kinds, Store!Things
      <3>3. QED
        BY <2>2, <3>1, <3>2 DEF Store!FetchIsSound
    <2>3. QED
      BY <2>1, <2>2
  <1>7. Store!Shows("list")' /\ Store!Shows("recs")'
    BY <1>1, <1>3, <1>4, ShowsKeeps DEF Store!Things
  <1>8. Store!Shows("item")'
    BY <1>1, <1>3 DEF Store!Shows
  <1>9. Store!ShownIsWanted'
    BY <1>7, <1>8 DEF Store!ShownIsWanted, Store!Things
  <1>10. Store!TakenWasSeen' /\ (have'["item"] # Blank => have'["item"] \in beheld')
    BY <1>3 DEF Store!StoreInv, Store!TakenWasSeen, Store!Opens, Store!Closed
  <1>11. QED
    BY <1>5, <1>6, <1>9, <1>10 DEF Store!StoreInv

LEMMA ItemLeaveWorks ==
  ASSUME Store!StoreInv, Store!Leave \/ Store!Buy
  PROVE  Store!StoreInv'
  <1>1. /\ Store!Closed /\ UNCHANGED <<face, word, filter, sheet, seats, beheld, tills>>
        /\ fetches' = [fetches EXCEPT !["item"] = [c \in Requests |-> Store!Still]]
        /\ picked' = picked \/ (have["item"] # Blank /\ picked' = picked \cup {have["item"]})
    BY DEF Store!Leave, Store!Buy
  <1>2. PICK q \in Store!Fetch : q = Store!Still
    BY StillIs
  <1>3. /\ fetches \in [Store!Kinds -> [Requests -> Store!Fetch]]
        /\ fetches' = [fetches EXCEPT !["item"] = [c \in Requests |-> q]]
    BY <1>1, <1>2 DEF Store!StoreInv, Store!TypeOK
  <1>4. /\ fetches' \in [Store!Kinds -> [Requests -> Store!Fetch]]
        /\ \A k \in Store!Kinds, c \in Requests :
               fetches'[k][c] = Store!Still \/ (k # "item" /\ fetches'[k][c] = fetches[k][c])
        /\ fetches'["list"] = fetches["list"] /\ fetches'["recs"] = fetches["recs"]
    BY <1>2, <1>3 DEF Store!Kinds, Store!Things
  <1>5. tills' \subseteq beheld /\ picked' \subseteq beheld
    BY <1>1 DEF Store!StoreInv, Store!TakenWasSeen, Store!Opens
  <1>6. QED
    BY <1>1, <1>4, <1>5, CloseWorks

LEMMA DepartWorks ==
  ASSUME Store!StoreInv, NEW c \in Requests, Store!Depart(c)
  PROVE  Store!StoreInv'
  <1>1. "enroll" \in Store!Kinds
    BY DEF Store!Kinds
  <1>2. fetches["enroll"][c].of \in beheld
    BY <1>1, FetchHas DEF Store!Depart, Store!FetchIsSound
  <1>3. PICK q \in Store!Fetch : q = Store!Still
    BY StillIs
  <1>4. /\ Store!Closed /\ UNCHANGED <<face, word, filter, sheet, seats, beheld, picked>>
        /\ fetches' = [fetches EXCEPT !["item"] = [d \in Requests |-> q], !["enroll"][c] = q]
        /\ tills' \subseteq tills \cup {fetches["enroll"][c].of}
    BY <1>3 DEF Store!Depart
  <1>5. fetches \in [Store!Kinds -> [Requests -> Store!Fetch]]
    BY DEF Store!StoreInv, Store!TypeOK
  <1>6. /\ fetches' \in [Store!Kinds -> [Requests -> Store!Fetch]]
        /\ \A k \in Store!Kinds, d \in Requests :
               fetches'[k][d] = Store!Still \/ (k # "item" /\ fetches'[k][d] = fetches[k][d])
        /\ fetches'["list"] = fetches["list"] /\ fetches'["recs"] = fetches["recs"]
    BY <1>3, <1>4, <1>5 DEF Store!Kinds, Store!Things
  <1>7. tills' \subseteq beheld /\ picked' \subseteq beheld
    BY <1>2, <1>4 DEF Store!StoreInv, Store!TakenWasSeen, Store!Opens
  <1>8. QED
    BY <1>4, <1>6, <1>7, CloseWorks

\* Pick, Paid and stuttering change nothing of the pages.
LEMMA RestWorks ==
  ASSUME Store!StoreInv, Store!Pick \/ (\E i \in Items : Store!Paid(i)) \/ UNCHANGED Store!vars
  PROVE  Store!StoreInv'
  <1>1. /\ UNCHANGED <<face, word, filter, sheet, address, have, seat, fetches, beheld, amiss>>
        /\ seats \subseteq seats' /\ picked' \cup tills' \cup seats' \subseteq beheld
    BY DEF Store!Pick, Store!Paid, Store!vars, Store!StoreInv, Store!TakenWasSeen, Store!Opens
  <1>2. Store!Want' = Store!Want
    BY <1>1 DEF Store!Want, Store!query, Store!Recommends
  <1>3. Store!TypeOK'
    BY <1>1 DEF Store!StoreInv, Store!TypeOK
  <1>4. \A k \in Store!Kinds, c \in Requests : Store!FetchIsSound(k, fetches[k][c])'
    BY <1>1, <1>2, KindKeeps
  <1>5. Store!ShownIsWanted'
    BY <1>1, <1>2 DEF Store!StoreInv, Store!ShownIsWanted, Store!Shows, Store!Busy
  <1>6. QED
    BY <1>1, <1>3, <1>4, <1>5 DEF Store!StoreInv, Store!TakenWasSeen, Store!Opens

LEMMA StoreStarts ==
  ASSUME Store!Init
  PROVE  Store!StoreInv
  <1>1. /\ word \in {letter, words} /\ filter \in Filters /\ sheet = 1 /\ address = Blank
        /\ have = [kind \in Store!Things |-> Blank] /\ amiss = [kind \in Store!Things |-> FALSE]
        /\ seat = FALSE /\ tills = {} /\ picked = {} /\ beheld = seats
    BY DEF Store!Init
  <1>2. PICK c \in Requests : fetches = [kind \in Store!Kinds |-> Store!First(kind, c)]
    BY DEF Store!Init
  <1>3. \A kind \in Store!Things : Store!Want[kind] \in Store!Wanted
    BY <1>1 DEF Store!Want, Store!Things, Store!query, Store!Wanted
  <1>4. ASSUME NEW kind \in Store!Kinds, NEW d \in Requests
        PROVE  /\ Store!First(kind, c)[d] \in Store!Fetch
               /\ Store!FetchIsSound(kind, Store!First(kind, c)[d])
    <2>1. CASE d = c /\ kind \in {"list", "recs"} /\ Store!Want[kind] # Blank
      <3>1. kind \in Store!Things
        BY <2>1 DEF Store!Things
      <3>2. PICK q \in Store!Fetch : /\ q = [Store!Still EXCEPT !.pc = "sent", !.of = Store!Want[kind]]
                                     /\ q.pc = "sent" /\ q.of = Store!Want[kind] /\ ~q.seat /\ ~q.old
        BY <1>3, <3>1, SentIs
      <3>3. Store!First(kind, c)[d] = q
        BY <2>1, <3>2 DEF Store!First
      <3>4. QED
        BY <2>1, <3>2, <3>3 DEF Store!FetchIsSound
    <2>2. CASE ~(d = c /\ kind \in {"list", "recs"} /\ Store!Want[kind] # Blank)
      <3>1. Store!First(kind, c)[d] = Store!Still
        BY <2>2 DEF Store!First
      <3>2. QED
        BY <3>1, StillIs DEF Store!FetchIsSound
    <2>3. QED
      BY <2>1, <2>2
  <1>5. fetches \in [Store!Kinds -> [Requests -> Store!Fetch]]
    <2>1. \A kind \in Store!Kinds : Store!First(kind, c) = [d \in Requests |-> Store!First(kind, c)[d]]
      BY DEF Store!First
    <2>2. \A kind \in Store!Kinds : Store!First(kind, c) \in [Requests -> Store!Fetch]
      BY <1>4, <2>1
    <2>3. QED
      BY <1>2, <2>2
  <1>6. Store!TypeOK
    <2>1. Blank \in Store!Wanted
      BY DEF Store!Wanted
    <2>2. have \in [Store!Things -> Store!Wanted]
      BY <1>1, <2>1
    <2>3. amiss \in [Store!Things -> BOOLEAN]
      BY <1>1
    <2>4. sheet \in Int /\ address \in Items \cup {Blank} /\ seat \in BOOLEAN
      <3>1. seat \in BOOLEAN
        BY <1>1, Zenon
      <3>2. QED
        BY <1>1, <3>1
    <2>5. QED
      BY <1>1, <1>5, <2>2, <2>3, <2>4 DEF Store!TypeOK
  <1>7. ASSUME NEW kind \in Store!Things PROVE Store!Shows(kind)
    <2>1. CASE Store!Want[kind] = Blank
      BY <1>1, <2>1 DEF Store!Shows
    <2>2. CASE Store!Want[kind] # Blank
      <3>1. kind \in {"list", "recs"} /\ kind \in Store!Kinds
        BY <1>1, <2>2 DEF Store!Want, Store!Things, Store!Kinds
      <3>2. PICK q \in Store!Fetch : /\ q = [Store!Still EXCEPT !.pc = "sent", !.of = Store!Want[kind]]
                                     /\ q.pc = "sent" /\ q.of = Store!Want[kind] /\ ~q.seat /\ ~q.old
        BY <1>3, SentIs
      <3>3. fetches[kind][c] = q
        BY <1>2, <2>2, <3>1, <3>2 DEF Store!First
      <3>4. QED
        BY <3>2, <3>3 DEF Store!Shows, Store!Busy
    <2>3. QED
      BY <2>1, <2>2
  <1>8. have["item"] = Blank
    BY <1>1 DEF Store!Things
  <1>9. QED
    BY <1>1, <1>2, <1>4, <1>6, <1>7, <1>8 DEF Store!StoreInv, Store!ShownIsWanted, Store!TakenWasSeen, Store!Opens

LEMMA StoreSteps ==
  ASSUME Store!StoreInv, [Store!Next]_(Store!vars)
  PROVE  Store!StoreInv'
  <1>1. ASSUME NEW c \in Requests, NEW w \in {letter, words}, NEW d \in Requests, Store!Type(w, c, d)
        PROVE  Store!StoreInv'
    BY <1>1, TypeWorks
  <1>2. ASSUME NEW c \in Requests,
               \/ \E f \in Filters : Store!Choose(f, c)
               \/ \E n \in {sheet - 1, sheet + 1} : Store!Turn(n, c)
               \/ Store!Search(c)
        PROVE  Store!StoreInv'
    BY <1>2, FilterWorks
  <1>3. ASSUME NEW c \in Requests, NEW kind \in {"list", "recs"}, Store!Answer(kind, c) \/ Store!NoAnswer(kind, c)
        PROVE  Store!StoreInv'
    BY <1>3, AnswerWorks
  <1>4. ASSUME NEW c \in Requests, NEW i \in Items, Store!Visit(i, c)
        PROVE  Store!StoreInv'
    BY <1>4, ItemVisitWorks
  <1>5. ASSUME NEW c \in Requests, Store!Look(c) \/ Store!Show(c) \/ Store!NoShow(c)
        PROVE  Store!StoreInv'
    BY <1>5, LookWorks, ItemShowWorks, NoShowWorks
  <1>6. ASSUME NEW c \in Requests, Store!Enroll(c) \/ Store!Admit(c) \/ Store!Depart(c) \/ Store!NoSeat(c)
        PROVE  Store!StoreInv'
    BY <1>6, EnrollWorks, AdmitWorks, DepartWorks, NoSeatWorks
  <1>7. CASE Store!Leave \/ Store!Buy
    BY <1>7, ItemLeaveWorks
  <1>8. CASE Store!Pick \/ (\E i \in Items : Store!Paid(i)) \/ UNCHANGED Store!vars
    BY <1>8, RestWorks
  <1>9. QED
    BY <1>1, <1>2, <1>3, <1>4, <1>5, <1>6, <1>7, <1>8, Zenon DEF Store!Next

\* The inductive invariant of the pages on which visitors look for things.
THEOREM StorefrontHolds == Store!Spec => []Store!StoreInv
  <1>1. Store!Init => Store!StoreInv
    BY StoreStarts
  <1>2. Store!StoreInv /\ [Store!Next]_(Store!vars) => Store!StoreInv'
    BY StoreSteps
  <1>3. QED
    BY <1>1, <1>2, PTL DEF Store!Spec

\* For any words, filters, items and number of requests in flight: pages show what is
\* wanted of them, while the request for it is in flight, and but for late answers and
\* failures.
THEOREM ShownIsAlwaysWanted == Store!Spec => []ShownIsWanted
  <1>1. Store!StoreInv => ShownIsWanted
    BY DEF Store!StoreInv, ShownIsWanted
  <1>2. QED
    BY <1>1, StorefrontHolds, PTL

\* For any items and orders of answers: a visitor takes only what was on the page, and
\* is offered lessons only with a seat.
THEOREM TakenWasAlwaysSeen == Store!Spec => []TakenWasSeen
  <1>1. Store!StoreInv => TakenWasSeen
    BY DEF Store!StoreInv, TakenWasSeen
  <1>2. QED
    BY <1>1, StorefrontHolds, PTL
=============================================================================
