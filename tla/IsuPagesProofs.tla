--------------------------- MODULE IsuPagesProofs ---------------------------
(* Theorems about the pages of one isu (modules IsuPages, ConditionPage and    *)
(* GraphPage), for pages of any size and days of any length: what the          *)
(* conditions page shows is the group of conditions its page number says, what *)
(* its address describes and what the click on the graph asked for; and the    *)
(* graph page settles on the graph of its date, under its date.                *)
(*                                                                             *)
(* The argument about pages is NextPage: a query that ends at the oldest of a  *)
(* full page has the next page as its answer.  Around it WindowInv says which  *)
(* query belongs to which page: the one on its way, the one in the address     *)
(* and those in the cache; the query state may be that of a later page, but    *)
(* only while the page is in the cache, where next() does not store it.        *)
EXTENDS IsuPages, FiniteSetTheorems, WellFoundedInduction, TLAPS

ConditionType ==
  /\ query \in Query /\ url \in Query /\ asked \in Query
  /\ page \in Nat \ {0}
  /\ shown \in SUBSET Times
  /\ \A p \in DOMAIN cache : cache[p].query \in Query /\ cache[p].conditions \in SUBSET Times
  /\ inFlight \in Seq(Query)
  /\ searched \in Nat

\* q asks for the p-th page of what was asked for, or for less than all of it.
PageQuery(q, p) == q.start = asked.start /\ q.end <= asked.end /\ Answer(q) = Window(asked, p)

\* As long as nothing was searched.
WindowInv ==
  searched = 0 =>
    /\ inFlight = <<>> \/ (inFlight = <<query>> /\ loading)
    /\ query.levels = asked.levels /\ query.start = asked.start /\ query.end <= asked.end
    /\ (page \notin DOMAIN cache \/ inFlight # <<>>) => Answer(query) = Window(asked, page)
    /\ \A p \in DOMAIN cache :
         /\ PageQuery(cache[p].query, p)
         /\ cache[p].conditions = Window(asked, p)
    /\ ~loading => shown = Window(asked, page)

\* The address is that of the page, but for an end that was not taken.
UrlInv ==
  searched = 0 /\ ~tabbed =>
    /\ url.start = asked.start /\ url.end <= asked.end
    /\ url.start < url.end => Answer(url) = Window(asked, page)

\* A click is forgotten when something else is asked for.
ClickInv ==
  /\ clicked.index \in Nat
  /\ clicked.index > 0 /\ ~clicked.outrun =>
       /\ searched = 0 /\ ~tabbed
       /\ asked.start = StartOf(clicked.day)
       /\ asked.end <= StartOf(clicked.day) + clicked.index

ConditionInv == ConditionType /\ PrevHasPage /\ WindowInv /\ UrlInv

GraphRequest == [asked : 1..MaxDay, label : 1..MaxDay, current : BOOLEAN]

GraphType ==
  /\ date \in 1..MaxDay /\ data \in 0..MaxDay /\ day \in 0..MaxDay /\ address \in 0..MaxDay
  /\ data # 0 => day # 0
  /\ pending \in Seq(GraphRequest)

\* The object that is the date state says what the date state says.
CurrentInv == \A k \in DOMAIN pending : pending[k].current => pending[k].label = date

\* The last request is the one for the date on display.
LastInv ==
  ~disorder =>
    /\ pending # <<>> =>
         pending[Len(pending)].current /\ pending[Len(pending)].asked = date
    /\ pending = <<>> /\ data # 0 => data = date /\ day = date

\* A request that is alone keeps the label it was made with.
LabelInv ==
  ~outrun =>
    /\ Len(pending) <= 1 /\ day = data
    /\ \A k \in DOMAIN pending : pending[k].label = pending[k].asked

GraphInv == GraphType /\ CurrentInv /\ LastInv /\ LabelInv

PagesInv ==
  /\ mounted = "graph" => clicked = NoClick /\ ~tabbed
  /\ ConditionInv /\ ClickInv /\ GraphInv

-------------------------------------------------------------------------------
(* Pages. *)

\* A set of natural numbers has a least member.
LEMMA Least ==
  ASSUME NEW S \in SUBSET Nat, S # {}
  PROVE  Min(S) \in S /\ \A x \in S : Min(S) <= x
<1> DEFINE R == OpToRel(<, Nat)
<1>1. PICK m \in S : \A x \in S : ~(<<x, m>> \in R)
  BY NatLessThanWellFounded, WFMin
<1>2. \A x \in S : ~(x < m)
  BY <1>1 DEF OpToRel
<1> HIDE DEF R
<1>3. \A x \in S : m \in Int /\ x \in Int
  OBVIOUS
<1>4. \A x \in S : m <= x
  BY <1>2, <1>3
<1> QED
  BY <1>4 DEF Min

\* How many members of S are newer than t.
Above(S, t) == {u \in S : u > t}
Rank(S, t) == Cardinality(Above(S, t))

\* The conditions of a query are numbered, from the newest.
LEMMA Ranks ==
  ASSUME NEW S \in SUBSET Times
  PROVE  /\ IsFiniteSet(S)
         /\ \A t \in S : IsFiniteSet(Above(S, t)) /\ Rank(S, t) \in Nat
         /\ \A t \in S, u \in S : t < u => Rank(S, u) < Rank(S, t)
<1>1. IsFiniteSet(S)
  <2>1. IsFiniteSet(Times)
    BY FS_Interval, LimitAssumption DEF Times
  <2> QED
    BY <2>1, FS_Subset
<1>2. ASSUME NEW t \in S PROVE IsFiniteSet(Above(S, t)) /\ Rank(S, t) \in Nat
  <2>1. Above(S, t) \in SUBSET S
    BY DEF Above
  <2> QED
    BY <1>1, <2>1, FS_Subset, FS_CardinalityType DEF Rank
<1>3. ASSUME NEW t \in S, NEW u \in S, t < u PROVE Rank(S, u) < Rank(S, t)
  <2>1. \A x \in S : x \in Nat
    BY DEF Times
  <2>2. u \notin Above(S, u) /\ Above(S, u) \cup {u} \in SUBSET Above(S, t)
    BY <1>3, <2>1 DEF Above
  <2>3. Cardinality(Above(S, u) \cup {u}) = Cardinality(Above(S, u)) + 1
    BY <1>2, <2>2, FS_AddElement
  <2>4. Cardinality(Above(S, u) \cup {u}) <= Cardinality(Above(S, t))
    BY <1>2, <2>2, FS_Subset
  <2>5. Rank(S, u) \in Nat /\ Rank(S, t) \in Nat
    BY <1>2
  <2> QED
    BY <2>3, <2>4, <2>5 DEF Rank
<1> QED
  BY <1>1, <1>2, <1>3

\* The oldest of a full group has the last number of the group.
LEMMA OldestRank ==
  ASSUME NEW S \in SUBSET Times, NEW a \in Nat, NEW W,
         W = {t \in S : Rank(S, t) \in a..(a + Limit - 1)}, Cardinality(W) = Limit,
         NEW m \in W, \A t \in W : m <= t
  PROVE  Rank(S, m) = a + Limit - 1
<1>1. W \in SUBSET S /\ m \in S /\ \A t \in W : t \in Nat
  BY DEF Times
<1>2. \A t \in W : Rank(S, t) \in Nat /\ a <= Rank(S, t) /\ Rank(S, t) <= a + Limit - 1
  BY <1>1, Ranks, LimitAssumption
<1>3. \A t \in W : Rank(S, t) <= Rank(S, m)
  <2> SUFFICES ASSUME NEW t \in W PROVE Rank(S, t) <= Rank(S, m)
    OBVIOUS
  <2>1. CASE t = m
    BY <1>2, <2>1
  <2>2. CASE m < t
    <3>1. Rank(S, t) < Rank(S, m)
      BY <1>1, <2>2, Ranks
    <3> QED
      BY <1>2, <3>1
  <2> QED
    BY <1>1, <2>1, <2>2
<1> DEFINE f == [t \in W |-> Rank(S, t)]
           T == a..Rank(S, m)
<1>4. f \in Injection(W, T)
  <2>1. f \in [W -> T]
    BY <1>2, <1>3
  <2>2. ASSUME NEW t \in W, NEW u \in W, f[t] = f[u] PROVE t = u
    <3>1. Rank(S, t) = Rank(S, u) /\ Rank(S, t) \in Nat /\ t \in S /\ u \in S
      BY <1>1, <1>2, <2>2
    <3>2. \A x \in S, y \in S : x < y => Rank(S, y) < Rank(S, x)
      BY Ranks
    <3>3. ~(t < u) /\ ~(u < t)
      BY <3>1, <3>2
    <3> QED
      BY <1>1, <3>3
  <2> QED
    BY <2>1, <2>2 DEF Injection, IsInjective
<1>5. IsFiniteSet(T) /\ Cardinality(T) = Rank(S, m) - a + 1
  BY <1>2, FS_Interval
<1>6. Cardinality(W) <= Cardinality(T)
  <2> HIDE DEF f, T
  <2> QED
    BY <1>4, <1>5, FS_Injection
<1> HIDE DEF f, T
<1> QED
  BY <1>2, <1>5, <1>6, LimitAssumption

\* What is older than m is numbered anew when m ends the query.
LEMMA RanksBefore ==
  ASSUME NEW S \in SUBSET Times, NEW m \in S, NEW t \in S, t < m,
         NEW B, B = {u \in S : u < m}
  PROVE  Rank(S, t) = Rank(B, t) + Rank(S, m) + 1 /\ Rank(B, t) \in Nat /\ Rank(S, m) \in Nat
<1> DEFINE C == Above(S, m) \cup {m}
<1>1. \A x \in S : x \in Nat
  BY DEF Times
<1>2. Above(S, t) = Above(B, t) \cup C /\ Above(B, t) \cap C = {} /\ m \notin Above(S, m)
  BY <1>1 DEF Above
<1>3. IsFiniteSet(Above(B, t)) /\ IsFiniteSet(C) /\ Rank(B, t) \in Nat /\ Rank(S, m) \in Nat
  <2>1. B \in SUBSET Times /\ t \in B
    OBVIOUS
  <2> QED
    BY <2>1, Ranks, FS_AddElement
<1>4. Cardinality(C) = Rank(S, m) + 1
  BY <1>2, Ranks, FS_AddElement DEF Rank
<1>5. Rank(S, t) = Rank(B, t) + Cardinality(C) - 0
  <2> HIDE DEF C
  <2> QED
    BY <1>2, <1>3, FS_Union, FS_EmptySet DEF Rank
<1> HIDE DEF C
<1> QED
  BY <1>3, <1>4, <1>5

LEMMA WindowRanks ==
  ASSUME NEW q \in Query, NEW p \in Nat \ {0}
  PROVE  /\ Matching(q) \in SUBSET Times
         /\ Window(q, p) = {t \in Matching(q) :
                              Rank(Matching(q), t) \in ((p - 1) * Limit)..((p - 1) * Limit + Limit - 1)}
         /\ (p - 1) * Limit \in Nat
<1>1. (p - 1) * Limit + Limit = p * Limit /\ (p - 1) * Limit \in Nat
  <2>1. p - 1 \in Nat /\ Limit \in Nat
    BY LimitAssumption
  <2>2. (p - 1) * Limit \in Nat
    BY <2>1
  <2>3. ((p - 1) + 1) * Limit = (p - 1) * Limit + Limit
    BY <2>1
  <2> QED
    BY <2>2, <2>3
<1>2. Matching(q) \in SUBSET Times
  BY DEF Matching
<1>3. Window(q, p) = {t \in Matching(q) : Rank(Matching(q), t) \in ((p - 1) * Limit)..(p * Limit - 1)}
  BY DEF Window, Rank, Above
<1>4. (p - 1) * Limit + Limit - 1 = p * Limit - 1
  BY <1>1, LimitAssumption
<1> QED
  BY <1>1, <1>2, <1>3, <1>4

\* A full page has an oldest condition.
LEMMA FullPage ==
  ASSUME NEW W \in SUBSET Times, Cardinality(W) = Limit
  PROVE  Min(W) \in W /\ \A t \in W : Min(W) <= t
<1>1. W # {}
  BY FS_EmptySet, LimitAssumption
<1>2. W \in SUBSET Nat
  BY DEF Times
<1> QED
  BY <1>1, <1>2, Least

\* The query that ends at the oldest condition of a full page is answered by
\* the next page.
LEMMA NextPage ==
  ASSUME NEW q \in Query, NEW p \in Nat \ {0}, Cardinality(Window(q, p)) = Limit,
         NEW r \in Query, r.levels = q.levels, r.start = q.start,
         r.end = Min(Window(q, p))
  PROVE  r.end <= q.end /\ Answer(r) = Window(q, p + 1)
<1> DEFINE S == Matching(q)
           B == Matching(r)
           W == Window(q, p)
           K == (p - 1) * Limit
           m == Min(W)
<1>1. /\ S \in SUBSET Times /\ K \in Nat
      /\ W = {t \in S : Rank(S, t) \in K..(K + Limit - 1)}
  BY WindowRanks
<1>2. m \in W /\ m \in S /\ \A t \in W : m <= t
  BY <1>1, FullPage
<1>3. m < q.end /\ m \in Nat /\ q.end \in Nat /\ \A t \in S : t \in Nat
  BY <1>2, LimitAssumption DEF Matching, Query, Times
<1>4. B = {t \in S : t < m}
  BY <1>3, LimitAssumption DEF Matching, Times, Query
<1>5. Answer(r) = {t \in B : Rank(B, t) \in 0..(Limit - 1)}
  <2>1. (1 - 1) * Limit = 0 /\ 0 + Limit - 1 = Limit - 1
    BY LimitAssumption
  <2>2. Window(r, 1) = {t \in B : Rank(B, t) \in ((1 - 1) * Limit)..((1 - 1) * Limit + Limit - 1)}
    BY WindowRanks
  <2> QED
    BY <2>1, <2>2 DEF Answer
<1>6. Window(q, p + 1) = {t \in S : Rank(S, t) \in (K + Limit)..(K + Limit + Limit - 1)}
  <2>1. ((p + 1) - 1) * Limit = K + Limit
    <3>1. p - 1 \in Nat /\ Limit \in Nat
      BY LimitAssumption
    <3>2. ((p - 1) + 1) * Limit = K + Limit
      BY <3>1
    <3> QED
      BY <3>2
  <2>2. p + 1 \in Nat \ {0}
    OBVIOUS
  <2>3. Window(q, p + 1) = {t \in S : Rank(S, t) \in (((p + 1) - 1) * Limit)
                                                     ..(((p + 1) - 1) * Limit + Limit - 1)}
    BY <2>2, WindowRanks
  <2> QED
    BY <2>1, <2>3
<1> HIDE DEF S, B, W, K, m
<1>7. Rank(S, m) = K + Limit - 1
  <2>1. Cardinality(W) = Limit
    BY DEF W
  <2> QED
    BY <1>1, <1>2, <2>1, OldestRank
<1>8. ASSUME NEW t \in S, t < m
      PROVE  Rank(B, t) \in 0..(Limit - 1) <=> Rank(S, t) \in (K + Limit)..(K + Limit + Limit - 1)
  <2>1. Rank(S, t) = Rank(B, t) + Rank(S, m) + 1 /\ Rank(B, t) \in Nat
    BY <1>1, <1>2, <1>4, <1>8, RanksBefore
  <2> QED
    BY <1>1, <1>7, <2>1, LimitAssumption
<1>9. ASSUME NEW t \in S, ~(t < m)
      PROVE  Rank(S, t) \notin (K + Limit)..(K + Limit + Limit - 1)
  <2>1. Rank(S, t) <= Rank(S, m) /\ Rank(S, t) \in Nat
    <3>1. CASE t = m
      BY <1>1, <1>7, <3>1, LimitAssumption
    <3>2. CASE m < t
      <4>1. Rank(S, t) < Rank(S, m) /\ Rank(S, t) \in Nat
        BY <1>1, <1>2, <3>2, Ranks
      <4> QED
        BY <1>1, <1>7, <4>1, LimitAssumption
    <3> QED
      BY <1>3, <1>9, <3>1, <3>2
  <2> QED
    BY <1>1, <1>7, <2>1, LimitAssumption
<1>10. Answer(r) = Window(q, p + 1)
  BY <1>4, <1>5, <1>6, <1>8, <1>9
<1> QED
  BY <1>3, <1>10 DEF m, W

-------------------------------------------------------------------------------
(* The conditions page. *)

LEMMA RemoveAtFacts ==
  ASSUME NEW T, NEW s \in Seq(T), NEW i \in 1..Len(s)
  PROVE  /\ RemoveAt(s, i) \in Seq(T)
         /\ Len(RemoveAt(s, i)) = Len(s) - 1
         /\ \A k \in 1..(Len(s) - 1) :
              RemoveAt(s, i)[k] = IF k < i THEN s[k] ELSE s[k + 1]
<1> DEFINE a == SubSeq(s, 1, i - 1)
           b == SubSeq(s, i + 1, Len(s))
<1>1. /\ a \in Seq(T) /\ Len(a) = i - 1
      /\ \A k \in 1..(i - 1) : a[k] = s[k]
  OBVIOUS
<1>2. /\ b \in Seq(T) /\ Len(b) = Len(s) - i
      /\ \A k \in 1..(Len(s) - i) : b[k] = s[i + k]
  OBVIOUS
<1>3. RemoveAt(s, i) = a \o b /\ Len(s) \in Nat
  BY DEF RemoveAt
<1> HIDE DEF a, b
<1>4. RemoveAt(s, i) \in Seq(T) /\ Len(RemoveAt(s, i)) = Len(s) - 1
  BY <1>1, <1>2, <1>3
<1>5. ASSUME NEW k \in 1..(Len(s) - 1)
      PROVE  RemoveAt(s, i)[k] = IF k < i THEN s[k] ELSE s[k + 1]
  <2>1. CASE k < i
    BY <1>1, <1>2, <1>3, <2>1
  <2>2. CASE ~(k < i)
    <3>1. k - (i - 1) \in 1..(Len(s) - i) /\ i + (k - (i - 1)) = k + 1
      BY <1>3, <2>2
    <3>2. RemoveAt(s, i)[k] = b[k - (i - 1)]
      BY <1>1, <1>2, <1>3, <2>2
    <3> QED
      BY <1>2, <2>2, <3>1, <3>2
  <2> QED
    BY <2>1, <2>2
<1> QED
  BY <1>4, <1>5

LEMMA OpenedQuery ==
  ASSUME NEW q \in Query
  PROVE  /\ Opened(q) \in Query /\ Opened(q).start = q.start /\ q.end <= Opened(q).end
         /\ q.start < q.end => Opened(q) = q
BY LimitAssumption DEF Opened, Query

LEMMA NoQueryType == NoQuery \in Query
BY LimitAssumption DEF NoQuery, Query

\* A page that is opened has asked for its own first page.
LEMMA MountStep ==
  ASSUME NEW q \in Query, Mount(q), ~tabbed'
  PROVE  ConditionInv'
<1>1. /\ url' = q /\ query' = Opened(q) /\ asked' = Opened(q) /\ page' = 1 /\ shown' = {}
      /\ cache' = [p \in {} |-> <<>>] /\ DOMAIN cache' = {}
      /\ inFlight' = <<Opened(q)>> /\ loading' /\ searched' = 0
  BY DEF Mount
<1>2. /\ Opened(q) \in Query /\ Opened(q).start = q.start /\ q.end <= Opened(q).end
      /\ Opened(q).end \in Nat
      /\ q.start < q.end => Opened(q) = q
  BY OpenedQuery, LimitAssumption DEF Query
<1>3. ConditionType'
  BY <1>1, <1>2 DEF ConditionType
<1>4. PrevHasPage'
  BY <1>1 DEF PrevHasPage
<1>5. WindowInv'
  BY <1>1, <1>2 DEF WindowInv, Answer
<1>6. UrlInv'
  BY <1>1, <1>2 DEF UrlInv, Answer
<1> QED
  BY <1>3, <1>4, <1>5, <1>6 DEF ConditionInv

LEMMA LeaveStep ==
  ASSUME Leave, ~tabbed'
  PROVE  ConditionInv'
<1>1. /\ url' = NoQuery /\ query' = NoQuery /\ asked' = NoQuery /\ page' = 1 /\ shown' = {}
      /\ cache' = [p \in {} |-> <<>>] /\ DOMAIN cache' = {}
      /\ inFlight' = <<>> /\ loading' /\ searched' = 0
  BY DEF Leave
<1>2. NoQuery \in Query /\ NoQuery.end \in Nat
  BY NoQueryType, LimitAssumption DEF Query
<1>3. ConditionType'
  BY <1>1, <1>2 DEF ConditionType
<1>4. PrevHasPage'
  BY <1>1 DEF PrevHasPage
<1>5. WindowInv' /\ UrlInv'
  BY <1>1, <1>2 DEF WindowInv, UrlInv, Answer
<1> QED
  BY <1>3, <1>4, <1>5 DEF ConditionInv

\* After a search nothing is promised but the pages before this one.
LEMMA SearchStep ==
  ASSUME ConditionInv, NEW q \in Searches, Search(q)
  PROVE  ConditionInv'
<1>1. q \in Query
  BY SearchesAssumption
<1>2. /\ url' = q /\ query' = q /\ asked' = q /\ page' = 1 /\ shown' = shown
      /\ cache' = [p \in {1} |-> [query |-> q, conditions |-> shown]]
      /\ inFlight' = Append(inFlight, q) /\ searched' = searched + 1
  BY DEF Search, SearchCache, Request
<1>3. ConditionType'
  BY <1>1, <1>2 DEF ConditionInv, ConditionType
<1>4. PrevHasPage'
  BY <1>2 DEF PrevHasPage
<1>5. searched' # 0
  BY <1>2 DEF ConditionInv, ConditionType
<1> QED
  BY <1>3, <1>4, <1>5 DEF ConditionInv, WindowInv, UrlInv

\* Prev displays what the cache has kept.
LEMMA PrevStep ==
  ASSUME ConditionInv, PressPrev
  PROVE  ConditionInv'
<1> USE DEF ConditionInv
<1> DEFINE kept == cache[page - 1]
<1>1. /\ ~loading /\ page > 1 /\ page \in Nat
      /\ url' = kept.query /\ shown' = kept.conditions /\ page' = page - 1
      /\ UNCHANGED <<query, cache, inFlight, loading, asked, searched>>
  BY DEF PressPrev, ConditionType
<1>2. page - 1 \in DOMAIN cache
  BY <1>1 DEF PrevHasPage
<1>3. kept.query \in Query /\ kept.conditions \in SUBSET Times
  BY <1>2 DEF ConditionType
<1>4. ConditionType'
  BY <1>1, <1>3 DEF ConditionType
<1>5. PrevHasPage'
  BY <1>1 DEF PrevHasPage
<1>6. searched = 0 => PageQuery(kept.query, page - 1) /\ kept.conditions = Window(asked, page - 1)
  BY <1>2 DEF WindowInv
<1> HIDE DEF kept
<1>7. WindowInv'
  BY <1>1, <1>2, <1>6 DEF WindowInv, PageQuery
<1>8. UrlInv'
  BY <1>1, <1>6 DEF UrlInv, PageQuery
<1> QED
  BY <1>4, <1>5, <1>7, <1>8

\* Next asks for what is older than a full page, and keeps that page.
LEMMA NextStep ==
  ASSUME ConditionInv, PressNext
  PROVE  ConditionInv'
<1> USE DEF ConditionInv
<1> DEFINE r == NextQuery
<1>1. /\ ~loading /\ Cardinality(shown) = Limit
      /\ url' = r /\ query' = r /\ page' = page + 1 /\ cache' = KeepPage
      /\ inFlight' = Append(inFlight, r) /\ loading'
      /\ UNCHANGED <<shown, asked, searched>>
  BY DEF PressNext, Request
<1>2. page \in Nat \ {0} /\ shown \in SUBSET Times /\ query \in Query /\ asked \in Query
  BY DEF ConditionType
<1>3. Min(shown) \in shown /\ Min(shown) \in Times
  BY <1>1, <1>2, FullPage
<1>4. r \in Query /\ r.levels = query.levels /\ r.start = query.start /\ r.end = Min(shown)
  <2>1. r = [query EXCEPT !.end = Min(shown)]
    BY DEF NextQuery
  <2>2. Min(shown) \in 1..(MaxTime + 1)
    BY <1>3, LimitAssumption DEF Times
  <2> HIDE DEF r
  <2> QED
    BY <1>2, <2>1, <2>2 DEF Query
<1>5. /\ DOMAIN cache' = DOMAIN cache \cup {page}
      /\ \A p \in DOMAIN cache : cache'[p] = cache[p]
      /\ page \notin DOMAIN cache => cache'[page] = [query |-> query, conditions |-> shown]
  BY <1>1 DEF KeepPage
<1> HIDE DEF r
<1>6. ConditionType'
  BY <1>1, <1>2, <1>4, <1>5 DEF ConditionType
<1>7. PrevHasPage'
  BY <1>1, <1>2, <1>5 DEF PrevHasPage
<1>8. ASSUME searched = 0
      PROVE  /\ inFlight = <<>>
             /\ shown = Window(asked, page)
             /\ r.levels = asked.levels /\ PageQuery(r, page + 1)
             /\ page \notin DOMAIN cache => PageQuery(query, page)
  <2>1. inFlight = <<>> /\ shown = Window(asked, page)
    BY <1>1, <1>8 DEF WindowInv
  <2>2. r.levels = asked.levels /\ r.start = asked.start
    BY <1>4, <1>8 DEF WindowInv
  <2>3. r.end <= asked.end /\ Answer(r) = Window(asked, page + 1)
    BY <1>1, <1>2, <1>4, <2>1, <2>2, NextPage
  <2>4. page \notin DOMAIN cache => PageQuery(query, page)
    BY <1>8 DEF WindowInv, PageQuery
  <2> QED
    BY <2>1, <2>2, <2>3, <2>4 DEF PageQuery
<1>9. WindowInv'
  <2> SUFFICES ASSUME searched = 0 PROVE WindowInv'
    BY <1>1 DEF WindowInv
  <2>1. inFlight' = <<r>>
    BY <1>1, <1>8
  <2>2. ASSUME NEW p \in DOMAIN cache'
        PROVE  PageQuery(cache'[p].query, p) /\ cache'[p].conditions = Window(asked, p)
    <3>1. CASE p \in DOMAIN cache
      BY <1>5, <3>1 DEF WindowInv
    <3>2. CASE p \notin DOMAIN cache
      BY <1>5, <1>8, <2>2, <3>2
    <3> QED
      BY <3>1, <3>2
  <2> QED
    BY <1>1, <1>8, <2>1, <2>2 DEF WindowInv, PageQuery
<1>10. UrlInv'
  BY <1>1, <1>8 DEF UrlInv, PageQuery
<1> QED
  BY <1>6, <1>7, <1>9, <1>10

\* An answer that comes is that of the query, or it is lost.
LEMMA ArrivalStep ==
  ASSUME ConditionInv, Arrival, tabbed' = tabbed
  PROVE  ConditionInv'
<1> USE DEF ConditionInv
<1>1. PICK i \in DOMAIN inFlight : Answered(i) \/ AnswerLost(i)
  BY DEF Arrival
<1>2. /\ inFlight' = RemoveAt(inFlight, i)
      /\ UNCHANGED <<query, page, cache, url, asked, searched>>
      /\ \/ shown' = Answer(inFlight[i]) /\ ~loading'
         \/ UNCHANGED <<shown, loading>>
  BY <1>1 DEF Answered, AnswerLost
<1>3. inFlight \in Seq(Query) /\ i \in 1..Len(inFlight) /\ inFlight' \in Seq(Query)
      /\ Len(inFlight') = Len(inFlight) - 1
  <2>1. inFlight \in Seq(Query) /\ i \in 1..Len(inFlight)
    BY DEF ConditionType
  <2> QED
    BY <1>2, <2>1, RemoveAtFacts
<1>4. Answer(inFlight[i]) \in SUBSET Times
  BY DEF Answer, Window, Matching
<1>5. ConditionType'
  BY <1>2, <1>3, <1>4 DEF ConditionType
<1>6. PrevHasPage' /\ UrlInv'
  BY <1>2 DEF PrevHasPage, UrlInv
<1>7. ASSUME searched = 0
      PROVE  inFlight[i] = query /\ loading /\ inFlight' = <<>>
             /\ Answer(query) = Window(asked, page)
  <2>1. inFlight # <<>>
    BY <1>3
  <2>2. inFlight = <<query>> /\ loading /\ Answer(query) = Window(asked, page)
    BY <1>7, <2>1 DEF WindowInv
  <2>3. i = 1 /\ Len(inFlight') = 0
    BY <1>3, <2>2
  <2> QED
    BY <1>3, <2>2, <2>3
<1>8. WindowInv'
  BY <1>2, <1>7 DEF WindowInv, PageQuery
<1> QED
  BY <1>5, <1>6, <1>8

-------------------------------------------------------------------------------
(* The graph page. *)

LEMMA GraphOpenStep ==
  ASSUME NEW datetime \in 0..MaxDay, G!Open(datetime)
  PROVE  GraphInv'
<1> DEFINE d == IF datetime = 0 THEN Today ELSE datetime
           first == [asked |-> d, label |-> d, current |-> TRUE]
<1>1. d \in 1..MaxDay
  BY DaysAssumption
<1>2. /\ date' = d /\ pending' = <<first>> /\ data' = 0 /\ day' = 0 /\ address' = datetime
      /\ ~outrun' /\ ~disorder'
  BY DEF G!Open
<1>3. first \in GraphRequest /\ first.current /\ first.label = d /\ first.asked = d
  BY <1>1 DEF GraphRequest
<1> HIDE DEF d, first
<1>4. GraphType'
  BY <1>1, <1>2, <1>3, DaysAssumption DEF GraphType
<1>5. CurrentInv' /\ LastInv' /\ LabelInv'
  BY <1>2, <1>3 DEF CurrentInv, LastInv, LabelInv
<1> QED
  BY <1>4, <1>5 DEF GraphInv

LEMMA GraphLeaveStep == ASSUME G!Leave PROVE GraphInv'
<1>1. date' = Today /\ pending' = <<>> /\ data' = 0 /\ day' = 0 /\ address' = 0
  BY DEF G!Leave
<1> QED
  BY <1>1, DaysAssumption DEF GraphInv, GraphType, CurrentInv, LastInv, LabelInv

\* The request that is added is current and no other is.
LEMMA FetchStep ==
  ASSUME GraphInv, NEW d \in 1..MaxDay, NEW step \in Int, date' = d, address' = date,
         \A k \in DOMAIN pending : pending[k].current => pending[k].label + step \in 1..MaxDay,
         G!Fetch(d, step), UNCHANGED <<data, day, disorder>>
  PROVE  GraphInv'
<1> USE DEF GraphInv
<1> DEFINE n == Len(pending)
           new == [asked |-> d, label |-> d, current |-> TRUE]
           older == [k \in DOMAIN pending |-> [G!Moved(step)[k] EXCEPT !.current = FALSE]]
<1>1. pending' = Append(older, new) /\ outrun' = (outrun \/ pending # <<>>)
  BY DEF G!Fetch
<1>2. n \in Nat /\ DOMAIN pending = 1..n /\ \A k \in 1..n : pending[k] \in GraphRequest
  BY DEF GraphType
<1>3. ASSUME NEW k \in 1..n PROVE older[k] \in GraphRequest /\ older[k].current = FALSE
  <2> DEFINE label == IF pending[k].current THEN pending[k].label + step ELSE pending[k].label
  <2>1. older[k] = [[pending[k] EXCEPT !.label = label] EXCEPT !.current = FALSE]
    BY <1>2 DEF G!Moved
  <2>2. label \in 1..MaxDay /\ pending[k] \in GraphRequest
    BY <1>2 DEF GraphRequest
  <2> HIDE DEF label, older
  <2> QED
    BY <2>1, <2>2 DEF GraphRequest
<1>4. new \in GraphRequest /\ new.current /\ new.label = d /\ new.asked = d
  BY DEF GraphRequest
<1>5. older \in Seq(GraphRequest) /\ Len(older) = n
  <2>1. older \in [1..n -> GraphRequest]
    BY <1>2, <1>3
  <2> HIDE DEF older
  <2> QED
    BY <1>2, <2>1
<1> HIDE DEF older, new
<1>6. /\ pending' \in Seq(GraphRequest) /\ Len(pending') = n + 1 /\ pending'[n + 1] = new
      /\ \A k \in 1..n : pending'[k] = older[k]
  BY <1>1, <1>2, <1>4, <1>5
<1>7. GraphType'
  BY <1>6 DEF GraphType
<1>8. CurrentInv'
  <2> SUFFICES ASSUME NEW k \in DOMAIN pending', pending'[k].current
               PROVE  pending'[k].label = d
    BY DEF CurrentInv
  <2>1. k \in 1..(n + 1)
    BY <1>6
  <2>2. k \notin 1..n
    BY <1>3, <1>6
  <2>3. k = n + 1
    BY <1>2, <2>1, <2>2
  <2> QED
    BY <1>4, <1>6, <2>3
<1>9. LastInv'
  BY <1>2, <1>4, <1>6 DEF LastInv
<1>10. LabelInv'
  <2> SUFFICES ASSUME ~outrun, pending = <<>> PROVE LabelInv'
    BY <1>1 DEF LabelInv
  <2>1. n = 0
    OBVIOUS
  <2> QED
    BY <1>2, <1>4, <1>6, <2>1 DEF LabelInv
<1> QED
  BY <1>7, <1>8, <1>9, <1>10

\* An answer that comes in order leaves the last request the last; a lone one
\* brings its own label.
LEMMA GraphArrivalStep ==
  ASSUME GraphInv, NEW k \in DOMAIN pending, G!Answered(k) \/ G!AnswerLost(k)
  PROVE  GraphInv'
<1> USE DEF GraphInv
<1> DEFINE n == Len(pending)
<1>1. /\ pending' = RemoveAt(pending, k) /\ UNCHANGED <<date, address, outrun>>
      /\ \/ /\ data' = pending[k].asked /\ day' = pending[k].label
            /\ ~disorder' => ~disorder /\ k = 1
         \/ UNCHANGED <<data, day>> /\ disorder'
  BY DEF G!Answered, G!AnswerLost, G!RemoveAt, RemoveAt
<1>2. n \in Nat /\ k \in 1..n /\ \A j \in 1..n : pending[j] \in GraphRequest
  BY DEF GraphType
<1>3. /\ pending' \in Seq(GraphRequest) /\ Len(pending') = n - 1
      /\ \A j \in 1..(n - 1) : pending'[j] = IF j < k THEN pending[j] ELSE pending[j + 1]
  BY <1>1, <1>2, RemoveAtFacts DEF GraphType
<1>4. pending[k].asked \in 1..MaxDay /\ pending[k].label \in 1..MaxDay
  BY <1>2 DEF GraphRequest
<1>5. GraphType'
  BY <1>1, <1>3, <1>4 DEF GraphType
<1>6. \A j \in 1..(n - 1) : \E i \in 1..n : pending'[j] = pending[i]
  BY <1>2, <1>3
<1>7. CurrentInv'
  BY <1>1, <1>2, <1>3, <1>6 DEF CurrentInv
<1>8. LastInv'
  <2> SUFFICES ASSUME ~disorder' PROVE LastInv'
    BY DEF LastInv
  <2>1. ~disorder /\ k = 1 /\ data' = pending[1].asked /\ day' = pending[1].label
    BY <1>1
  <2>2. pending[n].current /\ pending[n].asked = date
    BY <1>2, <2>1 DEF LastInv
  <2>3. pending[n].label = date
    BY <1>2, <2>2 DEF CurrentInv
  <2>4. CASE n = 1
    <3>1. pending' = <<>>
      BY <1>3, <2>4
    <3> QED
      BY <1>1, <2>1, <2>2, <2>3, <2>4, <3>1 DEF LastInv
  <2>5. CASE n # 1
    <3>1. n - 1 \in 1..(n - 1) /\ (n - 1) + 1 = n /\ ~(n - 1 < k)
      <4> HIDE DEF n
      <4> QED
        BY <1>2, <2>1, <2>5
    <3>2. pending'[Len(pending')] = pending[n]
      BY <1>3, <3>1
    <3>3. pending' # <<>>
      BY <1>3, <3>1
    <3> QED
      BY <1>1, <2>2, <3>2, <3>3 DEF LastInv
  <2> QED
    BY <2>4, <2>5
<1>9. LabelInv'
  <2> SUFFICES ASSUME ~outrun PROVE LabelInv'
    BY <1>1 DEF LabelInv
  <2>1. n = 1 /\ k = 1 /\ pending[1].label = pending[1].asked /\ day = data
    BY <1>2 DEF LabelInv
  <2>2. Len(pending') = 0 /\ day' = data'
    BY <1>1, <1>3, <2>1
  <2> QED
    BY <1>3, <2>2 DEF LabelInv
<1> QED
  BY <1>5, <1>7, <1>8, <1>9

LEMMA GraphSteps ==
  ASSUME GraphInv, G!Next
  PROVE  GraphInv'
<1> USE DEF GraphInv
<1>1. ASSUME NEW step \in {-1, 1}, G!Turn(step) PROVE GraphInv'
  <2>1. date + step \in 1..MaxDay /\ step \in Int
    BY <1>1 DEF G!Turn, G!Days
  <2>2. \A k \in DOMAIN pending : pending[k].current => pending[k].label + step \in 1..MaxDay
    BY <2>1 DEF CurrentInv
  <2> QED
    BY <1>1, <2>1, <2>2, FetchStep DEF G!Turn
<1>2. ASSUME NEW d \in 1..MaxDay, G!Specify(d) PROVE GraphInv'
  <2>1. \A k \in DOMAIN pending : pending[k].current => pending[k].label + 0 \in 1..MaxDay
    BY DEF CurrentInv, GraphType
  <2> QED
    BY <1>2, <2>1, FetchStep DEF G!Specify
<1>3. ASSUME G!Reload PROVE GraphInv'
  BY <1>3, GraphOpenStep DEF G!Reload, GraphType
<1> QED
  BY <1>1, <1>2, <1>3, GraphArrivalStep DEF G!Next, G!PressPrev, G!PressNext, G!EnterDay, G!Days

-------------------------------------------------------------------------------
(* The pages together. *)

LEMMA PagesInvInit == PagesInit => PagesInv
<1> SUFFICES ASSUME PagesInit PROVE PagesInv
  OBVIOUS
<1>1. /\ url = NoQuery /\ query = NoQuery /\ asked = NoQuery /\ page = 1 /\ shown = {}
      /\ cache = [p \in {} |-> <<>>] /\ DOMAIN cache = {}
      /\ inFlight = <<NoQuery>> /\ loading /\ searched = 0
      /\ mounted = "condition" /\ clicked = NoClick
  BY DEF PagesInit, Init
<1>2. NoQuery \in Query /\ NoQuery.end \in Nat
  BY NoQueryType, LimitAssumption DEF Query
<1>3. ConditionInv
  BY <1>1, <1>2 DEF ConditionInv, ConditionType, PrevHasPage, WindowInv, UrlInv, Answer
<1>4. GraphInv
  BY DaysAssumption DEF PagesInit, GraphInv, GraphType, CurrentInv, LastInv, LabelInv
<1> QED
  BY <1>1, <1>3, <1>4 DEF PagesInv, ClickInv, NoClick

\* The query of a click is one the conditions page can have.
LEMMA ClickQuery ==
  ASSUME NEW d \in 1..MaxDay, NEW index \in 0..(HoursPerDay - 1)
  PROVE  /\ [levels |-> AllLevels, start |-> StartOf(d), end |-> StartOf(d) + index] \in Query
         /\ StartOf(d) \in Nat
<1>1. d - 1 \in Nat /\ HoursPerDay \in Nat /\ MaxDay - d \in Nat /\ index \in Nat
  BY DaysAssumption
<1>2. (d - 1) * HoursPerDay \in Nat /\ (MaxDay - d) * HoursPerDay \in Nat
  BY <1>1
<1>3. (d - 1) * HoursPerDay + HoursPerDay + (MaxDay - d) * HoursPerDay = MaxTime
  <2>1. ((d - 1) + 1 + (MaxDay - d)) * HoursPerDay
          = (d - 1) * HoursPerDay + HoursPerDay + (MaxDay - d) * HoursPerDay
    BY <1>1
  <2>2. (d - 1) + 1 + (MaxDay - d) = MaxDay
    BY DaysAssumption
  <2> QED
    BY <2>1, <2>2, DaysAssumption
<1>4. index < HoursPerDay
  BY DaysAssumption
<1>5. StartOf(d) \in 1..MaxTime /\ StartOf(d) + index \in 1..MaxTime
  BY <1>1, <1>2, <1>3, <1>4, LimitAssumption DEF StartOf
<1> QED
  BY <1>5, LimitAssumption DEF Query

LEMMA NoClickInv == clicked' = NoClick => ClickInv'
BY DEF ClickInv, NoClick

LEMMA TabSteps ==
  ASSUME PagesInv, TabCondition \/ TabGraph \/ TabSame
  PROVE  PagesInv'
<1> USE DEF PagesInv
<1>1. clicked' = NoClick /\ ClickInv'
  BY NoClickInv DEF TabCondition, TabGraph, TabSame
<1>2. CASE TabCondition
  BY <1>1, <1>2, MountStep, GraphLeaveStep, NoQueryType DEF TabCondition
<1>3. CASE TabGraph
  <2>1. 0 \in 0..MaxDay
    BY DaysAssumption
  <2> QED
    BY <1>1, <1>3, <2>1, LeaveStep, GraphOpenStep DEF TabGraph
<1>4. CASE TabSame
  <2>1. CASE mounted = "condition"
    <3>1. /\ url' = NoQuery /\ tabbed' /\ mounted' = mounted
          /\ UNCHANGED <<query, page, shown, cache, inFlight, loading, asked, searched>>
          /\ UNCHANGED <<date, pending, data, day, waiting, address, outrun, disorder>>
      BY <1>4, <2>1 DEF TabSame, graphVars
    <3>2. ConditionInv'
      BY <3>1, NoQueryType DEF ConditionInv, ConditionType, PrevHasPage, WindowInv, UrlInv, PageQuery
    <3>3. GraphInv'
      BY <3>1 DEF GraphInv, GraphType, CurrentInv, LastInv, LabelInv
    <3> QED
      BY <1>1, <2>1, <3>1, <3>2, <3>3
  <2>2. CASE mounted = "graph"
    <3>1. /\ address' = 0 /\ tabbed' = FALSE /\ mounted' = mounted
          /\ UNCHANGED <<query, page, shown, cache, inFlight, loading, url, asked, searched>>
          /\ UNCHANGED <<date, pending, data, day, waiting, outrun, disorder>>
      BY <1>4, <2>2 DEF TabSame, conditionVars, vars
    <3>2. ConditionInv'
      BY <2>2, <3>1 DEF ConditionInv, ConditionType, PrevHasPage, WindowInv, UrlInv, PageQuery
    <3>3. GraphInv'
      BY <3>1, DaysAssumption DEF GraphInv, GraphType, CurrentInv, LastInv, LabelInv
    <3> QED
      BY <1>1, <3>1, <3>2, <3>3
  <2> QED
    BY <1>4, <2>1, <2>2 DEF TabSame
<1> QED
  BY <1>2, <1>3, <1>4

\* The day of the click is read from the label, which is the day of the graph
\* if no day was turned while an answer was awaited.
LEMMA ClickStep ==
  ASSUME PagesInv, NEW index \in 0..(HoursPerDay - 1), Click(index)
  PROVE  PagesInv'
<1> USE DEF PagesInv
<1> DEFINE q == [levels |-> AllLevels, start |-> StartOf(day), end |-> StartOf(day) + index]
<1>1. /\ mounted' = "condition" /\ data # 0 /\ Mount(q) /\ G!Leave /\ ~tabbed'
      /\ clicked' = [day |-> data, index |-> index, outrun |-> outrun]
  BY DEF Click
<1>2. day \in 1..MaxDay
  BY <1>1 DEF GraphInv, GraphType
<1>3. q \in Query /\ StartOf(day) \in Nat /\ q.start = StartOf(day) /\ q.end = StartOf(day) + index
  BY <1>2, ClickQuery
<1> HIDE DEF q
<1>4. ConditionInv' /\ GraphInv'
  BY <1>1, <1>3, MountStep, GraphLeaveStep
<1>5. ClickInv'
  <2>1. clicked'.index = index /\ index \in Nat /\ clicked'.day = data /\ clicked'.outrun = outrun
    BY <1>1
  <2>2. asked' = Opened(q) /\ searched' = 0
    BY <1>1 DEF Mount
  <2>3. ASSUME index > 0, ~outrun
        PROVE  asked'.start = StartOf(data) /\ asked'.end <= StartOf(data) + index
    <3>1. day = data
      BY <2>3 DEF GraphInv, LabelInv
    <3>2. Opened(q) = q
      BY <1>3, <2>1, <2>3, OpenedQuery
    <3> QED
      BY <1>3, <2>1, <2>2, <3>1, <3>2
  <2> QED
    BY <1>1, <2>1, <2>2, <2>3 DEF ClickInv
<1> QED
  BY <1>1, <1>4, <1>5

LEMMA OnConditionStep ==
  ASSUME PagesInv, OnCondition
  PROVE  PagesInv'
<1> USE DEF PagesInv
<1>1. mounted = "condition" /\ mounted' = mounted /\ GraphInv'
  BY DEF OnCondition, graphVars, GraphInv, GraphType, CurrentInv, LastInv, LabelInv
<1>2. CASE (\E q \in Searches : Search(q)) /\ clicked' = NoClick /\ tabbed' = FALSE
  BY <1>1, <1>2, SearchStep, NoClickInv
<1>3. CASE (PressNext \/ PressPrev) /\ tabbed' = FALSE /\ UNCHANGED clicked
  <2>1. ConditionInv'
    BY <1>3, NextStep, PrevStep
  <2>2. asked' = asked /\ searched' = searched
    BY <1>3 DEF PressNext, PressPrev
  <2> QED
    BY <1>1, <1>3, <2>1, <2>2 DEF ClickInv
<1>4. CASE Arrival /\ UNCHANGED <<clicked, tabbed>>
  <2>1. ConditionInv'
    BY <1>4, ArrivalStep
  <2>2. asked' = asked /\ searched' = searched
    BY <1>4 DEF Arrival, Answered, AnswerLost
  <2> QED
    BY <1>1, <1>4, <2>1, <2>2 DEF ClickInv
<1>5. CASE Reload /\ clicked' = (IF url.start < url.end THEN clicked ELSE NoClick) /\ tabbed' = FALSE
  <2>1. url \in Query /\ Mount(url)
    BY <1>5 DEF Reload, ConditionInv, ConditionType
  <2>2. ConditionInv'
    BY <1>5, <2>1, MountStep
  <2>3. CASE url.start < url.end
    <3>1. asked' = url /\ searched' = 0 /\ clicked' = clicked
      BY <1>5, <2>1, <2>3, OpenedQuery DEF Mount
    <3>2. ASSUME clicked.index > 0, ~clicked.outrun
          PROVE  /\ url.start = StartOf(clicked.day)
                 /\ url.end <= StartOf(clicked.day) + clicked.index
      <4>1. /\ asked.start = StartOf(clicked.day) /\ clicked.index \in Nat
            /\ asked.end <= StartOf(clicked.day) + clicked.index
            /\ url.start = asked.start /\ url.end <= asked.end
        BY <3>2 DEF ClickInv, ConditionInv, UrlInv
      <4>2. url.end \in Int /\ asked.end \in Int /\ asked.start \in Int
        BY LimitAssumption DEF ConditionInv, ConditionType, Query
      <4> QED
        BY <4>1, <4>2
    <3>3. ClickInv'
      BY <1>5, <3>1, <3>2 DEF ClickInv
    <3> QED
      BY <1>1, <1>5, <2>2, <3>3
  <2>4. CASE ~(url.start < url.end)
    BY <1>1, <1>5, <2>2, <2>4, NoClickInv
  <2> QED
    BY <2>3, <2>4
<1> QED
  BY <1>2, <1>3, <1>4, <1>5 DEF OnCondition

LEMMA PagesInvStep == PagesInv /\ [PagesNext]_pagesVars => PagesInv'
<1> SUFFICES ASSUME PagesInv, [PagesNext]_pagesVars PROVE PagesInv'
  OBVIOUS
<1> USE DEF PagesInv
<1>1. ASSUME UNCHANGED conditionVars, tabbed' = tabbed PROVE ConditionInv'
  BY <1>1 DEF conditionVars, vars, ConditionInv, ConditionType, PrevHasPage, WindowInv, UrlInv, PageQuery
<1>2. ASSUME UNCHANGED conditionVars, UNCHANGED <<clicked, tabbed>> PROVE ClickInv'
  BY <1>2 DEF conditionVars, vars, ClickInv
<1>3. CASE UNCHANGED pagesVars
  <2>1. GraphInv'
    BY <1>3 DEF pagesVars, graphVars, GraphInv, GraphType, CurrentInv, LastInv, LabelInv
  <2> QED
    BY <1>1, <1>2, <1>3, <2>1 DEF pagesVars
<1>4. CASE OnGraph
  BY <1>1, <1>2, <1>4, GraphSteps DEF OnGraph
<1>5. CASE \E index \in 0..(HoursPerDay - 1) : Click(index)
  BY <1>5, ClickStep
<1> QED
  BY <1>3, <1>4, <1>5, TabSteps, OnConditionStep DEF PagesNext

-------------------------------------------------------------------------------
(* Theorems. *)

\* In every reachable state queries, pages, the address and the graph's
\* requests belong together as PagesInv says.
THEOREM PagesInvHolds == PagesSpec => []PagesInv
<1> QED
  BY PagesInvInit, PagesInvStep, PTL DEF PagesSpec

\* Page p shows the p-th group of conditions, for any Limit and any data.
THEOREM PagesAreWindowsHolds == PagesSpec => []PagesAreWindows
<1>1. PagesInv => PagesAreWindows
  BY DEF PagesInv, ConditionInv, WindowInv, PagesAreWindows
<1> QED
  BY <1>1, PagesInvHolds, PTL

\* The address describes the page shown, unless its tab was pressed.
THEOREM AddressShowsPageHolds == PagesSpec => []AddressShowsPage
<1>1. PagesInv => AddressShowsPage
  BY DEF PagesInv, ConditionInv, WindowInv, UrlInv, AddressShowsPage, UrlShowsPage
<1> QED
  BY <1>1, PagesInvHolds, PTL

\* A click on an hour of the graph opens conditions of the hours before it.
THEOREM ClickOpensDayHolds == PagesSpec => []ClickOpensDay
<1>1. PagesInv => ClickOpensDay
  <2> SUFFICES ASSUME PagesInv, clicked.index > 0, ~clicked.outrun, ~loading, NEW t \in shown
               PROVE  t \in Before(clicked.day, clicked.index)
    BY DEF ClickOpensDay
  <2>1. /\ searched = 0 /\ clicked.index \in Nat /\ asked.start = StartOf(clicked.day)
        /\ asked.end <= StartOf(clicked.day) + clicked.index
    BY DEF PagesInv, ClickInv
  <2>2. t \in Window(asked, page)
    BY <2>1 DEF PagesInv, ConditionInv, WindowInv
  <2>3. t \in Times /\ asked.start <= t /\ t < asked.end
    BY <2>2 DEF Window, Matching
  <2>4. t \in Int /\ asked.start \in Int /\ asked.end \in Int
    BY <2>3, LimitAssumption DEF PagesInv, ConditionInv, ConditionType, Query, Times
  <2> QED
    BY <2>1, <2>3, <2>4 DEF Before
<1> QED
  BY <1>1, PagesInvHolds, PTL

\* When every request is answered in order, the graph of the date stands under
\* the date, for any number of requests under way.
THEOREM SettledGraphHolds == PagesSpec => []SettledGraph
<1>1. PagesInv => SettledGraph
  BY DEF PagesInv, GraphInv, LastInv, SettledGraph, G!SettledGraph
<1> QED
  BY <1>1, PagesInvHolds, PTL

\* A graph that no turn of the day overtook stands under its own day.
THEOREM LabelMatchesDataHolds == PagesSpec => []LabelMatchesData
<1>1. PagesInv => LabelMatchesData
  BY DEF PagesInv, GraphInv, LabelInv, LabelMatchesData, G!LabelMatchesData
<1> QED
  BY <1>1, PagesInvHolds, PTL

===============================================================================
