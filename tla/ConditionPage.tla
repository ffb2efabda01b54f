------------------------------ MODULE ConditionPage ------------------------------
(* The condition page of the browser application (src/webapp/frontend):       *)
(* usePagingCondition in components/Condition/use/paging.ts, with the buttons *)
(* that drive it (ConditionNavigator.tsx, SearchInputs.tsx) and the overlay   *)
(* that covers them while an answer is awaited (IsuCondition.tsx).            *)
(*                                                                            *)
(* A query asks for the newest Limit conditions of some levels from `start`   *)
(* (0 if no start_time is given) to before `end`.                             *)
(* Each page turn stores the page that is left in a cache, so that Prev needs *)
(* no request.  Answers to requests come back in any order, or not at all.    *)
(*                                                                            *)
(* Abstracted: the server's conditions do not change while the page is open   *)
(* (they are the timestamps 1..MaxTime with fixed levels, and it is           *)
(* MaxTime + 1 now); the user clicks with a pointer, so a button under the    *)
(* overlay is out of reach.                                                   *)
EXTENDS Naturals, FiniteSets, FiniteSetsExt, Sequences, SequencesExt

CONSTANTS
  Limit,        \* DEFAULT_CONDITION_LIMIT, 20 in the code
  MaxTime,      \* conditions have the timestamps 1..MaxTime
  LevelOf,      \* the level of each condition, a function on 1..MaxTime
  Searches,     \* the queries a user may type in
  MaxSearches,  \* bound: how often the search button is pressed
  MaxPage       \* bound: the last page Next turns to

ASSUME LimitAssumption == Limit \in Nat \ {0} /\ MaxTime \in Nat

VARIABLES
  query,     \* the query state: the request made last
  page,      \* the page number shown
  shown,     \* the conditions state: timestamps on display
  cache,     \* page number -> what that page asked for and showed
  inFlight,  \* the requests sent and not answered, oldest first
  loading,   \* isLoading: the overlay covers the list and Prev / Next
  url,       \* the query kept in the address bar, read again by a reload
  asked,     \* ghost: the query of the last search (or of the page load)
  searched,  \* ghost: number of searches since the page was loaded
  overlapped \* ghost: two requests were out at once since the load

vars == <<query, page, shown, cache, inFlight, loading, url, asked, searched,
          overlapped>>

Times == 1..MaxTime
AllLevels == {LevelOf[t] : t \in Times}
Query == [levels: SUBSET AllLevels, start: 0..MaxTime, end: 1..(MaxTime + 1)]

ASSUME SearchesAssumption == Searches \subseteq Query

Matching(q) == {t \in Times : LevelOf[t] \in q.levels /\ q.start <= t /\ t < q.end}

\* The query of an address without one.
NoQuery == [levels |-> AllLevels, start |-> 0, end |-> MaxTime + 1]

\* What the page makes of the address: an end that is not after the start is
\* not taken, it is now then.
Opened(q) == IF q.end > q.start THEN q ELSE [q EXCEPT !.end = MaxTime + 1]

\* The page-th group of Limit conditions of q, newest first.
Window(q, p) ==
  {t \in Matching(q) :
     Cardinality({u \in Matching(q) : u > t}) \in ((p - 1) * Limit)..(p * Limit - 1)}

\* What GET /api/condition answers: the newest Limit conditions that match.
Answer(q) == Window(q, 1)

\* The page number, the cache and the requests on their way keep their types.
TypeOK ==
  /\ query \in Query /\ url \in Query /\ asked \in Query
  /\ page \in 1..MaxPage
  /\ shown \subseteq Times
  /\ DOMAIN cache \subseteq 1..MaxPage
  /\ \A p \in DOMAIN cache : cache[p].query \in Query /\ cache[p].conditions \subseteq Times
  /\ inFlight \in Seq(Query)
  /\ loading \in BOOLEAN /\ overlapped \in BOOLEAN
  /\ searched \in 0..MaxSearches

\* The effect on `query`: each new query is requested, under the overlay.
Request(q) ==
  /\ inFlight' = Append(inFlight, q)
  /\ loading' = TRUE
  /\ overlapped' = (overlapped \/ inFlight # <<>>)

\* The page is opened with the query the address bar holds.
Mount(q) ==
  /\ url' = q /\ query' = Opened(q) /\ asked' = Opened(q)
  /\ page' = 1 /\ shown' = {} /\ cache' = [p \in {} |-> <<>>]
  /\ inFlight' = <<Opened(q)>> /\ loading' = TRUE
  /\ searched' = 0 /\ overlapped' = FALSE

Init ==
  /\ url = NoQuery /\ query = NoQuery /\ asked = NoQuery
  /\ page = 1 /\ shown = {} /\ cache = [p \in {} |-> <<>>]
  /\ inFlight = <<NoQuery>> /\ loading = TRUE
  /\ searched = 0 /\ overlapped = FALSE

Reload == Mount(url)

\* Another page takes its place; answers under way find nobody.
Leave ==
  /\ url' = NoQuery /\ query' = NoQuery /\ asked' = NoQuery
  /\ page' = 1 /\ shown' = {} /\ cache' = [p \in {} |-> <<>>]
  /\ inFlight' = <<>> /\ loading' = TRUE
  /\ searched' = 0 /\ overlapped' = FALSE

\* The conditions on display go into the new cache as its page 1.
SearchCache(q) == [p \in {1} |-> [query |-> q, conditions |-> shown]]

\* Mutant: search() forgets to set the page back to 1.
SearchKeepsPage(q) ==
  /\ searched < MaxSearches
  /\ url' = q /\ query' = q /\ asked' = q
  /\ cache' = SearchCache(q)
  /\ Request(q)
  /\ searched' = searched + 1
  /\ UNCHANGED <<shown, page>>

Search(q) ==
  /\ searched < MaxSearches
  /\ url' = q /\ query' = q /\ asked' = q
  /\ page' = 1
  /\ cache' = SearchCache(q)
  /\ Request(q)
  /\ searched' = searched + 1
  /\ UNCHANGED <<shown>>

\* Mutant: next() always overwrites the cached page, with a query that may be stale.
KeepPageAlways ==
  [p \in DOMAIN cache \cup {page} |->
     IF p = page THEN [query |-> query, conditions |-> shown] ELSE cache[p]]

\* The page that is left is cached, unless it already was.
KeepPage ==
  IF page \in DOMAIN cache THEN cache
  ELSE [p \in DOMAIN cache \cup {page} |->
          IF p = page THEN [query |-> query, conditions |-> shown] ELSE cache[p]]

\* Mutant: next() asks for one condition too many again (end_time is exclusive).
NextQueryRepeats == [query EXCEPT !.end = Min(shown) + 1]

NextQuery == [query EXCEPT !.end = Min(shown)]

PressNext ==
  /\ ~loading
  /\ Cardinality(shown) = Limit /\ page < MaxPage
  /\ url' = NextQuery /\ query' = NextQuery
  /\ page' = page + 1
  /\ cache' = KeepPage
  /\ Request(NextQuery)
  /\ UNCHANGED <<shown, asked, searched>>

\* query is not set back: it stays the request made last.
PressPrev ==
  /\ ~loading
  /\ page > 1
  /\ url' = cache[page - 1].query
  /\ shown' = cache[page - 1].conditions
  /\ page' = page - 1
  /\ UNCHANGED <<query, cache, inFlight, loading, asked, searched, overlapped>>

\* Any answer is displayed, whatever has been asked since, and lifts the overlay.
Answered(i) ==
  /\ shown' = Answer(inFlight[i])
  /\ loading' = FALSE
  /\ inFlight' = RemoveAt(inFlight, i)
  /\ UNCHANGED <<query, page, cache, url, asked, searched, overlapped>>

\* axios throws: neither setIsLoading(false) nor setConditions is reached.
AnswerLost(i) ==
  /\ inFlight' = RemoveAt(inFlight, i)
  /\ UNCHANGED <<query, page, shown, cache, loading, url, asked, searched,
                 overlapped>>

Arrival == \E i \in DOMAIN inFlight : Answered(i) \/ AnswerLost(i)

Next ==
  \/ \E q \in Searches : Search(q)
  \/ PressNext
  \/ PressPrev
  \/ Arrival
  \/ Reload

Spec == Init /\ [][Next]_vars

------------------------------------------------------------------------------
\* Prev never reads past the cache: every page before the one shown is in it,
\* through any mix of searches, page turns, overtaking and lost answers.
PrevHasPage == \A p \in 1..(page - 1) : p \in DOMAIN cache

\* As long as nothing was searched, an uncovered page p shows exactly the p-th
\* group of conditions, however often the user went forth and back: the cache
\* and the requests built from what is on display agree with each other.
PagesAreWindows ==
  (searched = 0 /\ ~loading) => shown = Window(asked, page)

\* As long as nothing was searched, the address bar describes the page shown:
\* a reload brings the same conditions back.  The one exception is the empty
\* page behind a full one that ends exactly at start_time: its end is not after
\* its start, and the page it reopens is that of now (IsuCondition.tsx:42).
UrlShowsPage ==
  (searched = 0 /\ ~loading /\ url.start < url.end) => shown = Answer(url)

\* docs/isucondition.md:113: the page narrows the conditions it displays by
\* level and time.  For a user who waits for each answer (no two requests out
\* at once), the conditions on display are of the levels searched for.  The
\* code breaks this: search() caches the conditions of the search before as
\* page 1 of the new one, and Next then Prev displays them.
ShownMatchesSearch ==
  (~loading /\ ~overlapped /\ searched > 0) => shown \subseteq Matching(asked)
==============================================================================
