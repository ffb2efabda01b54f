------------------------ MODULE ConditionPagingProofs ------------------------
(***************************************************************************)
(* Theorems about module ConditionPaging, for pages of any length, any     *)
(* step of scoring, any number of conditions and of failed requests: the   *)
(* check of the marks never complains, no condition is counted twice, and  *)
(* a pass without error counts all it should.                              *)
(*                                                                         *)
(* PagingInv says where, in the middle of a pass, the conditions counted   *)
(* stand against its cursor (CountedInv), what has been gathered and not   *)
(* counted (GatheredInv), and that what is due and not yet gathered lies   *)
(* behind the cursor (DueInv).                                             *)
(*                                                                         *)
(* The second part is about the loops of module ReadMarks: an array that   *)
(* holds a set in order is the only one (OneArray), a loop that merges two *)
(* leaves such an array of the newest (MergeOf), and the loop that checks  *)
(* a page ends where the first mark that is missing says (WalkEnds).       *)
(***************************************************************************)
EXTENDS ReadMarks, FiniteSetTheorems, TLAPS

TypeInv ==
    /\ posted \in 0..MaxTimestamp
    /\ stored \subseteq 1..posted
    /\ mark \subseteq stored
    /\ pass \in [state : {"idle", "first", "more", "asking"}, end : Nat,
                 conditions : SUBSET Timestamp, first : SUBSET stored,
                 pages : Nat, due : SUBSET stored]
    /\ score \in [Timestamp -> 0..2]

\* What a pass gathers is newer than the marks, not newer than its first page,
\* not counted, and at or before its cursor.
GatheredInv ==
    /\ pass.state \in {"idle", "first"} => pass.first = {} /\ pass.conditions = {}
    /\ pass.state = "more" => pass.conditions # {}
    /\ pass.state = "asking" => \E f \in pass.first : pass.end <= f
    /\ \A c \in pass.conditions :
          /\ IsNew(c) /\ score[c] = 0
          /\ \E f \in pass.first : c <= f
          /\ pass.state = "asking" => pass.end <= c

\* What was counted is not newer than the marks, or was counted in this pass:
\* before its cursor, and not newer than its first page.
CountedInv ==
    \A t \in Timestamp :
        /\ score[t] <= 1
        /\ score[t] # 0 /\ IsNew(t) =>
              /\ \E f \in pass.first : t <= f
              /\ pass.state = "more" => \E c \in pass.conditions : c <= t
              /\ pass.state = "asking" => pass.end <= t

\* What is due is counted, gathered, or still to come.
DueInv ==
    \A t \in pass.due :
        /\ IsNew(t)
        /\ pass.state = "first" => t < pass.end
        /\ pass.state = "more" =>
              score[t] # 0 \/ t \in pass.conditions \/ \A c \in pass.conditions : t < c
        /\ pass.state = "asking" => score[t] # 0 \/ t \in pass.conditions \/ t < pass.end

PagingInv == TypeInv /\ GatheredInv /\ CountedInv /\ DueInv /\ owed = {} /\ ~alarm

----------------------------------------------------------------------------
(* The newest n timestamps of a set. *)

\* A set of natural numbers has a least member.
LEMMA Least ==
    ASSUME NEW S \in SUBSET Nat, S # {}
    PROVE  \E m \in S : \A x \in S : m <= x
<1> DEFINE R == OpToRel(<, Nat)
<1>1. PICK m \in S : \A x \in S : ~(<<x, m>> \in R)
    BY NatLessThanWellFounded, WFMin
<1>2. \A x \in S : ~(x < m)
    BY <1>1 DEF OpToRel
<1> HIDE DEF R
<1>3. \A x \in S : m \in Int /\ x \in Int
    OBVIOUS
<1> QED
    BY <1>2, <1>3

\* A set of natural numbers with a bound has a greatest member.
LEMMA Greatest ==
    ASSUME NEW n \in Nat, NEW S \in SUBSET (1..n), S # {}
    PROVE  \E m \in S : \A x \in S : x <= m
<1> DEFINE T == {n - x : x \in S}
<1>1. \A x \in S : n - x \in Nat
    OBVIOUS
<1>2. T \in SUBSET Nat /\ T # {}
    BY <1>1
<1>3. PICK d \in T : \A y \in T : d <= y
    <2> HIDE DEF T
    <2> QED
        BY <1>2, Least
<1>4. PICK m \in S : d = n - m
    OBVIOUS
<1>5. \A x \in S : n - m <= n - x
    BY <1>3, <1>4
<1> HIDE DEF T
<1>6. \A x \in S : n \in Int /\ m \in Int /\ x \in Int
    OBVIOUS
<1> QED
    BY <1>5, <1>6

\* Timestamps are numbers, and finitely many.
LEMMA TimestampFacts ==
    /\ Timestamp \subseteq Nat /\ IsFiniteSet(Timestamp)
    /\ \A t \in Timestamp : t \in Nat /\ t <= MaxTimestamp
<1>1. MaxTimestamp \in Nat
    BY PagingAssumption
<1>2. \A t \in Timestamp : t \in Nat /\ t <= MaxTimestamp
    BY <1>1 DEF Timestamp
<1>3. IsFiniteSet(1..MaxTimestamp)
    BY <1>1, FS_Interval
<1> QED
    BY <1>2, <1>3 DEF Timestamp

\* Newest(S, n) are those with fewer than n of S above them.
Above(S, t) == {s \in S : s > t}

\* The timestamps above one, and how many they are.
LEMMA AboveFacts ==
    ASSUME NEW S \in SUBSET Timestamp
    PROVE  /\ IsFiniteSet(S)
           /\ \A t : IsFiniteSet(Above(S, t)) /\ Cardinality(Above(S, t)) \in Nat
           /\ \A s, t \in Timestamp :
                 s >= t => Cardinality(Above(S, s)) <= Cardinality(Above(S, t))
<1>1. IsFiniteSet(S)
    BY TimestampFacts, FS_Subset
<1>2. \A t : IsFiniteSet(Above(S, t)) /\ Cardinality(Above(S, t)) \in Nat
    <2> TAKE t
    <2>1. Above(S, t) \in SUBSET S
        BY DEF Above
    <2>2. IsFiniteSet(Above(S, t))
        BY <1>1, <2>1, FS_Subset
    <2> QED
        BY <2>2, FS_CardinalityType
<1>3. ASSUME NEW s \in Timestamp, NEW t \in Timestamp, s >= t
      PROVE  Cardinality(Above(S, s)) <= Cardinality(Above(S, t))
    <2>1. Above(S, s) \in SUBSET Above(S, t)
        <3>1. \A x \in S : x > s => x > t
            BY <1>3, TimestampFacts
        <3> QED
            BY <3>1 DEF Above
    <2>2. IsFiniteSet(Above(S, t))
        BY <1>2
    <2> QED
        BY <2>1, <2>2, FS_Subset
<1> QED
    BY <1>1, <1>2, <1>3

\* What is newer than one of the newest is one of the newest.
LEMMA NewestUpward ==
    ASSUME NEW S \in SUBSET Timestamp, NEW n \in Nat, NEW t \in Newest(S, n),
           NEW s \in S, s >= t
    PROVE  s \in Newest(S, n)
<1>1. /\ Cardinality(Above(S, t)) < n
      /\ Cardinality(Above(S, s)) \in Nat /\ Cardinality(Above(S, t)) \in Nat
      /\ Cardinality(Above(S, s)) <= Cardinality(Above(S, t))
    BY AboveFacts DEF Newest, Above
<1> QED
    BY <1>1 DEF Newest, Above

\* The newest of all is among the newest.
LEMMA NewestHasGreatest ==
    ASSUME NEW S \in SUBSET Timestamp, NEW n \in Nat \ {0}, S # {}
    PROVE  \E m \in Newest(S, n) : \A x \in S : x <= m
<1>1. PICK m \in S : \A x \in S : x <= m
    BY Greatest, PagingAssumption DEF Timestamp
<1>2. {s \in S : s > m} = {}
    <2>1. \A x \in S : ~(x > m)
        BY <1>1, TimestampFacts
    <2> QED
        BY <2>1
<1>3. Cardinality({s \in S : s > m}) < n
    BY <1>2, FS_EmptySet
<1> QED
    BY <1>1, <1>3 DEF Newest

\* The newest n are not more.
LEMMA NewestAtMost ==
    ASSUME NEW S \in SUBSET Timestamp, NEW n \in Nat
    PROVE  Cardinality(Newest(S, n)) <= n
<1> DEFINE N == Newest(S, n)
<1>1. N = {t \in S : Cardinality(Above(S, t)) < n}
    BY DEF Newest, Above
<1>2. IsFiniteSet(N) /\ Cardinality(N) \in Nat
    BY <1>1, AboveFacts, FS_Subset, FS_CardinalityType
<1>3. CASE N = {}
    BY <1>3, FS_EmptySet
<1>4. CASE N # {}
    <2>1. PICK y \in N : \A z \in N : y <= z
        <3>1. N \in SUBSET Nat
            <4>1. N \subseteq S
                BY <1>1
            <4> HIDE DEF N
            <4> QED
                BY <4>1, TimestampFacts
        <3> HIDE DEF N
        <3> QED
            BY <1>4, <3>1, Least
    <2>2. y \in S /\ Cardinality(Above(S, y)) < n
        BY <1>1
    <2>3. N \in SUBSET (Above(S, y) \cup {y})
        <3>1. N \subseteq S
            BY <1>1
        <3> HIDE DEF N
        <3>2. \A z \in N : z \in Nat
            BY <3>1, TimestampFacts
        <3>3. \A z \in N : z = y \/ z > y
            BY <2>1, <3>2
        <3> QED
            BY <3>1, <3>3 DEF Above
    <2>4. IsFiniteSet(Above(S, y)) /\ Cardinality(Above(S, y)) \in Nat
        BY AboveFacts
    <2>5. y \notin Above(S, y)
        BY <2>2, TimestampFacts DEF Above
    <2>6. /\ IsFiniteSet(Above(S, y) \cup {y})
          /\ Cardinality(Above(S, y) \cup {y}) = Cardinality(Above(S, y)) + 1
        BY <2>4, <2>5, FS_AddElement
    <2>7. Cardinality(N) <= Cardinality(Above(S, y) \cup {y})
        BY <2>3, <2>6, FS_Subset
    <2> QED
        BY <1>2, <2>2, <2>4, <2>6, <2>7
<1> QED
    BY <1>3, <1>4

\* When some are left out, the newest are n.
LEMMA NewestFull ==
    ASSUME NEW S \in SUBSET Timestamp, NEW n \in Nat, Newest(S, n) # S
    PROVE  Cardinality(Newest(S, n)) = n
<1> DEFINE N == Newest(S, n)
           Rest == {t \in S : Cardinality(Above(S, t)) >= n}
<1>1. N = {t \in S : Cardinality(Above(S, t)) < n}
    BY DEF Newest, Above
<1>2. \A t \in S : Cardinality(Above(S, t)) \in Nat
    BY AboveFacts
<1>3. Rest # {} /\ Rest = S \ N
    BY <1>1, <1>2
<1>4. PICK x \in Rest : \A y \in Rest : y <= x
    <2>1. Rest \in SUBSET (1..MaxTimestamp)
        BY DEF Timestamp
    <2> HIDE DEF Rest
    <2> QED
        BY <1>3, <2>1, Greatest, PagingAssumption
<1>5. Above(S, x) \in SUBSET N
    <2>1. \A y \in S : y > x => y \notin Rest
        BY <1>3, <1>4, TimestampFacts
    <2> HIDE DEF Rest, N
    <2> QED
        BY <1>3, <2>1 DEF Above
<1>6. IsFiniteSet(N) /\ Cardinality(N) \in Nat
    BY <1>1, AboveFacts, FS_Subset, FS_CardinalityType
<1>7. Cardinality(Above(S, x)) <= Cardinality(N)
    BY <1>5, <1>6, FS_Subset
<1>8. Cardinality(N) >= n
    BY <1>2, <1>4, <1>6, <1>7
<1>9. Cardinality(N) <= n
    BY NewestAtMost
<1> QED
    BY <1>6, <1>8, <1>9

----------------------------------------------------------------------------
(* Pages. *)

\* What a page has: stored conditions before its end, and every one of these
\* that is newer than any on the page, or all of them when it is not full.
LEMMA PageFacts ==
    ASSUME TypeInv, NEW end \in Nat
    PROVE  /\ Page(end) \subseteq {t \in stored : t < end}
           /\ \A t \in Page(end), s \in stored : s < end /\ s >= t => s \in Page(end)
           /\ \A s \in stored : s < end /\ s \notin Page(end) =>
                 Cardinality(Page(end)) = ConditionLimit /\ \A t \in Page(end) : s < t
<1> DEFINE S == {t \in stored : t < end}
<1>1. S \in SUBSET Timestamp
    <2>1. 1..posted \subseteq 1..MaxTimestamp
        BY PagingAssumption DEF TypeInv
    <2> QED
        BY <2>1 DEF TypeInv, Timestamp
<1>2. Page(end) = Newest(S, ConditionLimit) /\ Newest(S, ConditionLimit) \subseteq S
    BY DEF Page, Newest
<1>3. ConditionLimit \in Nat
    BY PagingAssumption
<1> HIDE DEF S
<1>4. \A t \in Page(end), s \in S : s >= t => s \in Page(end)
    BY <1>1, <1>2, <1>3, NewestUpward
<1>5. \A s \in S : s \notin Page(end) => Cardinality(Page(end)) = ConditionLimit
    BY <1>1, <1>2, <1>3, NewestFull
<1>6. ASSUME NEW s \in S, s \notin Page(end), NEW t \in Page(end) PROVE s < t
    <2>1. s \in Nat /\ t \in Nat
        BY <1>1, <1>2, TimestampFacts
    <2> QED
        BY <1>4, <1>6, <2>1
<1> QED
    BY <1>2, <1>4, <1>5, <1>6 DEF S

\* The marks a check finds are among what is stored: it never complains.
LEMMA VerifyPasses ==
    ASSUME TypeInv, NEW end \in Nat PROVE Verify(Page(end), end)
BY PageFacts DEF Verify, TypeInv

----------------------------------------------------------------------------
(* The user. *)

\* No condition, no mark, no pass.
LEMMA PagingInit == Init => PagingInv
BY PagingAssumption
DEF Init, PagingInv, TypeInv, GatheredInv, CountedInv, DueInv, IdlePass, Timestamp

\* Conditions of the pass are numbers, and newer than the marks or not.
LEMMA PassFacts ==
    ASSUME TypeInv
    PROVE  /\ stored \subseteq Timestamp /\ mark \subseteq Timestamp
           /\ pass.first \subseteq stored /\ pass.due \subseteq stored
           /\ pass.conditions \subseteq Timestamp /\ pass.end \in Nat
<1>1. 1..posted \subseteq 1..MaxTimestamp
    BY PagingAssumption DEF TypeInv
<1> QED
    BY <1>1 DEF TypeInv, Timestamp

\* A condition is posted or committed while the user is at any point.
LEMMA ServerSteps ==
    ASSUME PagingInv, Post \/ \E t \in Timestamp : Commit(t) PROVE PagingInv'
<1>1. UNCHANGED <<mark, pass, score, owed, alarm>>
    BY DEF Post, Commit
<1>2. stored \subseteq stored' /\ posted' \in 0..MaxTimestamp /\ stored' \subseteq 1..posted'
    <2>1. CASE Post
        <3>1. 1..posted \subseteq 1..posted + 1
            BY PagingAssumption DEF PagingInv, TypeInv
        <3> QED
            BY <2>1, <3>1, PagingAssumption DEF Post, PagingInv, TypeInv
    <2>2. CASE \E t \in Timestamp : Commit(t)
        BY <2>2, PagingAssumption DEF Commit, PagingInv, TypeInv, Timestamp
    <2> QED
        BY <2>1, <2>2
<1>3. TypeInv'
    <2>1. /\ mark \subseteq stored' /\ pass.first \subseteq stored' /\ pass.due \subseteq stored'
        BY <1>2, PassFacts DEF PagingInv, TypeInv
    <2> QED
        BY <1>1, <1>2, <2>1 DEF PagingInv, TypeInv
<1> QED
    BY <1>1, <1>3 DEF PagingInv, GatheredInv, CountedInv, DueInv, IsNew

\* A pass begins: what is due is stored, newer than the marks, and to come.
LEMMA StartStep ==
    ASSUME PagingInv, NEW end \in 0..(MaxTimestamp + 1), StartPass(end) PROVE PagingInv'
<1> DEFINE due == {t \in stored : t < end /\ IsNew(t)}
<1>1. end \in Nat
    BY PagingAssumption
<1>2. /\ pass' = [state |-> "first", end |-> end, conditions |-> {}, first |-> {},
                  pages |-> 1, due |-> due]
      /\ pass.state = "idle"
      /\ UNCHANGED <<posted, stored, mark, score, owed, alarm>>
    BY DEF StartPass, IdlePass
<1>3. due \subseteq stored /\ \A t \in due : t < end /\ IsNew(t)
    OBVIOUS
<1> HIDE DEF due
<1>4. TypeInv'
    BY <1>1, <1>2, <1>3 DEF PagingInv, TypeInv
<1>5. GatheredInv' /\ DueInv'
    BY <1>2, <1>3 DEF GatheredInv, DueInv, IsNew
<1>6. CountedInv'
    BY <1>2 DEF PagingInv, GatheredInv, CountedInv, IsNew
<1> QED
    BY <1>2, <1>4, <1>5, <1>6 DEF PagingInv

\* What a pass that ends leaves: the marks cover what was counted before, what
\* it counts now once, and nothing due is left.
LEMMA EndStep ==
    ASSUME PagingInv, NEW first \in SUBSET stored, NEW conditions \in SUBSET Timestamp,
           NEW success \in BOOLEAN, EndPass(first, conditions, success),
           UNCHANGED <<posted, stored>>, ~alarm',
           \A t \in Timestamp : score[t] # 0 /\ IsNew(t) => \E f \in first : t <= f,
           \A c \in conditions : score[c] = 0 /\ \E f \in first : c <= f,
           success => \A t \in pass.due : score[t] # 0 \/ t \in conditions
    PROVE  PagingInv'
<1> DEFINE S == mark \cup first
<1>1. S \in SUBSET Timestamp /\ S \subseteq stored
    BY PassFacts DEF PagingInv, TypeInv
<1>2. ConditionLimit \in Nat \ {0}
    BY PagingAssumption
<1>3. mark' = Newest(S, ConditionLimit) /\ mark' \subseteq S /\ pass' = IdlePass
    BY DEF EndPass, Newest
<1>4. score' = IF success THEN Counted(conditions) ELSE score
    BY DEF EndPass
<1>5. score' \in [Timestamp -> 0..2]
    BY <1>4 DEF PagingInv, TypeInv, Counted
<1>6. ASSUME NEW t \in Timestamp
      PROVE  /\ score'[t] <= 1
             /\ score[t] # 0 => score'[t] # 0
             /\ success /\ t \in conditions => score'[t] # 0
             /\ score'[t] # 0 => score[t] # 0 \/ t \in conditions
    <2>1. score[t] \in {0, 1}
        BY DEF PagingInv, TypeInv, CountedInv
    <2> QED
        BY <1>4, <2>1 DEF Counted
<1>7. owed' = {}
    BY <1>6, PassFacts DEF EndPass, PagingInv
<1>8. ASSUME NEW t \in Timestamp, score'[t] # 0 PROVE ~IsNew(t)'
    <2>1. \E m \in S : t <= m
        <3>1. CASE \E f \in first : t <= f
            BY <3>1
        <3>2. CASE ~IsNew(t)
            <4>1. PICK m \in mark : ~(t > m)
                BY <3>2 DEF IsNew
            <4>2. m \in Nat /\ t \in Nat
                BY PassFacts, TimestampFacts DEF PagingInv
            <4>3. t <= m
                BY <4>1, <4>2
            <4> QED
                BY <4>3
        <3> QED
            BY <1>6, <1>8, <3>1, <3>2
    <2>2. PICK m \in mark' : \A x \in S : x <= m
        <3> HIDE DEF S
        <3> QED
            BY <1>1, <1>2, <1>3, <2>1, NewestHasGreatest
    <2>3. PICK x \in S : t <= x
        BY <2>1
    <2>4. x \in Nat /\ m \in Nat /\ t \in Nat /\ x <= m
        BY <1>1, <1>3, <2>2, TimestampFacts
    <2> QED
        BY <2>2, <2>3, <2>4 DEF IsNew
<1>9. TypeInv'
    BY <1>1, <1>3, <1>5 DEF PagingInv, TypeInv, IdlePass
<1>10. GatheredInv' /\ DueInv'
    BY <1>3 DEF GatheredInv, DueInv, IdlePass
<1>11. CountedInv'
    BY <1>6, <1>8 DEF CountedInv
<1> QED
    BY <1>7, <1>9, <1>10, <1>11 DEF PagingInv

\* The last page has all that is due and not yet gathered.
LEMMA LastPageHasDue ==
    ASSUME TypeInv, NEW end \in Nat, NEW t \in stored, t < end, IsNew(t),
           LastPage(Page(end), {s \in Page(end) : IsNew(s)})
    PROVE  t \in Page(end)
<1> DEFINE page == Page(end)
<1>1. page \subseteq stored /\ stored \subseteq Nat /\ mark \subseteq Nat
    BY PageFacts, PassFacts, TimestampFacts
<1>2. CASE Cardinality(page) < ConditionLimit
    BY <1>2, PageFacts, PagingAssumption
<1>3. CASE \E s \in page : ~IsNew(s)
    <2>1. PICK s \in page, m \in mark : ~(s > m)
        BY <1>3 DEF IsNew
    <2>2. t > m
        BY DEF IsNew
    <2>3. s \in Nat /\ m \in Nat /\ t \in Nat
        BY <1>1, <2>1
    <2>4. t >= s
        BY <2>1, <2>2, <2>3
    <2> QED
        BY <2>4, PageFacts
<1>4. {s \in page : IsNew(s)} # page => \E s \in page : ~IsNew(s)
    OBVIOUS
<1> QED
    BY <1>2, <1>3, <1>4 DEF LastPage

\* The first page: the pass is over, or goes on from it.
LEMMA FirstStep == ASSUME PagingInv, FirstPage PROVE PagingInv'
<1> DEFINE page == Page(pass.end)
           new == {t \in page : IsNew(t)}
<1>1. TypeInv /\ pass.end \in Nat /\ pass.state = "first"
    BY PassFacts DEF PagingInv, FirstPage
<1>2. Verify(page, pass.end)
    BY <1>1, VerifyPasses
<1>3. /\ UNCHANGED <<posted, stored, alarm>>
      /\ IF LastPage(page, new)
         THEN EndPass(page, new, TRUE)
         ELSE /\ pass' = [pass EXCEPT !.state = "more", !.first = page, !.conditions = new]
              /\ UNCHANGED <<mark, score, owed>>
    BY <1>2 DEF FirstPage
<1>4. page \subseteq stored /\ stored \subseteq Timestamp /\ \A t \in page : t < pass.end
    BY <1>1, PageFacts, PassFacts
<1>5. \A t \in new : t \in page /\ IsNew(t) /\ t <= t
    <2>1. \A t \in page : t \in Nat
        BY <1>4, TimestampFacts
    <2>2. \A t \in page : t <= t
        BY <2>1
    <2> HIDE DEF page
    <2> QED
        BY <2>2
<1>6. \A t \in Timestamp : score[t] # 0 => ~IsNew(t)
    BY <1>1 DEF PagingInv, CountedInv, GatheredInv
<1>7. \A t \in new : score[t] = 0
    BY <1>4, <1>5, <1>6
<1>8. \A t \in pass.due : t \in stored /\ t < pass.end /\ IsNew(t)
    BY <1>1, PassFacts DEF PagingInv, DueInv
<1>9. CASE LastPage(page, new)
    <2>1. \A t \in pass.due : t \in new
        BY <1>1, <1>8, <1>9, LastPageHasDue
    <2>2. new \in SUBSET Timestamp /\ page \in SUBSET stored
        BY <1>4
    <2>3. EndPass(page, new, TRUE) /\ ~alarm'
        BY <1>3, <1>9 DEF PagingInv
    <2>4. \A c \in new : score[c] = 0 /\ \E f \in page : c <= f
        BY <1>5, <1>7
    <2> HIDE DEF page, new
    <2> QED
        BY <1>3, <1>6, <2>1, <2>2, <2>3, <2>4, EndStep
<1>10. CASE ~LastPage(page, new)
    <2>1. /\ pass' = [pass EXCEPT !.state = "more", !.first = page, !.conditions = new]
          /\ UNCHANGED <<posted, stored, mark, score, owed, alarm>>
        BY <1>3, <1>10
    <2>2. new = page /\ new # {}
        <3>1. new = page /\ ~(Cardinality(page) < ConditionLimit)
            BY <1>10 DEF LastPage
        <3> QED
            BY <3>1, FS_EmptySet, PagingAssumption
    <2>3. new \subseteq Timestamp
        BY <1>4
    <2>4. \A t \in pass.due : t \in page \/ \A c \in page : t < c
        BY <1>1, <1>8, PageFacts
    <2> HIDE DEF page, new
    <2>5. /\ pass'.state = "more" /\ pass'.first = page /\ pass'.conditions = new
          /\ pass'.due = pass.due
        BY <1>1, <2>1 DEF TypeInv
    <2>6. TypeInv'
        BY <1>1, <1>4, <2>1, <2>3 DEF TypeInv
    <2>7. GatheredInv'
        BY <1>5, <1>7, <2>1, <2>2, <2>5 DEF GatheredInv, IsNew
    <2>8. CountedInv'
        BY <1>6, <2>1, <2>5 DEF PagingInv, CountedInv, IsNew
    <2>9. DueInv'
        BY <1>8, <2>1, <2>2, <2>4, <2>5 DEF DueInv, IsNew
    <2> QED
        BY <2>1, <2>6, <2>7, <2>8, <2>9 DEF PagingInv
<1> QED
    BY <1>9, <1>10

\* The cursor moves to the oldest condition gathered, and what was gathered may
\* be counted.
LEMMA TurnStep == ASSUME PagingInv, TurnPage PROVE PagingInv'
<1> DEFINE end == Oldest(pass.conditions)
           pay == (pass.pages + 1) % ConditionPagingStep = 0
<1>1. TypeInv /\ pass.state = "more" /\ pass.conditions # {} /\ pass.conditions \subseteq Timestamp
    BY PassFacts DEF PagingInv, GatheredInv, TurnPage
<1>2. end \in pass.conditions /\ \A c \in pass.conditions : end <= c
    <2>1. pass.conditions \in SUBSET Nat
        BY <1>1, TimestampFacts
    <2>2. \E m \in pass.conditions : \A x \in pass.conditions : m <= x
        BY <1>1, <2>1, Least
    <2> QED
        BY <2>2 DEF Oldest
<1>3. /\ pass' = [pass EXCEPT !.state = "asking", !.pages = pass.pages + 1, !.end = end,
                     !.conditions = IF pay THEN {} ELSE pass.conditions]
      /\ score' = IF pay THEN Counted(pass.conditions) ELSE score
      /\ UNCHANGED <<posted, stored, mark, owed, alarm>>
    BY DEF TurnPage
<1> HIDE DEF end, pay
<1>4. /\ pass'.state = "asking" /\ pass'.end = end /\ pass'.first = pass.first
      /\ pass'.conditions = IF pay THEN {} ELSE pass.conditions
      /\ pass'.due = pass.due
    BY <1>1, <1>3 DEF TypeInv
<1>5. \A t \in Timestamp :
          /\ score[t] \in {0, 1}
          /\ score'[t] = IF pay /\ t \in pass.conditions /\ score[t] < 2
                         THEN score[t] + 1 ELSE score[t]
    BY <1>1, <1>3 DEF PagingInv, TypeInv, CountedInv, Counted
<1>6. \A c \in pass.conditions : score[c] = 0 /\ IsNew(c) /\ \E f \in pass.first : c <= f
    BY DEF PagingInv, GatheredInv
<1>7. \A t \in Timestamp : score'[t] \in {0, 1} /\ (score[t] # 0 => score'[t] # 0)
    BY <1>1, <1>5, <1>6
<1>8. TypeInv'
    <2>1. end \in Nat
        BY <1>1, <1>2, TimestampFacts
    <2>2. score' \in [Timestamp -> 0..2]
        BY <1>1, <1>3 DEF TypeInv, Counted
    <2>3. pass.pages + 1 \in Nat
        BY <1>1 DEF TypeInv
    <2>4. (IF pay THEN {} ELSE pass.conditions) \in SUBSET Timestamp
        BY <1>1
    <2>5. pass' \in [state : {"idle", "first", "more", "asking"}, end : Nat,
                     conditions : SUBSET Timestamp, first : SUBSET stored,
                     pages : Nat, due : SUBSET stored]
        BY <1>1, <1>3, <2>1, <2>3, <2>4 DEF TypeInv
    <2> QED
        BY <1>1, <1>3, <2>2, <2>5 DEF TypeInv
<1>9. GatheredInv'
    <2>0. \E f \in pass.first : end <= f
        BY <1>2, <1>6
    <2>1. CASE pay
        BY <1>4, <2>0, <2>1 DEF GatheredInv
    <2>2. CASE ~pay
        BY <1>2, <1>3, <1>4, <1>6, <2>0, <2>2 DEF GatheredInv, IsNew
    <2> QED
        BY <2>1, <2>2
<1>10. CountedInv'
    <2> SUFFICES ASSUME NEW t \in Timestamp, score'[t] # 0, IsNew(t)
                 PROVE  (\E f \in pass.first : t <= f) /\ end <= t
        BY <1>3, <1>4, <1>7 DEF CountedInv, IsNew
    <2>1. CASE t \in pass.conditions
        BY <1>2, <1>6, <2>1
    <2>2. CASE t \notin pass.conditions
        <3>1. score[t] # 0
            BY <1>5, <2>2
        <3>2. (\E f \in pass.first : t <= f) /\ \E c \in pass.conditions : c <= t
            BY <1>1, <3>1 DEF PagingInv, CountedInv
        <3>3. PICK c \in pass.conditions : c <= t
            BY <3>2
        <3>4. end \in Nat /\ c \in Nat /\ t \in Nat
            BY <1>1, <1>2, TimestampFacts
        <3> QED
            BY <1>2, <3>2, <3>3, <3>4
    <2> QED
        BY <2>1, <2>2
<1>11. DueInv'
    <2> SUFFICES ASSUME NEW t \in pass.due
                 PROVE  /\ IsNew(t)
                        /\ score'[t] # 0 \/ t \in pass'.conditions \/ t < end
        BY <1>3, <1>4 DEF DueInv, IsNew
    <2>1. t \in Timestamp /\ IsNew(t)
        BY <1>1, PassFacts DEF PagingInv, DueInv
    <2>2. CASE score[t] # 0
        BY <1>7, <2>1, <2>2
    <2>3. CASE t \in pass.conditions
        BY <1>4, <1>5, <1>6, <2>1, <2>3
    <2>4. CASE \A c \in pass.conditions : t < c
        BY <1>2, <2>1, <2>4
    <2> QED
        BY <1>1, <2>1, <2>2, <2>3, <2>4 DEF PagingInv, DueInv
<1> QED
    BY <1>3, <1>8, <1>9, <1>10, <1>11 DEF PagingInv

\* A further page: the pass is over, or goes on from it.
LEMMA NextStep == ASSUME PagingInv, NextPage PROVE PagingInv'
<1> DEFINE page == Page(pass.end)
           new == {t \in page : IsNew(t)}
           conditions == pass.conditions \cup new
<1>1. TypeInv /\ pass.end \in Nat /\ pass.state = "asking"
    BY PassFacts DEF PagingInv, NextPage
<1>2. Verify(page, pass.end)
    BY <1>1, VerifyPasses
<1>3. /\ UNCHANGED <<posted, stored, alarm>>
      /\ IF LastPage(page, new)
         THEN EndPass(pass.first, conditions, TRUE)
         ELSE /\ pass' = [pass EXCEPT !.state = "more", !.conditions = conditions]
              /\ UNCHANGED <<mark, score, owed>>
    BY <1>2 DEF NextPage
<1>4. /\ page \subseteq stored /\ stored \subseteq Timestamp /\ Timestamp \subseteq Nat
      /\ \A t \in page : t < pass.end
    BY <1>1, PageFacts, PassFacts, TimestampFacts
<1>5. /\ \A c \in pass.conditions :
            /\ IsNew(c) /\ score[c] = 0 /\ pass.end <= c
            /\ \E f \in pass.first : c <= f
      /\ pass.conditions \subseteq Timestamp
    BY <1>1, PassFacts DEF PagingInv, GatheredInv
<1>6. \A t \in Timestamp : score[t] # 0 /\ IsNew(t) =>
          (\E f \in pass.first : t <= f) /\ pass.end <= t
    BY <1>1 DEF PagingInv, CountedInv
<1>7. \A t \in pass.due :
          /\ t \in stored /\ IsNew(t)
          /\ score[t] # 0 \/ t \in pass.conditions \/ t < pass.end
    BY <1>1, PassFacts DEF PagingInv, DueInv
<1>8. \A t \in new : t \in page /\ IsNew(t) /\ t \in Timestamp /\ score[t] = 0
    <2>1. ASSUME NEW t \in page, IsNew(t), score[t] # 0 PROVE FALSE
        <3>1. t \in Timestamp /\ t \in Nat /\ t < pass.end
            BY <1>4
        <3>2. pass.end <= t
            BY <1>6, <2>1, <3>1
        <3> QED
            BY <1>1, <3>1, <3>2
    <2> QED
        BY <1>4, <2>1
\* What was new on the page lies behind the first page, and is not counted.
<1>9. ASSUME NEW t \in new PROVE \E f \in pass.first : t <= f
    <2>1. PICK f \in pass.first : pass.end <= f
        BY <1>1 DEF PagingInv, GatheredInv
    <2>2. f \in Nat /\ t \in Nat /\ t < pass.end
        BY <1>4, <1>8, <2>1, PassFacts DEF PagingInv
    <2> QED
        BY <1>1, <2>1, <2>2
<1>10. CASE LastPage(page, new)
    <2>1. \A t \in pass.due : score[t] # 0 \/ t \in conditions
        <3> SUFFICES ASSUME NEW t \in pass.due, t < pass.end PROVE t \in new
            BY <1>7
        <3> QED
            BY <1>1, <1>7, <1>10, LastPageHasDue
    <2>2. conditions \in SUBSET Timestamp /\ pass.first \in SUBSET stored
        BY <1>5, <1>8, PassFacts DEF PagingInv
    <2>3. EndPass(pass.first, conditions, TRUE) /\ ~alarm'
        BY <1>3, <1>10 DEF PagingInv
    <2>4. \A c \in conditions : score[c] = 0 /\ \E f \in pass.first : c <= f
        BY <1>5, <1>8, <1>9
    <2> HIDE DEF page, new, conditions
    <2> QED
        BY <1>3, <1>6, <2>1, <2>2, <2>3, <2>4, EndStep
<1>11. CASE ~LastPage(page, new)
    <2>1. /\ pass' = [pass EXCEPT !.state = "more", !.conditions = conditions]
          /\ UNCHANGED <<posted, stored, mark, score, owed, alarm>>
        BY <1>3, <1>11
    <2>2. new = page /\ new # {}
        <3>1. new = page /\ ~(Cardinality(page) < ConditionLimit)
            BY <1>11 DEF LastPage
        <3> QED
            BY <3>1, FS_EmptySet, PagingAssumption
    <2>3. conditions \subseteq Timestamp /\ conditions # {}
        BY <1>5, <1>8, <2>2
    <2>4. \A t \in stored : t < pass.end /\ t \notin page => \A c \in page : t < c
        BY <1>1, PageFacts
    <2>5. \A t \in Timestamp : t < pass.end => \A c \in pass.conditions : t < c
        <3> SUFFICES ASSUME NEW t \in Timestamp, t < pass.end, NEW c \in pass.conditions
                     PROVE  t < c
            OBVIOUS
        <3>1. t \in Nat /\ c \in Nat /\ pass.end <= c
            BY <1>4, <1>5
        <3> QED
            BY <1>1, <3>1
    <2>6. PICK p \in page : TRUE
        BY <2>2
    <2>7. \A t \in Timestamp : pass.end <= t => p <= t
        <3>1. p \in Nat /\ p < pass.end
            BY <1>4
        <3>2. \A t \in Timestamp : t \in Nat
            BY <1>4
        <3> QED
            BY <1>1, <3>1, <3>2
    <2>8. /\ \A c \in conditions : IsNew(c) /\ score[c] = 0 /\ \E f \in pass.first : c <= f
          /\ p \in conditions
        BY <1>5, <1>8, <1>9, <2>2
    <2>9. \A t \in pass.due : \/ score[t] # 0
                              \/ t \in conditions
                              \/ \A c \in conditions : t < c
        BY <1>4, <1>7, <2>2, <2>4, <2>5
    <2> HIDE DEF page, new, conditions
    <2>10. /\ pass'.state = "more" /\ pass'.conditions = conditions
           /\ pass'.first = pass.first /\ pass'.due = pass.due
        BY <1>1, <2>1 DEF TypeInv
    <2>11. TypeInv'
        BY <1>1, <2>1, <2>3 DEF TypeInv
    <2>12. GatheredInv'
        BY <2>1, <2>3, <2>8, <2>10 DEF GatheredInv, IsNew
    <2>13. CountedInv'
        BY <1>6, <2>1, <2>7, <2>8, <2>10 DEF PagingInv, CountedInv, IsNew
    <2>14. DueInv'
        BY <1>7, <2>1, <2>9, <2>10 DEF DueInv, IsNew
    <2> QED
        BY <2>1, <2>11, <2>12, <2>13, <2>14 DEF PagingInv
<1> QED
    BY <1>10, <1>11

\* A request fails: the pass is given up, the marks keep its first page.
LEMMA FailStep == ASSUME PagingInv, PageFails PROVE PagingInv'
<1>1. /\ EndPass(pass.first, {}, FALSE) /\ UNCHANGED <<posted, stored>> /\ ~alarm'
    BY DEF PageFails, PagingInv
<1>2. pass.first \in SUBSET stored
    BY PassFacts DEF PagingInv
<1>3. \A t \in Timestamp : score[t] # 0 /\ IsNew(t) => \E f \in pass.first : t <= f
    BY DEF PagingInv, CountedInv
<1> DEFINE none == {}
           failed == FALSE
<1>4. /\ none \in SUBSET Timestamp
      /\ failed \in BOOLEAN
      /\ \A c \in none : score[c] = 0 /\ \E f \in pass.first : c <= f
      /\ failed => \A t \in pass.due : score[t] # 0 \/ t \in none
    OBVIOUS
<1>5. EndPass(pass.first, none, failed)
    BY <1>1
<1> HIDE DEF none, failed
<1> QED
    BY <1>1, <1>2, <1>3, <1>4, <1>5, EndStep

----------------------------------------------------------------------------
(* Theorems. *)

\* The invariant is inductive.
LEMMA InvStep == PagingInv /\ [Next]_vars => PagingInv'
<1> SUFFICES ASSUME PagingInv, [Next]_vars PROVE PagingInv'
    OBVIOUS
<1>1. CASE UNCHANGED vars
    BY <1>1 DEF vars, PagingInv, TypeInv, GatheredInv, CountedInv, DueInv, IsNew
<1>2. CASE Next
    BY <1>2, ServerSteps, StartStep, FirstStep, TurnStep, NextStep, FailStep DEF Next, User
<1> QED
    BY <1>1, <1>2

\* In every reachable state the conditions counted, gathered and due stand as
\* the cursor of the pass says.
THEOREM PagingInvHolds == Spec => []PagingInv
<1> QED
    BY PagingInit, InvStep, PTL DEF Spec

\* The check of the marks accuses no server that only adds rows, whatever the
\* length of the pages and the number of failed requests.
THEOREM NoFalseAlarmHolds == Spec => []NoFalseAlarm
<1>1. PagingInv => NoFalseAlarm
    BY DEF PagingInv, NoFalseAlarm
<1> QED
    BY <1>1, PagingInvHolds, PTL

\* No condition is worth points twice.
THEOREM CountedOnceHolds == Spec => []CountedOnce
<1>1. PagingInv => CountedOnce
    BY DEF PagingInv, CountedInv, CountedOnce
<1> QED
    BY <1>1, PagingInvHolds, PTL

\* A pass without error leaves out nothing that was there when it began.
THEOREM NothingSkippedHolds == Spec => []NothingSkipped
<1>1. PagingInv => NothingSkipped
    BY DEF PagingInv, NothingSkipped
<1> QED
    BY <1>1, PagingInvHolds, PTL

----------------------------------------------------------------------------
(* Loops. *)

\* What holds before a loop, and after a round when it did before, holds after
\* every round: G holds the rounds after which it does.
LEMMA Rounds ==
    ASSUME NEW n \in Nat, NEW G, 0 \in G,
           \A i \in 0..(n - 1) : i \in G => i + 1 \in G
    PROVE  \A i \in 0..n : i \in G
<1> DEFINE B == {i \in 0..n : i \notin G}
<1> SUFFICES ASSUME B # {} PROVE FALSE
    OBVIOUS
<1>1. PICK m \in B : \A i \in B : m <= i
    <2> B \in SUBSET Nat
        OBVIOUS
    <2> HIDE DEF B
    <2> QED
        BY Least
<1>2. m \in 0..n /\ m \notin G /\ m # 0
    OBVIOUS
<1>3. m - 1 \in 0..(n - 1) /\ m - 1 \in 0..n /\ (m - 1) + 1 = m /\ ~(m <= m - 1)
    BY <1>2
<1>4. m - 1 \in G
    BY <1>1, <1>3
<1> HIDE DEF B
<1>5. (m - 1) + 1 \in G
    BY <1>3, <1>4
<1> QED
    BY <1>2, <1>3, <1>5

\* The runs of a loop of n rounds, whose states are in T: the state after each.
Runs(n, T, init, step) ==
    {f \in [0..n -> T] : f[0] = init /\ \A i \in 1..n : f[i] = step[<<f[i - 1], i>>]}

\* There is one.
LEMMA LoopRuns ==
    ASSUME NEW n \in Nat, NEW T, NEW init \in T, NEW step \in [T \X (1..n) -> T]
    PROVE  Runs(n, T, init, step) # {}
<1> DEFINE G == {i \in 0..n : \E f \in [0..i -> T] :
                    f[0] = init /\ \A j \in 1..i : f[j] = step[<<f[j - 1], j>>]}
<1>1. 0 \in G
    <2>1. [j \in 0..0 |-> init] \in [0..0 -> T] /\ 0 \in 0..n /\ 1..0 = {} /\ 0 \in 0..0
        OBVIOUS
    <2>2. [j \in 0..0 |-> init][0] = init
        BY <2>1
    <2> QED
        BY <2>1, <2>2
<1>2. ASSUME NEW i \in 0..(n - 1), i \in G PROVE i + 1 \in G
    <2>1. PICK f \in [0..i -> T] :
             f[0] = init /\ \A j \in 1..i : f[j] = step[<<f[j - 1], j>>]
        BY <1>2
    <2>2. /\ i \in Nat /\ i + 1 \in 0..n /\ i + 1 \in 1..n /\ i \in 0..i /\ 0 \in 0..i
          /\ \A j \in 0..(i + 1) : j \in 0..i \/ j = i + 1
          /\ \A j \in 1..i : j \in 0..i /\ j - 1 \in 0..i
          /\ \A j \in 0..i : j # i + 1 /\ j \in 0..(i + 1)
          /\ i + 1 \in 0..(i + 1) /\ (i + 1) - 1 = i /\ 0 # i + 1
          /\ \A j \in 1..(i + 1) : j \in 1..i \/ j = i + 1
        OBVIOUS
    <2> DEFINE last == step[<<f[i], i + 1>>]
               g == [j \in 0..(i + 1) |-> IF j = i + 1 THEN last ELSE f[j]]
    <2>3. last \in T
        BY <2>1, <2>2
    <2>4. g \in [0..(i + 1) -> T]
        BY <2>1, <2>2, <2>3
    <2>5. g[i + 1] = last /\ \A j \in 0..i : g[j] = f[j]
        BY <2>2
    <2>6. g[0] = init
        BY <2>1, <2>2, <2>5
    <2>7. \A j \in 1..(i + 1) : g[j] = step[<<g[j - 1], j>>]
        <3> SUFFICES ASSUME NEW j \in 1..(i + 1) PROVE g[j] = step[<<g[j - 1], j>>]
            OBVIOUS
        <3>1. CASE j = i + 1
            BY <2>2, <2>5, <3>1
        <3>2. CASE j \in 1..i
            <4> HIDE DEF g
            <4> QED
                BY <2>1, <2>2, <2>5, <3>2
        <3> QED
            BY <2>2, <3>1, <3>2
    <2> HIDE DEF g
    <2> QED
        BY <2>2, <2>4, <2>6, <2>7
<1>3. n \in G
    <2> HIDE DEF G
    <2>1. \A i \in 0..n : i \in G
        BY <1>1, <1>2, Rounds
    <2> QED
        BY <2>1
<1> QED
    BY <1>3 DEF Runs

----------------------------------------------------------------------------
(* Arrays of timestamps, newest first and padded with zeros. *)

\* Array a holds the timestamps of S.
Holds(a, S) ==
    /\ a \in [1..ConditionLimit -> Nat]
    /\ \A j, k \in 1..ConditionLimit : j < k => a[k] < a[j] \/ a[k] = 0
    /\ \A k \in 1..ConditionLimit : a[k] = 0 \/ a[k] \in S
    /\ \A t \in S : \E k \in 1..ConditionLimit : a[k] = t

\* The timestamps of a set can be sorted: the k-th has k - 1 of them above it.
LEMMA SortedFacts ==
    ASSUME NEW S \in SUBSET Timestamp
    PROVE  /\ Cardinality(S) \in Nat
           /\ Sorted(S) \in [1..Cardinality(S) -> S]
           /\ \A j, k \in 1..Cardinality(S) : j < k => Sorted(S)[j] > Sorted(S)[k]
           /\ \A t \in S : \E k \in 1..Cardinality(S) : Sorted(S)[k] = t
<1> DEFINE n == Cardinality(S)
           rank == [t \in S |-> Cardinality(Above(S, t)) + 1]
<1>1. IsFiniteSet(S) /\ n \in Nat /\ \A t \in S : t \in Nat
    BY AboveFacts, FS_CardinalityType, TimestampFacts
<1>2. ASSUME NEW t \in S PROVE rank[t] \in 1..n
    <2>1. Above(S, t) \cup {t} \in SUBSET S /\ t \notin Above(S, t)
        BY <1>1 DEF Above
    <2>2. IsFiniteSet(Above(S, t)) /\ Cardinality(Above(S, t)) \in Nat
        BY AboveFacts
    <2>3. Cardinality(Above(S, t) \cup {t}) = Cardinality(Above(S, t)) + 1
        BY <2>1, <2>2, FS_AddElement
    <2>4. Cardinality(Above(S, t) \cup {t}) <= n
        BY <1>1, <2>1, FS_Subset
    <2> QED
        BY <1>1, <2>2, <2>3, <2>4
<1>3. ASSUME NEW t \in S, NEW u \in S, t < u PROVE rank[u] < rank[t]
    <2>1. u \notin Above(S, u) /\ Above(S, u) \cup {u} \in SUBSET Above(S, t)
        BY <1>1, <1>3 DEF Above
    <2>2. /\ IsFiniteSet(Above(S, u)) /\ Cardinality(Above(S, u)) \in Nat
          /\ IsFiniteSet(Above(S, t)) /\ Cardinality(Above(S, t)) \in Nat
        BY AboveFacts
    <2>3. Cardinality(Above(S, u) \cup {u}) = Cardinality(Above(S, u)) + 1
        BY <2>1, <2>2, FS_AddElement
    <2>4. Cardinality(Above(S, u) \cup {u}) <= Cardinality(Above(S, t))
        BY <2>1, <2>2, FS_Subset
    <2> QED
        BY <2>2, <2>3, <2>4
<1> HIDE DEF rank, n
<1>4. rank \in Surjection(S, 1..n)
    <2>1. rank \in [S -> 1..n]
        BY <1>2 DEF rank
    <2>2. rank \in Injection(S, 1..n)
        <3>1. ASSUME NEW t \in S, NEW u \in S, rank[t] = rank[u] PROVE t = u
            <4>1. ~(t < u) /\ ~(u < t)
                BY <1>2, <1>3, <3>1
            <4> QED
                BY <1>1, <4>1
        <3> QED
            BY <2>1, <3>1 DEF Injection, IsInjective
    <2>3. IsFiniteSet(1..n) /\ Cardinality(1..n) = n
        BY <1>1, FS_Interval
    <2> QED
        BY <1>1, <2>2, <2>3, FS_Injection DEF n
<1> DEFINE at == [k \in 1..n |-> CHOOSE t \in S : rank[t] = k]
<1>5. ASSUME NEW k \in 1..n PROVE at[k] \in S /\ rank[at[k]] = k
    BY <1>4 DEF Surjection
<1>6. at \in [1..n -> S] /\ \A j, k \in 1..n : j < k => at[j] > at[k]
    <2>1. at \in [1..n -> S]
        BY <1>5
    <2> HIDE DEF at
    <2>2. ASSUME NEW j \in 1..n, NEW k \in 1..n, j < k PROVE at[j] > at[k]
        <3>1. at[j] \in S /\ at[k] \in S /\ rank[at[j]] < rank[at[k]]
            BY <1>5, <2>2
        <3>2. ~(at[j] < at[k]) /\ at[j] # at[k]
            <4>1. rank[at[j]] \in Int /\ rank[at[k]] \in Int
                BY <1>2, <3>1
            <4>2. at[j] < at[k] => rank[at[k]] < rank[at[j]]
                BY <1>3, <3>1
            <4> QED
                BY <3>1, <4>1, <4>2
        <3> QED
            BY <1>1, <3>1, <3>2
    <2> QED
        BY <2>1, <2>2
<1> HIDE DEF at
<1>7. Sorted(S) \in [1..n -> S] /\ \A j, k \in 1..n : j < k => Sorted(S)[j] > Sorted(S)[k]
    BY <1>6 DEF Sorted, n
<1>8. Sorted(S) \in Surjection(1..n, S)
    <2>1. Sorted(S) \in Injection(1..n, S)
        <3>1. ASSUME NEW j \in 1..n, NEW k \in 1..n, Sorted(S)[j] = Sorted(S)[k] PROVE j = k
            <4>1. /\ j < k => Sorted(S)[j] > Sorted(S)[k]
                  /\ k < j => Sorted(S)[k] > Sorted(S)[j]
                  /\ Sorted(S)[j] \in Nat /\ Sorted(S)[k] \in Nat
                BY <1>1, <1>7
            <4>2. ~(j < k) /\ ~(k < j)
                BY <3>1, <4>1
            <4> QED
                BY <1>1, <4>2
        <3> QED
            BY <1>7, <3>1 DEF Injection, IsInjective
    <2>2. Cardinality(1..n) = n
        BY <1>1, FS_Interval
    <2> QED
        BY <1>1, <2>1, <2>2, FS_Injection DEF n
<1> QED
    BY <1>1, <1>7, <1>8 DEF Surjection, n

\* What the array holds that pads a sorted set.
LEMMA PaddedFacts ==
    ASSUME NEW S \in SUBSET Timestamp, Cardinality(S) <= ConditionLimit
    PROVE  /\ Len(Sorted(S)) = Cardinality(S)
           /\ Holds(Padded(Sorted(S)), S)
           /\ \A k \in 1..ConditionLimit :
                 Padded(Sorted(S))[k] = IF k <= Cardinality(S) THEN Sorted(S)[k] ELSE 0
<1> DEFINE n == Cardinality(S)
           s == Sorted(S)
           a == Padded(s)
<1>1. /\ n \in Nat /\ s \in [1..n -> S]
      /\ \A j, k \in 1..n : j < k => s[j] > s[k]
      /\ \A t \in S : \E k \in 1..n : s[k] = t
    BY SortedFacts
<1>2. n <= ConditionLimit /\ ConditionLimit \in Nat \ {0}
    BY PagingAssumption
<1>3. \A t \in S : t \in Nat
    BY TimestampFacts
<1> HIDE DEF n, s
<1>4. Len(s) = n
    <2>1. s \in Seq(S)
        BY <1>1
    <2> QED
        BY <1>1, <2>1
<1>5. a = [k \in 1..ConditionLimit |-> IF k <= n THEN s[k] ELSE 0]
    BY <1>4 DEF Padded
<1> HIDE DEF a
<1>6. ASSUME NEW k \in 1..ConditionLimit
      PROVE  /\ a[k] = IF k <= n THEN s[k] ELSE 0
             /\ a[k] \in Nat /\ (a[k] = 0 \/ a[k] \in S)
    BY <1>1, <1>2, <1>3, <1>5
<1>7. ASSUME NEW j \in 1..ConditionLimit, NEW k \in 1..ConditionLimit, j < k
      PROVE  a[k] < a[j] \/ a[k] = 0
    <2>1. CASE k <= n
        <3>1. j \in 1..n /\ k \in 1..n /\ j <= n
            BY <1>1, <1>2, <1>7, <2>1
        <3>2. a[k] = s[k] /\ a[j] = s[j] /\ s[j] > s[k] /\ s[j] \in Nat /\ s[k] \in Nat
            BY <1>1, <1>3, <1>6, <1>7, <2>1, <3>1
        <3> QED
            BY <3>2
    <2>2. CASE ~(k <= n)
        BY <1>6, <2>2
    <2> QED
        BY <2>1, <2>2
<1>8. ASSUME NEW t \in S PROVE \E k \in 1..ConditionLimit : a[k] = t
    <2>1. PICK k \in 1..n : s[k] = t
        BY <1>1
    <2>2. k \in 1..ConditionLimit /\ k <= n
        BY <1>1, <1>2
    <2> QED
        BY <1>6, <2>1, <2>2
<1>9. Holds(a, S)
    <2>1. a \in [1..ConditionLimit -> Nat]
        BY <1>5, <1>6
    <2> QED
        BY <2>1, <1>6, <1>7, <1>8 DEF Holds
<1> QED
    BY <1>4, <1>6, <1>9 DEF n, s, a

\* Two arrays that hold the same set are equal.
LEMMA OneArray ==
    ASSUME NEW S \in SUBSET Timestamp, NEW a, NEW b, Holds(a, S), Holds(b, S)
    PROVE  a = b
<1> DEFINE D == {k \in 1..ConditionLimit : a[k] # b[k]}
<1>1. ConditionLimit \in Nat /\ \A t \in S : t \in Nat /\ t # 0
    BY PagingAssumption DEF Timestamp
<1>2. SUFFICES ASSUME D # {} PROVE FALSE
    <2>1. CASE D = {}
        <3>1. \A k \in 1..ConditionLimit : a[k] = b[k]
            BY <2>1
        <3>2. /\ a = [k \in 1..ConditionLimit |-> a[k]]
              /\ b = [k \in 1..ConditionLimit |-> b[k]]
            BY DEF Holds
        <3> QED
            BY <3>1, <3>2
    <2> QED
        BY <2>1
<1>3. PICK m \in D : \A k \in D : m <= k
    <2> D \in SUBSET Nat
        BY <1>1
    <2> HIDE DEF D
    <2> QED
        BY <1>2, Least
<1>4. m \in 1..ConditionLimit /\ a[m] # b[m]
    OBVIOUS
<1>5. ASSUME NEW k \in 1..ConditionLimit, k < m PROVE a[k] = b[k]
    <2>1. ~(m <= k)
        BY <1>1, <1>4, <1>5
    <2> QED
        BY <1>3, <2>1
<1> HIDE DEF D
\* The greater of the two would have to stand earlier in the other array.
<1>6. ASSUME NEW x, NEW y, Holds(x, S), Holds(y, S), x[m] > y[m],
             \A k \in 1..ConditionLimit : k < m => x[k] = y[k]
      PROVE  FALSE
    <2>1. x[m] \in Nat /\ y[m] \in Nat /\ x[m] \in S
        BY <1>4, <1>6 DEF Holds
    <2>2. PICK k \in 1..ConditionLimit : y[k] = x[m]
        BY <1>6, <2>1 DEF Holds
    <2>3. CASE k < m
        <3>1. x[k] = x[m]
            BY <1>6, <2>2, <2>3
        <3>2. x[m] < x[k] \/ x[m] = 0
            BY <1>4, <1>6, <2>3 DEF Holds
        <3> QED
            BY <1>1, <2>1, <3>1, <3>2
    <2>4. CASE k = m
        BY <1>6, <2>1, <2>2, <2>4
    <2>5. CASE m < k
        <3>1. y[k] < y[m] \/ y[k] = 0
            BY <1>4, <1>6, <2>5 DEF Holds
        <3> QED
            BY <1>1, <1>6, <2>1, <2>2, <3>1
    <2> QED
        BY <1>1, <1>4, <2>3, <2>4, <2>5
<1>7. a[m] \in Nat /\ b[m] \in Nat
    BY <1>4 DEF Holds
<1>8. a[m] > b[m] \/ b[m] > a[m]
    BY <1>4, <1>7
<1> QED
    BY <1>5, <1>6, <1>8

----------------------------------------------------------------------------
(* The merges. *)

\* Of array a, what stands before p was written in the first i rounds, and
\* what was written is newer than the rest.
Behind(a, p, c, i) ==
    \A k \in 1..ConditionLimit :
        /\ k < p => a[k] = 0 \/ \E j \in 1..i : c[j] = a[k]
        /\ k >= p => \A j \in 1..i : a[k] < c[j] \/ a[k] = 0

\* One round leaves it so.
LEMMA BehindStep ==
    ASSUME NEW A \in SUBSET Timestamp, NEW a, Holds(a, A), NEW c,
           NEW i \in 1..ConditionLimit, NEW p \in 1..ConditionLimit,
           Behind(a, p, c, i - 1), c[i] \in Nat,
           NEW next \in {p, p + 1},
           next = p => a[p] < c[i] \/ a[p] = 0,
           next = p + 1 => a[p] = c[i] \/ a[p] = 0
    PROVE  Behind(a, next, c, i)
<1> SUFFICES ASSUME NEW k \in 1..ConditionLimit
             PROVE  /\ k < next => a[k] = 0 \/ \E j \in 1..i : c[j] = a[k]
                    /\ k >= next => \A j \in 1..i : a[k] < c[j] \/ a[k] = 0
    BY DEF Behind
<1>1. /\ ConditionLimit \in Nat /\ i \in 1..i /\ i \in Nat /\ p \in Nat /\ k \in Nat
      /\ \A j \in 1..(i - 1) : j \in 1..i
      /\ \A j \in 1..i : j \in 1..(i - 1) \/ j = i
    BY PagingAssumption
<1>2. /\ a[k] \in Nat /\ a[p] \in Nat
      /\ p < k => a[k] < a[p] \/ a[k] = 0
    BY DEF Holds
<1>3. /\ k < p => a[k] = 0 \/ \E j \in 1..(i - 1) : c[j] = a[k]
      /\ k >= p => \A j \in 1..(i - 1) : a[k] < c[j] \/ a[k] = 0
    BY DEF Behind
<1>4. ASSUME k < next PROVE a[k] = 0 \/ \E j \in 1..i : c[j] = a[k]
    <2>1. CASE k < p
        BY <1>1, <1>3, <2>1
    <2>2. CASE ~(k < p)
        <3>1. k = p /\ next = p + 1
            BY <1>1, <1>4, <2>2
        <3> QED
            BY <1>1, <3>1
    <2> QED
        BY <2>1, <2>2
<1>5. ASSUME k >= next, NEW j \in 1..i PROVE a[k] < c[j] \/ a[k] = 0
    <2>1. k >= p
        BY <1>1, <1>5
    <2>2. CASE j \in 1..(i - 1)
        BY <1>3, <2>1, <2>2
    <2>3. CASE j = i
        <3>1. CASE k = p
            <4>1. next = p
                BY <1>1, <1>5, <3>1
            <4> QED
                BY <2>3, <3>1, <4>1
        <3>2. CASE p < k
            BY <1>2, <2>3, <3>2
        <3> QED
            BY <1>1, <2>1, <3>1, <3>2
    <2> QED
        BY <1>1, <2>2, <2>3
<1> QED
    BY <1>4, <1>5

\* Round i of a merge into c, with the indexes x and y.
Round(a, b, x, y, c, i) ==
    \/ /\ a[x[i - 1]] > b[y[i - 1]] /\ c[i] = a[x[i - 1]]
       /\ x[i] = x[i - 1] + 1 /\ y[i] = y[i - 1]
    \/ /\ a[x[i - 1]] < b[y[i - 1]] /\ c[i] = b[y[i - 1]]
       /\ x[i] = x[i - 1] /\ y[i] = y[i - 1] + 1
    \/ /\ a[x[i - 1]] = b[y[i - 1]] /\ c[i] = a[x[i - 1]]
       /\ x[i] = x[i - 1] + 1 /\ y[i] = y[i - 1] + 1
    \/ /\ a[x[i - 1]] = 0 /\ b[y[i - 1]] = 0 /\ c[i] = 0
       /\ x[i] = x[i - 1] + 1 /\ y[i] = y[i - 1]

\* The array written so far holds timestamps of both, newest first.
Written(a, b, A, B, x, y, c, i) ==
    /\ x[i] \in 1..(i + 1) /\ y[i] \in 1..(i + 1)
    /\ \A j \in 1..i : c[j] \in Nat /\ (c[j] = 0 \/ c[j] \in A \cup B)
    /\ \A j, k \in 1..i : j < k => c[k] < c[j] \/ c[k] = 0
    /\ Behind(a, x[i], c, i) /\ Behind(b, y[i], c, i)

LEMMA RoundStep ==
    ASSUME NEW A \in SUBSET Timestamp, NEW B \in SUBSET Timestamp,
           NEW a, NEW b, Holds(a, A), Holds(b, B), NEW x, NEW y, NEW c,
           NEW i \in 1..ConditionLimit,
           Written(a, b, A, B, x, y, c, i - 1), Round(a, b, x, y, c, i)
    PROVE  Written(a, b, A, B, x, y, c, i)
<1> DEFINE p == x[i - 1]
           q == y[i - 1]
<1>1. ConditionLimit \in Nat /\ i \in Nat /\ (i - 1) + 1 = i
    BY PagingAssumption
<1>2. /\ p \in 1..i /\ q \in 1..i
      /\ \A j \in 1..(i - 1) : c[j] \in Nat /\ (c[j] = 0 \/ c[j] \in A \cup B)
      /\ \A j, k \in 1..(i - 1) : j < k => c[k] < c[j] \/ c[k] = 0
      /\ Behind(a, p, c, i - 1) /\ Behind(b, q, c, i - 1)
    BY <1>1 DEF Written
<1>3. p \in 1..ConditionLimit /\ q \in 1..ConditionLimit
    BY <1>1, <1>2
<1>4. /\ a[p] \in Nat /\ b[q] \in Nat
      /\ a[p] = 0 \/ a[p] \in A
      /\ b[q] = 0 \/ b[q] \in B
    BY <1>3 DEF Holds
<1>5. \/ a[p] > b[q] /\ c[i] = a[p] /\ x[i] = p + 1 /\ y[i] = q
      \/ a[p] < b[q] /\ c[i] = b[q] /\ x[i] = p /\ y[i] = q + 1
      \/ a[p] = b[q] /\ c[i] = a[p] /\ x[i] = p + 1 /\ y[i] = q + 1
      \/ a[p] = 0 /\ b[q] = 0 /\ c[i] = 0 /\ x[i] = p + 1 /\ y[i] = q
    BY DEF Round
<1> HIDE DEF p, q
<1>6. /\ c[i] \in Nat /\ (c[i] = 0 \/ c[i] \in A \cup B)
      /\ c[i] = a[p] \/ c[i] = b[q]
      /\ x[i] \in {p, p + 1} /\ y[i] \in {q, q + 1}
    BY <1>4, <1>5
<1>7. x[i] \in 1..(i + 1) /\ y[i] \in 1..(i + 1)
    BY <1>1, <1>2, <1>6
<1>8. \A j \in 1..i : c[j] \in Nat /\ (c[j] = 0 \/ c[j] \in A \cup B)
    <2>1. \A j \in 1..i : j \in 1..(i - 1) \/ j = i
        BY <1>1
    <2> QED
        BY <1>2, <1>6, <2>1
<1>9. ASSUME NEW j \in 1..i, NEW k \in 1..i, j < k PROVE c[k] < c[j] \/ c[k] = 0
    <2>1. j \in 1..(i - 1) /\ (k \in 1..(i - 1) \/ k = i)
        BY <1>1, <1>9
    <2>2. CASE k = i
        <3>1. (a[p] < c[j] \/ a[p] = 0) /\ (b[q] < c[j] \/ b[q] = 0)
            BY <1>2, <1>3, <2>1 DEF Behind
        <3> QED
            BY <1>6, <2>2, <3>1
    <2> QED
        BY <1>2, <1>9, <2>1, <2>2
<1>10. Behind(a, x[i], c, i)
    <2>1. /\ x[i] = p => a[p] < c[i] \/ a[p] = 0
          /\ x[i] = p + 1 => a[p] = c[i] \/ a[p] = 0
        BY <1>3, <1>4, <1>5
    <2> QED
        BY <1>2, <1>3, <1>6, <2>1, BehindStep
<1>11. Behind(b, y[i], c, i)
    <2>1. /\ y[i] = q => b[q] < c[i] \/ b[q] = 0
          /\ y[i] = q + 1 => b[q] = c[i] \/ b[q] = 0
        BY <1>3, <1>4, <1>5
    <2> QED
        BY <1>2, <1>3, <1>6, <2>1, BehindStep
<1> QED
    BY <1>7, <1>8, <1>9, <1>10, <1>11 DEF Written

\* When every round is one of a merge, the array written holds the newest of
\* both sets.
LEMMA MergeOf ==
    ASSUME NEW A \in SUBSET Timestamp, NEW B \in SUBSET Timestamp,
           NEW a, NEW b, Holds(a, A), Holds(b, B), NEW x, NEW y,
           x[0] = 1, y[0] = 1,
           NEW c, c = [i \in 1..ConditionLimit |-> c[i]],
           \A i \in 1..ConditionLimit :
               x[i - 1] \in 1..i /\ y[i - 1] \in 1..i => Round(a, b, x, y, c, i)
    PROVE  Holds(c, Newest(A \cup B, ConditionLimit))
<1> DEFINE U == A \cup B
           N == Newest(U, ConditionLimit)
           W(i) == Written(a, b, A, B, x, y, c, i)
<1>1. ConditionLimit \in Nat \ {0} /\ U \in SUBSET Timestamp
    BY PagingAssumption
<1>2. W(ConditionLimit)
    <2> DEFINE G == {i \in 0..ConditionLimit : W(i)}
    <2>1. 0 \in G
        <3>1. x[0] \in 1..(0 + 1) /\ y[0] \in 1..(0 + 1) /\ 1..0 = {} /\ 0 \in 0..ConditionLimit
            BY <1>1
        <3>2. Behind(a, x[0], c, 0) /\ Behind(b, y[0], c, 0)
            BY <3>1 DEF Behind
        <3> QED
            BY <3>1, <3>2 DEF Written
    <2>2. ASSUME NEW i \in 0..(ConditionLimit - 1), i \in G PROVE i + 1 \in G
        <3>1. i + 1 \in 1..ConditionLimit /\ (i + 1) - 1 = i /\ i + 1 \in 0..ConditionLimit
            BY <1>1
        <3>2. x[i] \in 1..(i + 1) /\ y[i] \in 1..(i + 1) /\ W((i + 1) - 1)
            BY <2>2, <3>1 DEF Written
        <3>3. Round(a, b, x, y, c, i + 1)
            BY <3>1, <3>2
        <3>4. W(i + 1)
            BY <3>1, <3>2, <3>3, RoundStep
        <3> QED
            BY <3>1, <3>4
    <2> HIDE DEF G
    <2>3. \A i \in 0..ConditionLimit : i \in G
        BY <1>1, <2>1, <2>2, Rounds
    <2>4. ConditionLimit \in G
        BY <1>1, <2>3
    <2> QED
        BY <2>4 DEF G
<1>3. /\ \A j \in 1..ConditionLimit : c[j] \in Nat /\ (c[j] = 0 \/ c[j] \in U)
      /\ \A j, k \in 1..ConditionLimit : j < k => c[k] < c[j] \/ c[k] = 0
    BY <1>2 DEF Written
<1>4. \A t \in U : t \in Nat /\ t # 0
    BY <1>1, PagingAssumption DEF Timestamp
\* What was not written is older than all that was.
<1>5. ASSUME NEW t \in U, \A k \in 1..ConditionLimit : c[k] # t,
             NEW j \in 1..ConditionLimit
      PROVE  t < c[j]
    <2>1. ASSUME NEW s, NEW S, Holds(s, S), NEW p, Behind(s, p, c, ConditionLimit),
                 t \in S, p \in 1..(ConditionLimit + 1)
          PROVE  t < c[j]
        <3>1. PICK k \in 1..ConditionLimit : s[k] = t
            BY <2>1 DEF Holds
        <3>2. ~(k < p)
            BY <1>4, <1>5, <2>1, <3>1 DEF Behind
        <3>3. k >= p
            BY <2>1, <3>2
        <3> QED
            BY <1>4, <2>1, <3>1, <3>3 DEF Behind
    <2>2. /\ x[ConditionLimit] \in 1..(ConditionLimit + 1)
          /\ y[ConditionLimit] \in 1..(ConditionLimit + 1)
          /\ Behind(a, x[ConditionLimit], c, ConditionLimit)
          /\ Behind(b, y[ConditionLimit], c, ConditionLimit)
        BY <1>2 DEF Written
    <2> QED
        BY <2>1, <2>2
<1> HIDE DEF U, W
<1>6. ASSUME NEW j \in 1..ConditionLimit, c[j] # 0 PROVE c[j] \in N
    <2> DEFINE V == Above(U, c[j])
               f == [v \in V |-> CHOOSE k \in 1..ConditionLimit : c[k] = v]
    <2>1. c[j] \in U /\ c[j] \in Nat
        BY <1>3, <1>6
    <2>2. ASSUME NEW v \in V
          PROVE  f[v] \in 1..(j - 1) /\ c[f[v]] = v
        <3>1. v \in U /\ v > c[j] /\ v \in Nat
            BY <1>4 DEF Above
        <3>2. \E k \in 1..ConditionLimit : c[k] = v
            <4>1. ~(v < c[j])
                BY <2>1, <3>1
            <4> QED
                BY <1>5, <3>1, <4>1
        <3>3. f[v] \in 1..ConditionLimit /\ c[f[v]] = v
            BY <3>2
        <3> HIDE DEF f, V
        <3>4. f[v] # j /\ ~(j < f[v])
            BY <1>3, <1>4, <2>1, <3>1, <3>3
        <3> QED
            BY <1>1, <3>3, <3>4
    <2> HIDE DEF f
    <2>3. f \in Injection(V, 1..(j - 1))
        <3>1. f \in [V -> 1..(j - 1)]
            <4>1. f = [v \in V |-> f[v]]
                BY DEF f
            <4> QED
                BY <2>2, <4>1
        <3>2. \A u, v \in V : f[u] = f[v] => u = v
            BY <2>2
        <3> QED
            BY <3>1, <3>2 DEF Injection, IsInjective
    <2>4. IsFiniteSet(1..(j - 1)) /\ Cardinality(1..(j - 1)) = j - 1
        BY <1>1, FS_Interval
    <2>5. Cardinality(V) <= j - 1
        BY <2>3, <2>4, FS_Injection
    <2>6. Cardinality(V) \in Nat
        BY <1>1, AboveFacts
    <2>7. Cardinality(V) < ConditionLimit
        BY <1>1, <2>5, <2>6
    <2> QED
        BY <2>1, <2>7 DEF Newest, Above
<1>7. ASSUME NEW t \in N PROVE \E k \in 1..ConditionLimit : c[k] = t
    <2> SUFFICES ASSUME \A k \in 1..ConditionLimit : c[k] # t PROVE FALSE
        OBVIOUS
    <2>1. t \in U /\ Cardinality(Above(U, t)) < ConditionLimit
        BY DEF Newest, Above
    <2>2. \A j \in 1..ConditionLimit : c[j] \in Above(U, t) /\ c[j] # 0 /\ c[j] \in Nat
        <3> TAKE j \in 1..ConditionLimit
        <3>1. t < c[j] /\ t \in Nat /\ c[j] \in Nat /\ (c[j] = 0 \/ c[j] \in U)
            BY <1>3, <1>4, <1>5, <2>1
        <3> QED
            BY <3>1 DEF Above
    <2>3. c \in Injection(1..ConditionLimit, Above(U, t))
        <3>1. c \in [1..ConditionLimit -> Above(U, t)]
            BY <2>2
        <3>2. ASSUME NEW j \in 1..ConditionLimit, NEW k \in 1..ConditionLimit, c[j] = c[k]
              PROVE  j = k
            <4>1. ~(j < k) /\ ~(k < j)
                BY <1>3, <2>2, <3>2
            <4> QED
                BY <1>1, <4>1
        <3> QED
            BY <3>1, <3>2 DEF Injection, IsInjective
    <2>4. Cardinality(1..ConditionLimit) = ConditionLimit
        BY <1>1, FS_Interval
    <2>5. IsFiniteSet(Above(U, t)) /\ Cardinality(Above(U, t)) \in Nat
        BY <1>1, AboveFacts
    <2>6. ConditionLimit <= Cardinality(Above(U, t))
        BY <2>3, <2>4, <2>5, FS_Injection
    <2> QED
        BY <1>1, <2>1, <2>5, <2>6
<1> HIDE DEF N
<1>8. Holds(c, N)
    <2>1. c \in [1..ConditionLimit -> Nat]
        BY <1>3
    <2> QED
        BY <2>1, <1>3, <1>6, <1>7 DEF Holds
<1> QED
    BY <1>8 DEF N, U

\* The indexes of a loop that starts at the heads of both arrays.
Index == [isu : Nat, new : Nat]

\* Any rule for the next indexes has a run of the loop.
IndexRun(n, next) ==
    {f \in [0..n -> Index] :
        f[0] = [isu |-> 1, new |-> 1] /\ \A i \in 1..n : f[i] = next[f[i - 1]]}

LEMMA IndexRuns ==
    ASSUME NEW n \in Nat, NEW next \in [Index -> Index]
    PROVE  IndexRun(n, next) # {}
<1> DEFINE step == [s \in Index \X (1..n) |-> next[s[1]]]
           init == [isu |-> 1, new |-> 1]
<1>1. step \in [Index \X (1..n) -> Index] /\ init \in Index
    BY DEF Index
<1> HIDE DEF step, init
<1>2. PICK f \in [0..n -> Index] :
         f[0] = init /\ \A i \in 1..n : f[i] = step[<<f[i - 1], i>>]
    <2>1. Runs(n, Index, init, step) # {}
        BY <1>1, LoopRuns
    <2> QED
        BY <2>1 DEF Runs
<1>3. ASSUME NEW i \in 1..n PROVE f[i] = next[f[i - 1]]
    <2>1. f[i - 1] \in Index
        OBVIOUS
    <2> QED
        BY <1>2, <2>1 DEF step
<1> QED
    BY <1>2, <1>3 DEF IndexRun, init

\* requestNewConditionScenario merges a page into the marks.
LEMMA MergeIsNewest ==
    ASSUME NEW A \in SUBSET Timestamp, NEW B \in SUBSET Timestamp,
           NEW a, NEW b, Holds(a, A), Holds(b, B)
    PROVE  Holds(Merge(a, b), Newest(A \cup B, ConditionLimit))
<1> DEFINE next == [at \in Index |->
                      IF a[at.isu] = b[at.new]
                      THEN [isu |-> at.isu + 1, new |-> at.new + 1]
                      ELSE IF a[at.isu] < b[at.new]
                      THEN [at EXCEPT !.new = @ + 1]
                      ELSE [at EXCEPT !.isu = @ + 1]]
           index == CHOOSE g : g = [i \in 0..ConditionLimit |->
                      IF i = 0 THEN [isu |-> 1, new |-> 1]
                      ELSE LET at == g[i - 1]
                           IN  IF a[at.isu] = b[at.new]
                               THEN [isu |-> at.isu + 1, new |-> at.new + 1]
                               ELSE IF a[at.isu] < b[at.new]
                               THEN [at EXCEPT !.new = @ + 1]
                               ELSE [at EXCEPT !.isu = @ + 1]]
           c == Merge(a, b)
<1>1. ConditionLimit \in Nat
    BY PagingAssumption
<1>2. \A at \in Index : next[at] \in Index
    BY DEF Index
<1>3. PICK f \in [0..ConditionLimit -> Index] :
         /\ f[0] = [isu |-> 1, new |-> 1]
         /\ \A i \in 1..ConditionLimit : f[i] = next[f[i - 1]]
    <2>1. next \in [Index -> Index]
        BY <1>2
    <2> HIDE DEF next
    <2> QED
        BY <1>1, <2>1, IndexRuns DEF IndexRun
<1>4. f = [i \in 0..ConditionLimit |->
              IF i = 0 THEN [isu |-> 1, new |-> 1]
              ELSE LET at == f[i - 1]
                   IN  IF a[at.isu] = b[at.new]
                       THEN [isu |-> at.isu + 1, new |-> at.new + 1]
                       ELSE IF a[at.isu] < b[at.new]
                       THEN [at EXCEPT !.new = @ + 1]
                       ELSE [at EXCEPT !.isu = @ + 1]]
    <2>1. \A i \in 0..ConditionLimit : i # 0 => i \in 1..ConditionLimit /\ f[i - 1] \in Index
        BY <1>1, <1>3
    <2>2. f = [i \in 0..ConditionLimit |-> f[i]]
        BY <1>3
    <2> QED
        BY <1>3, <2>1, <2>2
<1> HIDE DEF next
<1>5. index = [i \in 0..ConditionLimit |->
                  IF i = 0 THEN [isu |-> 1, new |-> 1]
                  ELSE LET at == index[i - 1]
                       IN  IF a[at.isu] = b[at.new]
                           THEN [isu |-> at.isu + 1, new |-> at.new + 1]
                           ELSE IF a[at.isu] < b[at.new]
                           THEN [at EXCEPT !.new = @ + 1]
                           ELSE [at EXCEPT !.isu = @ + 1]]
    BY <1>4
<1>6. c = [i \in 1..ConditionLimit |->
              LET at == index[i - 1]
              IN  IF a[at.isu] < b[at.new] THEN b[at.new] ELSE a[at.isu]]
    BY DEF Merge
<1> HIDE DEF index, c
<1>7. /\ index[0] = [isu |-> 1, new |-> 1]
      /\ \A i \in 1..ConditionLimit :
            /\ index[i] = LET at == index[i - 1]
                          IN  IF a[at.isu] = b[at.new]
                              THEN [isu |-> at.isu + 1, new |-> at.new + 1]
                              ELSE IF a[at.isu] < b[at.new]
                              THEN [at EXCEPT !.new = @ + 1]
                              ELSE [at EXCEPT !.isu = @ + 1]
            /\ c[i] = LET at == index[i - 1]
                      IN  IF a[at.isu] < b[at.new] THEN b[at.new] ELSE a[at.isu]
    <2>1. index[0] = [isu |-> 1, new |-> 1]
        <3>1. 0 \in 0..ConditionLimit
            BY <1>1
        <3> QED
            BY <1>5, <3>1
    <2>2. ASSUME NEW i \in 1..ConditionLimit
          PROVE  index[i] = LET at == index[i - 1]
                            IN  IF a[at.isu] = b[at.new]
                                THEN [isu |-> at.isu + 1, new |-> at.new + 1]
                                ELSE IF a[at.isu] < b[at.new]
                                THEN [at EXCEPT !.new = @ + 1]
                                ELSE [at EXCEPT !.isu = @ + 1]
        <3>1. i \in 0..ConditionLimit /\ i # 0
            BY <1>1
        <3> QED
            BY <1>5, <3>1
    <2>3. ASSUME NEW i \in 1..ConditionLimit
          PROVE  c[i] = LET at == index[i - 1]
                        IN  IF a[at.isu] < b[at.new] THEN b[at.new] ELSE a[at.isu]
        BY <1>6
    <2> QED
        BY <2>1, <2>2, <2>3
<1>8. \A i \in 0..ConditionLimit : index[i] \in Index
    <2> DEFINE G == {i \in 0..ConditionLimit : index[i] \in Index}
    <2>1. 0 \in G
        BY <1>1, <1>7 DEF Index
    <2>2. ASSUME NEW i \in 0..(ConditionLimit - 1), i \in G PROVE i + 1 \in G
        <3>1. /\ i + 1 \in 1..ConditionLimit /\ i + 1 \in 0..ConditionLimit
              /\ (i + 1) - 1 = i /\ index[i] \in Index
            BY <1>1, <2>2
        <3>2. PICK p \in Nat, q \in Nat : index[i] = [isu |-> p, new |-> q]
            BY <3>1 DEF Index
        <3>3. index[i + 1] \in {[isu |-> p + 1, new |-> q + 1], [isu |-> p, new |-> q + 1],
                                [isu |-> p + 1, new |-> q]}
            BY <1>7, <3>1, <3>2
        <3> QED
            BY <3>1, <3>3 DEF Index
    <2> HIDE DEF G
    <2>3. \A i \in 0..ConditionLimit : i \in G
        BY <1>1, <2>1, <2>2, Rounds
    <2> QED
        BY <2>3 DEF G
<1> DEFINE x == [i \in 0..ConditionLimit |-> index[i].isu]
           y == [i \in 0..ConditionLimit |-> index[i].new]
<1>9. x[0] = 1 /\ y[0] = 1
    BY <1>1, <1>7
<1>10. c = [i \in 1..ConditionLimit |-> c[i]]
    BY <1>6
<1>11. ASSUME NEW i \in 1..ConditionLimit, x[i - 1] \in 1..i, y[i - 1] \in 1..i
       PROVE  Round(a, b, x, y, c, i)
    <2> DEFINE p == x[i - 1]
               q == y[i - 1]
    <2>1. /\ i \in 0..ConditionLimit /\ i - 1 \in 0..ConditionLimit
          /\ index[i - 1] \in Index /\ p = index[i - 1].isu /\ q = index[i - 1].new
          /\ x[i] = index[i].isu /\ y[i] = index[i].new
        BY <1>1, <1>8
    <2>2. p \in 1..ConditionLimit /\ q \in 1..ConditionLimit
        BY <1>1, <1>11
    <2>3. a[p] \in Nat /\ b[q] \in Nat
        BY <2>2 DEF Holds
    <2>4. /\ index[i] = IF a[p] = b[q] THEN [isu |-> p + 1, new |-> q + 1]
                        ELSE IF a[p] < b[q] THEN [index[i - 1] EXCEPT !.new = q + 1]
                        ELSE [index[i - 1] EXCEPT !.isu = p + 1]
          /\ c[i] = IF a[p] < b[q] THEN b[q] ELSE a[p]
        BY <1>7, <2>1
    <2> HIDE DEF p, q, x, y
    <2>5. \/ a[p] > b[q] /\ c[i] = a[p] /\ x[i] = p + 1 /\ y[i] = q
          \/ a[p] < b[q] /\ c[i] = b[q] /\ x[i] = p /\ y[i] = q + 1
          \/ a[p] = b[q] /\ c[i] = a[p] /\ x[i] = p + 1 /\ y[i] = q + 1
        BY <2>1, <2>3, <2>4 DEF Index
    <2> QED
        BY <2>5 DEF Round, p, q
<1> HIDE DEF x, y
<1> QED
    BY <1>9, <1>10, <1>11, MergeOf DEF c

\* requestLastBadConditionScenario does, with a page that may be shorter.
LEMMA MergeBadIsNewest ==
    ASSUME NEW A \in SUBSET Timestamp, NEW B \in SUBSET Timestamp,
           NEW a, NEW page, Holds(a, A), Holds(Padded(page), B)
    PROVE  Holds(MergeBad(a, page), Newest(A \cup B, ConditionLimit))
<1> DEFINE next == [at \in Index |->
                      IF at.new <= Len(page) /\ a[at.isu] = page[at.new]
                      THEN [isu |-> at.isu + 1, new |-> at.new + 1]
                      ELSE IF at.new <= Len(page) /\ a[at.isu] < page[at.new]
                      THEN [at EXCEPT !.new = @ + 1]
                      ELSE [at EXCEPT !.isu = @ + 1]]
           index == CHOOSE g : g = [i \in 0..ConditionLimit |->
                      IF i = 0 THEN [isu |-> 1, new |-> 1]
                      ELSE LET at == g[i - 1]
                           IN  IF at.new <= Len(page) /\ a[at.isu] = page[at.new]
                               THEN [isu |-> at.isu + 1, new |-> at.new + 1]
                               ELSE IF at.new <= Len(page) /\ a[at.isu] < page[at.new]
                               THEN [at EXCEPT !.new = @ + 1]
                               ELSE [at EXCEPT !.isu = @ + 1]]
           b == Padded(page)
           c == MergeBad(a, page)
<1>1. ConditionLimit \in Nat
    BY PagingAssumption
<1>2. \A at \in Index : next[at] \in Index
    BY DEF Index
<1>3. PICK f \in [0..ConditionLimit -> Index] :
         /\ f[0] = [isu |-> 1, new |-> 1]
         /\ \A i \in 1..ConditionLimit : f[i] = next[f[i - 1]]
    <2>1. next \in [Index -> Index]
        BY <1>2
    <2> HIDE DEF next
    <2> QED
        BY <1>1, <2>1, IndexRuns DEF IndexRun
<1>4. f = [i \in 0..ConditionLimit |->
              IF i = 0 THEN [isu |-> 1, new |-> 1]
              ELSE LET at == f[i - 1]
                   IN  IF at.new <= Len(page) /\ a[at.isu] = page[at.new]
                       THEN [isu |-> at.isu + 1, new |-> at.new + 1]
                       ELSE IF at.new <= Len(page) /\ a[at.isu] < page[at.new]
                       THEN [at EXCEPT !.new = @ + 1]
                       ELSE [at EXCEPT !.isu = @ + 1]]
    <2>1. \A i \in 0..ConditionLimit : i # 0 => i \in 1..ConditionLimit /\ f[i - 1] \in Index
        BY <1>1, <1>3
    <2>2. f = [i \in 0..ConditionLimit |-> f[i]]
        BY <1>3
    <2> QED
        BY <1>3, <2>1, <2>2
<1> HIDE DEF next
<1>5. index = [i \in 0..ConditionLimit |->
                  IF i = 0 THEN [isu |-> 1, new |-> 1]
                  ELSE LET at == index[i - 1]
                       IN  IF at.new <= Len(page) /\ a[at.isu] = page[at.new]
                           THEN [isu |-> at.isu + 1, new |-> at.new + 1]
                           ELSE IF at.new <= Len(page) /\ a[at.isu] < page[at.new]
                           THEN [at EXCEPT !.new = @ + 1]
                           ELSE [at EXCEPT !.isu = @ + 1]]
    BY <1>4
<1>6. c = [i \in 1..ConditionLimit |->
              LET at == index[i - 1]
              IN  IF at.new <= Len(page) /\ a[at.isu] < page[at.new]
                  THEN page[at.new] ELSE a[at.isu]]
    BY DEF MergeBad
<1> HIDE DEF index, c
<1>7. /\ index[0] = [isu |-> 1, new |-> 1]
      /\ \A i \in 1..ConditionLimit :
            /\ index[i] = LET at == index[i - 1]
                          IN  IF at.new <= Len(page) /\ a[at.isu] = page[at.new]
                              THEN [isu |-> at.isu + 1, new |-> at.new + 1]
                              ELSE IF at.new <= Len(page) /\ a[at.isu] < page[at.new]
                              THEN [at EXCEPT !.new = @ + 1]
                              ELSE [at EXCEPT !.isu = @ + 1]
            /\ c[i] = LET at == index[i - 1]
                      IN  IF at.new <= Len(page) /\ a[at.isu] < page[at.new]
                            THEN page[at.new] ELSE a[at.isu]
    <2>1. index[0] = [isu |-> 1, new |-> 1]
        <3>1. 0 \in 0..ConditionLimit
            BY <1>1
        <3> QED
            BY <1>5, <3>1
    <2>2. ASSUME NEW i \in 1..ConditionLimit
          PROVE  index[i] = LET at == index[i - 1]
                            IN  IF at.new <= Len(page) /\ a[at.isu] = page[at.new]
                                THEN [isu |-> at.isu + 1, new |-> at.new + 1]
                                ELSE IF at.new <= Len(page) /\ a[at.isu] < page[at.new]
                                THEN [at EXCEPT !.new = @ + 1]
                                ELSE [at EXCEPT !.isu = @ + 1]
        <3>1. i \in 0..ConditionLimit /\ i # 0
            BY <1>1
        <3> QED
            BY <1>5, <3>1
    <2>3. ASSUME NEW i \in 1..ConditionLimit
          PROVE  c[i] = LET at == index[i - 1]
                        IN  IF at.new <= Len(page) /\ a[at.isu] < page[at.new]
                            THEN page[at.new] ELSE a[at.isu]
        BY <1>6
    <2> QED
        BY <2>1, <2>2, <2>3
<1>8. \A i \in 0..ConditionLimit : index[i] \in Index
    <2> DEFINE G == {i \in 0..ConditionLimit : index[i] \in Index}
    <2>1. 0 \in G
        BY <1>1, <1>7 DEF Index
    <2>2. ASSUME NEW i \in 0..(ConditionLimit - 1), i \in G PROVE i + 1 \in G
        <3>1. /\ i + 1 \in 1..ConditionLimit /\ i + 1 \in 0..ConditionLimit
              /\ (i + 1) - 1 = i /\ index[i] \in Index
            BY <1>1, <2>2
        <3>2. PICK p \in Nat, q \in Nat : index[i] = [isu |-> p, new |-> q]
            BY <3>1 DEF Index
        <3>3. index[i + 1] = IF q <= Len(page) /\ a[p] = page[q]
                             THEN [isu |-> p + 1, new |-> q + 1]
                             ELSE IF q <= Len(page) /\ a[p] < page[q]
                             THEN [isu |-> p, new |-> q + 1]
                             ELSE [isu |-> p + 1, new |-> q]
            <4>1. /\ index[i].isu = p /\ index[i].new = q
                  /\ [index[i] EXCEPT !.new = q + 1] = [isu |-> p, new |-> q + 1]
                  /\ [index[i] EXCEPT !.isu = p + 1] = [isu |-> p + 1, new |-> q]
                BY <3>2
            <4> HIDE DEF index
            <4> QED
                BY <1>7, <3>1, <4>1
        <3>4. /\ [isu |-> p + 1, new |-> q + 1] \in Index
              /\ [isu |-> p, new |-> q + 1] \in Index
              /\ [isu |-> p + 1, new |-> q] \in Index
            BY DEF Index
        <3>5. index[i + 1] \in Index
            BY <3>3, <3>4
        <3> QED
            BY <3>1, <3>5
    <2> HIDE DEF G
    <2>3. \A i \in 0..ConditionLimit : i \in G
        BY <1>1, <2>1, <2>2, Rounds
    <2> QED
        BY <2>3 DEF G
<1> DEFINE x == [i \in 0..ConditionLimit |-> index[i].isu]
           y == [i \in 0..ConditionLimit |-> index[i].new]
<1>9. x[0] = 1 /\ y[0] = 1
    BY <1>1, <1>7
<1>10. c = [i \in 1..ConditionLimit |-> c[i]]
    BY <1>6
<1>11. ASSUME NEW i \in 1..ConditionLimit, x[i - 1] \in 1..i, y[i - 1] \in 1..i
       PROVE  Round(a, b, x, y, c, i)
    <2> DEFINE p == x[i - 1]
               q == y[i - 1]
    <2>1. /\ i \in 0..ConditionLimit /\ i - 1 \in 0..ConditionLimit
          /\ index[i - 1] \in Index /\ p = index[i - 1].isu /\ q = index[i - 1].new
          /\ x[i] = index[i].isu /\ y[i] = index[i].new
        BY <1>1, <1>8
    <2>2. p \in 1..ConditionLimit /\ q \in 1..ConditionLimit
        BY <1>1, <1>11
    <2>3. a[p] \in Nat /\ b[q] \in Nat
        BY <2>2 DEF Holds
    <2>4. /\ index[i] = IF q <= Len(page) /\ a[p] = page[q]
                        THEN [isu |-> p + 1, new |-> q + 1]
                        ELSE IF q <= Len(page) /\ a[p] < page[q]
                        THEN [index[i - 1] EXCEPT !.new = q + 1]
                        ELSE [index[i - 1] EXCEPT !.isu = p + 1]
          /\ c[i] = IF q <= Len(page) /\ a[p] < page[q] THEN page[q] ELSE a[p]
        BY <1>7, <2>1
    <2> HIDE DEF p, q, x, y
    <2>5. b[q] = IF q <= Len(page) THEN page[q] ELSE 0
        BY <2>2 DEF Padded
    <2> HIDE DEF b
    <2>6. \/ a[p] > b[q] /\ c[i] = a[p] /\ x[i] = p + 1 /\ y[i] = q
          \/ a[p] < b[q] /\ c[i] = b[q] /\ x[i] = p /\ y[i] = q + 1
          \/ a[p] = b[q] /\ c[i] = a[p] /\ x[i] = p + 1 /\ y[i] = q + 1
          \/ a[p] = 0 /\ b[q] = 0 /\ c[i] = 0 /\ x[i] = p + 1 /\ y[i] = q
        BY <2>1, <2>3, <2>4, <2>5 DEF Index
    <2> QED
        BY <2>6 DEF Round, p, q
<1> HIDE DEF x, y
<1> QED
    BY <1>9, <1>10, <1>11, MergeOf DEF c

----------------------------------------------------------------------------
(* The check of a page. *)

\* The marks that a request covers are those from the first on.
LEMMA CoveredFacts ==
    ASSUME NEW A \in SUBSET Timestamp, NEW a, Holds(a, A), NEW end \in Nat \ {0}
    PROVE  /\ FirstCovered(a, end) \in 1..(ConditionLimit + 1)
           /\ \A k \in 1..ConditionLimit : k >= FirstCovered(a, end) <=> a[k] < end
<1> DEFINE M == {m \in 1..ConditionLimit : a[m] < end} \cup {ConditionLimit + 1}
<1>1. ConditionLimit \in Nat
    BY PagingAssumption
<1>2. M \in SUBSET Nat /\ M # {} /\ M \in SUBSET (1..(ConditionLimit + 1))
    BY <1>1
<1>3. PICK m \in M : \A k \in M : m <= k
    <2> HIDE DEF M
    <2> QED
        BY <1>2, Least
<1>4. FirstCovered(a, end) \in M /\ \A k \in M : FirstCovered(a, end) <= k
    BY <1>3 DEF FirstCovered, Min
<1> DEFINE f == FirstCovered(a, end)
<1>5. ASSUME NEW k \in 1..ConditionLimit, a[k] < end PROVE k >= f
    BY <1>1, <1>4, <1>5
<1>6. ASSUME NEW k \in 1..ConditionLimit, k >= f PROVE a[k] < end
    <2>1. f \in 1..ConditionLimit /\ a[f] < end
        BY <1>1, <1>4, <1>6
    <2>2. f = k \/ a[k] < a[f] \/ a[k] = 0
        BY <1>6, <2>1 DEF Holds
    <2>3. a[f] \in Nat /\ a[k] \in Nat
        BY <2>1 DEF Holds
    <2> QED
        BY <2>1, <2>2, <2>3
<1> QED
    BY <1>2, <1>4, <1>5, <1>6

\* After k conditions of page s, the walk is at mark m: the covered marks
\* before it were met, and those from it on are older than the k conditions;
\* or a covered mark is missing.
Met(a, first, s, k, m) ==
    /\ m \in first..(ConditionLimit + 1)
    /\ \A i \in 1..ConditionLimit :
          /\ i >= first /\ i < m => \E j \in 1..k : s[j] = a[i]
          /\ i >= m => \A j \in 1..k : a[i] < s[j]

Missed(A, end, S, m) ==
    /\ m = ConditionLimit + 2
    /\ \E t \in A : t < end /\ t \notin S /\ \E u \in S : t > u

\* One condition of the page leaves it so.
LEMMA MeetStep ==
    ASSUME NEW A \in SUBSET Timestamp, NEW a, Holds(a, A), NEW end,
           NEW first \in 1..(ConditionLimit + 1),
           \A i \in 1..ConditionLimit : i >= first => a[i] < end,
           NEW S \in SUBSET Timestamp, NEW n \in Nat, NEW s \in [1..n -> S],
           \A j, k \in 1..n : j < k => s[j] > s[k],
           \A t \in S : \E k \in 1..n : s[k] = t,
           NEW k \in 1..n, NEW m, Met(a, first, s, k - 1, m), NEW next,
           next = IF m > ConditionLimit \/ a[m] < s[k] THEN m
                  ELSE IF a[m] = s[k] THEN m + 1
                  ELSE ConditionLimit + 2
    PROVE  Met(a, first, s, k, next) \/ Missed(A, end, S, next)
<1>1. /\ ConditionLimit \in Nat /\ k \in Nat /\ k \in 1..k /\ m \in Nat
      /\ m \in first..(ConditionLimit + 1)
      /\ \A j \in 1..(k - 1) : j \in 1..k
      /\ \A j \in 1..k : j \in 1..(k - 1) \/ j = k
    BY PagingAssumption DEF Met
<1>2. /\ \A t \in S : t \in Nat /\ t # 0
      /\ \A t \in A : t \in Nat
      /\ s[k] \in Nat /\ s[k] # 0 /\ s[k] \in S
    <2>1. \A t \in Timestamp : t \in Nat /\ t # 0
        BY PagingAssumption DEF Timestamp
    <2>2. s[k] \in S
        OBVIOUS
    <2> QED
        BY <2>1, <2>2
<1>3. \A i \in 1..ConditionLimit :
          /\ i >= first /\ i < m => \E j \in 1..(k - 1) : s[j] = a[i]
          /\ i >= m => \A j \in 1..(k - 1) : a[i] < s[j]
    BY DEF Met
<1>4. CASE m > ConditionLimit
    <2>1. next = m /\ \A i \in 1..ConditionLimit : ~(i >= m)
        BY <1>1, <1>4
    <2> QED
        BY <1>1, <1>3, <2>1 DEF Met
<1>5. CASE m \in 1..ConditionLimit /\ a[m] < s[k]
    <2>1. next = m /\ a[m] \in Nat
        BY <1>5 DEF Holds
    <2>2. ASSUME NEW i \in 1..ConditionLimit, i >= m PROVE a[i] < s[k]
        <3>1. i = m \/ a[i] < a[m] \/ a[i] = 0
            BY <1>5, <2>2 DEF Holds
        <3>2. a[i] \in Nat
            BY DEF Holds
        <3> QED
            BY <1>2, <1>5, <2>1, <3>1, <3>2
    <2> QED
        BY <1>1, <1>3, <2>1, <2>2 DEF Met
<1>6. CASE m \in 1..ConditionLimit /\ a[m] = s[k]
    <2>1. next = m + 1 /\ m + 1 \in first..(ConditionLimit + 1)
        BY <1>1, <1>2, <1>6
    <2>2. ASSUME NEW i \in 1..ConditionLimit, i >= m + 1 PROVE i >= m /\ a[i] < s[k]
        <3>1. a[i] < a[m] \/ a[i] = 0
            BY <1>6, <2>2 DEF Holds
        <3> QED
            BY <1>2, <1>6, <2>2, <3>1
    <2>3. ASSUME NEW i \in 1..ConditionLimit, i >= first, i < m + 1
          PROVE  \E j \in 1..k : s[j] = a[i]
        <3>1. i < m \/ i = m
            BY <1>6, <2>3
        <3> QED
            BY <1>1, <1>3, <1>6, <2>3, <3>1
    <2> QED
        BY <1>1, <1>3, <2>1, <2>2, <2>3 DEF Met
<1>7. CASE m \in 1..ConditionLimit /\ ~(a[m] < s[k]) /\ a[m] # s[k]
    <2>1. a[m] \in Nat /\ (a[m] = 0 \/ a[m] \in A)
        BY <1>7 DEF Holds
    <2>2. a[m] > s[k] /\ a[m] \in A /\ a[m] < end
        BY <1>1, <1>2, <1>7, <2>1
    <2>3. a[m] \notin S
        <3> SUFFICES ASSUME NEW j \in 1..n, s[j] = a[m] PROVE FALSE
            BY <2>2
        <3>1. CASE j < k
            BY <1>1, <1>3, <1>7, <2>1, <3>1
        <3>2. CASE k < j
            <4>1. s[k] > s[j] /\ s[j] \in Nat
                BY <1>2, <3>2
            <4> QED
                BY <1>2, <2>1, <2>2, <4>1
        <3>3. CASE j = k
            BY <1>2, <2>1, <2>2, <3>3
        <3> QED
            BY <1>1, <3>1, <3>2, <3>3
    <2>4. next = ConditionLimit + 2
        BY <1>1, <1>7
    <2> QED
        BY <1>2, <2>2, <2>3, <2>4 DEF Missed
<1> QED
    BY <1>1, <1>4, <1>5, <1>6, <1>7

\* Where the walk ends.
LEMMA WalkEnds ==
    ASSUME NEW A \in SUBSET Timestamp, NEW a, Holds(a, A), NEW end,
           NEW first \in 1..(ConditionLimit + 1),
           \A i \in 1..ConditionLimit : i >= first => a[i] < end,
           NEW S \in SUBSET Timestamp, NEW n \in Nat, NEW s \in [1..n -> S], Len(s) = n,
           \A j, k \in 1..n : j < k => s[j] > s[k],
           \A t \in S : \E k \in 1..n : s[k] = t
    PROVE  Met(a, first, s, n, Walk(a, s, first)) \/ Missed(A, end, S, Walk(a, s, first))
<1> DEFINE step == [p \in Nat \X (1..n) |->
                      IF p[1] > ConditionLimit \/ a[p[1]] < s[p[2]] THEN p[1]
                      ELSE IF a[p[1]] = s[p[2]] THEN p[1] + 1
                      ELSE ConditionLimit + 2]
           next == CHOOSE g : g = [k \in 0..n |->
                      IF k = 0 THEN first
                      ELSE LET m == g[k - 1]
                           IN  IF m > ConditionLimit \/ a[m] < s[k] THEN m
                               ELSE IF a[m] = s[k] THEN m + 1
                               ELSE ConditionLimit + 2]
<1>1. ConditionLimit \in Nat /\ first \in Nat
    BY PagingAssumption
<1>2. \E g : g = [k \in 0..n |->
                    IF k = 0 THEN first
                    ELSE LET m == g[k - 1]
                         IN  IF m > ConditionLimit \/ a[m] < s[k] THEN m
                             ELSE IF a[m] = s[k] THEN m + 1
                             ELSE ConditionLimit + 2]
    <2>1. step \in [Nat \X (1..n) -> Nat]
        BY <1>1
    <2>2. PICK f \in [0..n -> Nat] :
             f[0] = first /\ \A i \in 1..n : f[i] = step[<<f[i - 1], i>>]
        <3> HIDE DEF step
        <3>1. Runs(n, Nat, first, step) # {}
            BY <1>1, <2>1, LoopRuns
        <3> QED
            BY <3>1 DEF Runs
    <2>3. f = [k \in 0..n |->
                  IF k = 0 THEN first
                  ELSE LET m == f[k - 1]
                       IN  IF m > ConditionLimit \/ a[m] < s[k] THEN m
                           ELSE IF a[m] = s[k] THEN m + 1
                           ELSE ConditionLimit + 2]
        <3>1. \A k \in 0..n : k # 0 => k \in 1..n /\ f[k - 1] \in Nat
            BY <2>2
        <3>2. f = [k \in 0..n |-> f[k]]
            BY <2>2
        <3> QED
            BY <2>2, <3>1, <3>2
    <2> QED
        BY <2>3
<1> HIDE DEF step
<1>3. next = [k \in 0..n |->
                  IF k = 0 THEN first
                  ELSE LET m == next[k - 1]
                       IN  IF m > ConditionLimit \/ a[m] < s[k] THEN m
                           ELSE IF a[m] = s[k] THEN m + 1
                           ELSE ConditionLimit + 2]
    BY <1>2
<1>4. Walk(a, s, first) = next[n]
    BY DEF Walk
<1> HIDE DEF next
<1> DEFINE G == {k \in 0..n : Met(a, first, s, k, next[k]) \/ Missed(A, end, S, next[k])}
<1>5. 0 \in G
    <2>1. next[0] = first /\ 0 \in 0..n /\ 1..0 = {}
        BY <1>3
    <2>2. first \in first..(ConditionLimit + 1) /\ \A i \in 1..ConditionLimit : ~(i >= first /\ i < first)
        BY <1>1
    <2> QED
        BY <2>1, <2>2 DEF Met
<1>6. ASSUME NEW i \in 0..(n - 1), i \in G PROVE i + 1 \in G
    <2>1. i + 1 \in 1..n /\ i + 1 \in 0..n /\ (i + 1) - 1 = i /\ i + 1 # 0
        BY <1>6
    <2>2. next[i + 1] = IF next[i] > ConditionLimit \/ a[next[i]] < s[i + 1] THEN next[i]
                        ELSE IF a[next[i]] = s[i + 1] THEN next[i] + 1
                        ELSE ConditionLimit + 2
        <3> DEFINE body(k) == IF k = 0 THEN first
                              ELSE LET m == next[k - 1]
                                   IN  IF m > ConditionLimit \/ a[m] < s[k] THEN m
                                       ELSE IF a[m] = s[k] THEN m + 1
                                       ELSE ConditionLimit + 2
        <3>1. next[i + 1] = body(i + 1)
            BY <1>3, <2>1
        <3> QED
            BY <2>1, <3>1
    <2>3. CASE Missed(A, end, S, next[i])
        <3>1. next[i + 1] = next[i]
            BY <1>1, <2>2, <2>3 DEF Missed
        <3> QED
            BY <2>1, <2>3, <3>1
    <2>4. CASE Met(a, first, s, i, next[i])
        <3>1. Met(a, first, s, (i + 1) - 1, next[i])
            BY <2>1, <2>4
        <3>2. Met(a, first, s, i + 1, next[i + 1]) \/ Missed(A, end, S, next[i + 1])
            BY <2>1, <2>2, <3>1, MeetStep
        <3> QED
            BY <2>1, <3>2
    <2> QED
        BY <1>6, <2>3, <2>4
<1>7. n \in G
    <2> HIDE DEF G
    <2>1. \A i \in 0..n : i \in G
        BY <1>5, <1>6, Rounds
    <2> QED
        BY <2>1
<1> QED
    BY <1>4, <1>7

\* The verdict on the arrays is the verdict on the sets.
LEMMA VerdictIsExact ==
    ASSUME mark \in SUBSET Timestamp, Cardinality(mark) <= ConditionLimit,
           NEW S \in Pages, NEW end \in Nat \ {0}
    PROVE  VerifyPage(Padded(Sorted(mark)), Sorted(S), end) <=> Verify(S, end)
<1> DEFINE a == Padded(Sorted(mark))
           s == Sorted(S)
           n == Cardinality(S)
           first == FirstCovered(a, end)
           m == Walk(a, s, first)
<1>1. S \in SUBSET Timestamp /\ n <= ConditionLimit /\ ConditionLimit \in Nat
    BY PagingAssumption DEF Pages
<1>2. Holds(a, mark)
    BY PaddedFacts
<1>3. /\ n \in Nat /\ s \in [1..n -> S] /\ Len(s) = n
      /\ \A j, k \in 1..n : j < k => s[j] > s[k]
      /\ \A t \in S : \E k \in 1..n : s[k] = t
    BY <1>1, SortedFacts, PaddedFacts
<1>4. /\ first \in 1..(ConditionLimit + 1)
      /\ \A k \in 1..ConditionLimit : k >= first <=> a[k] < end
    BY <1>2, CoveredFacts
<1>5. \A t \in mark \cup S : t \in Nat /\ t # 0
    BY <1>1, PagingAssumption DEF Timestamp
<1>6. VerifyPage(a, s, end) <=>
          m <= ConditionLimit + 1 /\ (n < ConditionLimit /\ m <= ConditionLimit => a[m] = 0)
    BY <1>3 DEF VerifyPage
<1>7. Verify(S, end) <=>
          \A t \in mark : t < end => t \in S \/ (n = ConditionLimit /\ \A u \in S : t < u)
    BY DEF Verify
<1> SUFFICES VerifyPage(a, s, end) <=> Verify(S, end)
    OBVIOUS
<1>8. Met(a, first, s, n, m) \/ Missed(mark, end, S, m)
    <2> HIDE DEF a, s, n, first
    <2> QED
        BY <1>1, <1>2, <1>3, <1>4, WalkEnds
<1> HIDE DEF a, s, n, m, first
<1>9. CASE Missed(mark, end, S, m)
    <2>1. ~(m <= ConditionLimit + 1)
        BY <1>1, <1>9 DEF Missed
    <2>2. PICK t \in mark : t < end /\ t \notin S /\ \E u \in S : t > u
        BY <1>9 DEF Missed
    <2>3. ~\A u \in S : t < u
        BY <1>5, <2>2
    <2> QED
        BY <1>6, <1>7, <2>1, <2>2, <2>3
<1>10. CASE Met(a, first, s, n, m)
    <2>1. /\ m \in first..(ConditionLimit + 1)
          /\ \A i \in 1..ConditionLimit :
                /\ i >= first /\ i < m => a[i] \in S
                /\ i >= m => \A u \in S : a[i] < u
        BY <1>3, <1>10 DEF Met
    <2>2. m \in Nat /\ m <= ConditionLimit + 1 /\ m >= first /\ m >= 1
        BY <1>1, <1>4, <2>1
    <2>3. CASE n < ConditionLimit /\ m <= ConditionLimit /\ a[m] # 0
        <3>1. m \in 1..ConditionLimit
            BY <1>1, <2>2, <2>3
        <3>2. a[m] \in mark /\ a[m] < end
            BY <1>2, <1>4, <2>2, <2>3, <3>1 DEF Holds
        <3>3. a[m] \notin S
            <4>1. \A u \in S : a[m] < u
                BY <2>1, <2>2, <3>1
            <4> QED
                BY <1>5, <4>1
        <3>4. n # ConditionLimit
            BY <1>1, <1>3, <2>3
        <3> QED
            BY <1>6, <1>7, <2>3, <3>2, <3>3, <3>4
    <2>4. CASE ~(n < ConditionLimit /\ m <= ConditionLimit /\ a[m] # 0)
        <3>1. ASSUME NEW t \in mark, t < end, t \notin S
              PROVE  n = ConditionLimit /\ \A u \in S : t < u
            <4>1. PICK i \in 1..ConditionLimit : a[i] = t
                BY <1>2 DEF Holds
            <4>2. i >= first /\ ~(i < m) /\ i >= m
                BY <1>4, <2>1, <2>2, <3>1, <4>1
            <4>3. a[m] # 0
                <5>1. m \in 1..ConditionLimit
                    BY <1>1, <2>2, <4>2
                <5>2. m = i \/ a[i] < a[m] \/ a[i] = 0
                    BY <1>2, <4>2, <5>1 DEF Holds
                <5> QED
                    BY <1>5, <4>1, <5>2
            <4>4. m <= ConditionLimit
                BY <1>1, <2>2, <4>2
            <4>5. n = ConditionLimit
                BY <1>1, <1>3, <2>4, <4>3, <4>4
            <4> QED
                BY <2>1, <4>1, <4>2, <4>5
        <3> QED
            BY <1>6, <1>7, <2>2, <2>4, <3>1
    <2> QED
        BY <2>3, <2>4
<1> QED
    BY <1>8, <1>9, <1>10

----------------------------------------------------------------------------
(* The marks fit their array. *)

MarksFit == Cardinality(mark) <= ConditionLimit

LEMMA MarksFitStep ==
    ASSUME PagingInv, MarksFit, [Next]_vars
    PROVE  MarksFit'
<1>1. CASE mark' = mark
    BY <1>1 DEF MarksFit
<1>2. ASSUME NEW S \in SUBSET Timestamp, mark' = Newest(S, ConditionLimit) PROVE MarksFit'
    <2>1. Cardinality(Newest(S, ConditionLimit)) <= ConditionLimit
        BY NewestAtMost, PagingAssumption
    <2> QED
        BY <1>2, <2>1 DEF MarksFit
<1>3. mark \in SUBSET Timestamp /\ pass.first \in SUBSET Timestamp
    BY PassFacts DEF PagingInv
<1>4. \A end : Page(end) \in SUBSET Timestamp
    BY PassFacts DEF PagingInv, Page, Newest
<1>5. CASE \E S \in SUBSET Timestamp : mark' = Newest(mark \cup S, ConditionLimit)
    <2>1. PICK S \in SUBSET Timestamp : mark' = Newest(mark \cup S, ConditionLimit)
        BY <1>5
    <2>2. mark \cup S \in SUBSET Timestamp
        BY <1>3
    <2> QED
        BY <1>2, <2>1, <2>2
<1>6. CASE FirstPage
    BY <1>1, <1>4, <1>5, <1>6 DEF FirstPage, EndPass
<1>7. CASE NextPage
    BY <1>1, <1>3, <1>5, <1>7 DEF NextPage, EndPass
<1>8. CASE PageFails
    BY <1>1, <1>3, <1>5, <1>8 DEF PageFails, EndPass
<1>9. CASE TurnPage \/ UNCHANGED vars \/ Post \/ (\E t \in Timestamp : Commit(t))
             \/ (\E end \in 0..(MaxTimestamp + 1) : StartPass(end))
    BY <1>1, <1>9 DEF TurnPage, vars, Post, Commit, StartPass
<1> QED
    BY <1>6, <1>7, <1>8, <1>9 DEF Next, User

LEMMA MarksFitHolds == Spec => []MarksFit
<1>1. Init => MarksFit
    BY FS_EmptySet, PagingAssumption DEF Init, MarksFit
<1>2. PagingInv /\ MarksFit /\ [Next]_vars => MarksFit'
    BY MarksFitStep
<1> QED
    BY <1>1, <1>2, PagingInvHolds, PTL DEF Spec

\* The loops that merge a page into the marks leave the newest of both, in
\* order and each once, whatever the page, whether the marks or the page are
\* padded, and wherever the indexes run to.
THEOREM MarksAreNewestHolds == Spec => []MarksAreNewest
<1>1. PagingInv /\ MarksFit => MarksAreNewest
    <2> SUFFICES ASSUME PagingInv, MarksFit, NEW S \in Pages
                 PROVE  LET marks == Padded(Sorted(mark))
                            newest == Padded(Sorted(Newest(mark \cup S, ConditionLimit)))
                        IN  /\ Merge(marks, Padded(Sorted(S))) = newest
                            /\ MergeBad(marks, Sorted(S)) = newest
        BY DEF MarksAreNewest
    <2> DEFINE N == Newest(mark \cup S, ConditionLimit)
               marks == Padded(Sorted(mark))
    <2>1. /\ mark \in SUBSET Timestamp /\ Cardinality(mark) <= ConditionLimit
          /\ S \in SUBSET Timestamp /\ Cardinality(S) <= ConditionLimit
        BY PassFacts DEF PagingInv, MarksFit, Pages
    <2>2. Holds(marks, mark) /\ Holds(Padded(Sorted(S)), S)
        BY <2>1, PaddedFacts
    <2>3. N \in SUBSET Timestamp /\ Cardinality(N) <= ConditionLimit
        <3>1. mark \cup S \in SUBSET Timestamp
            BY <2>1
        <3>2. Cardinality(N) <= ConditionLimit
            BY <3>1, NewestAtMost, PagingAssumption
        <3> QED
            BY <3>1, <3>2 DEF Newest
    <2>4. Holds(Padded(Sorted(N)), N)
        <3> HIDE DEF N
        <3> QED
            BY <2>3, PaddedFacts
    <2>5. Holds(Merge(marks, Padded(Sorted(S))), N) /\ Holds(MergeBad(marks, Sorted(S)), N)
        <3> HIDE DEF marks
        <3> QED
            BY <2>1, <2>2, MergeIsNewest, MergeBadIsNewest
    <2> HIDE DEF N, marks
    <2>6. /\ Merge(marks, Padded(Sorted(S))) = Padded(Sorted(N))
          /\ MergeBad(marks, Sorted(S)) = Padded(Sorted(N))
        BY <2>3, <2>4, <2>5, OneArray
    <2> QED
        BY <2>6 DEF N, marks
<1> QED
    BY <1>1, PagingInvHolds, MarksFitHolds, PTL

\* The loops that check a page against the marks accept exactly the pages on
\* which every covered mark is present, or older than all of a full page.
THEOREM VerifyIsExactHolds == Spec => []VerifyIsExact
<1>1. PagingInv /\ MarksFit => VerifyIsExact
    <2> SUFFICES ASSUME PagingInv, MarksFit, NEW S \in Pages, NEW end \in 1..(MaxTimestamp + 1)
                 PROVE  VerifyPage(Padded(Sorted(mark)), Sorted(S), end) <=> Verify(S, end)
        BY DEF VerifyIsExact
    <2>1. mark \in SUBSET Timestamp /\ Cardinality(mark) <= ConditionLimit
        BY PassFacts DEF PagingInv, MarksFit
    <2>2. end \in Nat \ {0}
        BY PagingAssumption
    <2> QED
        BY <2>1, <2>2, VerdictIsExact
<1> QED
    BY <1>1, PagingInvHolds, MarksFitHolds, PTL

============================================================================
