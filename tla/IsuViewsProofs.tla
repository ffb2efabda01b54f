--------------------------- MODULE IsuViewsProofs ---------------------------
(***************************************************************************)
(* Theorems about module IsuViews: what is stored can be read, the graph   *)
(* is exact, the views agree.                                              *)
(*                                                                         *)
(* The invariant of the stored rows is ViewsInv.  All else is about what   *)
(* the loops of the handlers compute from such rows.  A loop is a          *)
(* recursive function of the number of its rounds: LoopFunction says that  *)
(* there is one, and Rounds that what holds before the first round and is  *)
(* kept by each holds after all of them.                                   *)
(***************************************************************************)
EXTENDS IsuViews, FiniteSetTheorems, SequenceTheorems,
        WellFoundedInduction, TLAPS

(* Loops. *)

\* A set of natural numbers has a least member.
LEMMA Least ==
    ASSUME NEW S \in SUBSET Nat, S # {}
    PROVE  \E m \in S : \A x \in S : m <= x
<1> DEFINE R == OpToRel(<, Nat)
<1>1. PICK m \in S : \A x \in S : ~(<<x, m>> \in R)
    BY NatLessThanWellFounded, WFMin
<1>2. \A x \in S : ~(x < m)
    BY <1>1 DEF OpToRel
<1> HIDE DEF R
<1>3. \A x \in S : m \in Int /\ x \in Int
    OBVIOUS
<1> QED
    BY <1>2, <1>3

\* What holds before a loop, and after a round when it did before, holds after
\* every round: G holds the rounds after which it does.
LEMMA Rounds ==
    ASSUME NEW n \in Nat, NEW G, 0 \in G,
           \A i \in 0..(n - 1) : i \in G => i + 1 \in G
    PROVE  \A i \in 0..n : i \in G
<1> DEFINE B == {i \in 0..n : i \notin G}
<1> SUFFICES ASSUME B # {} PROVE FALSE
    OBVIOUS
<1>1. PICK m \in B : \A i \in B : m <= i
    <2> B \in SUBSET Nat
        OBVIOUS
    <2> HIDE DEF B
    <2> QED
        BY Least
<1>2. m \in 0..n /\ m \notin G /\ m # 0
    OBVIOUS
<1>3. m - 1 \in 0..(n - 1) /\ m - 1 \in 0..n /\ (m - 1) + 1 = m /\ ~(m <= m - 1)
    BY <1>2
<1>4. m - 1 \in G
    BY <1>1, <1>3
<1> HIDE DEF B
<1>5. (m - 1) + 1 \in G
    BY <1>3, <1>4
<1> QED
    BY <1>2, <1>3, <1>5

\* The runs of a loop of n rounds, whose states are in T: the state after each.
Runs(n, T, init, step) ==
    {f \in [0..n -> T] : f[0] = init /\ \A i \in 1..n : f[i] = step[<<f[i - 1], i>>]}

\* There is one.
LEMMA LoopRuns ==
    ASSUME NEW n \in Nat, NEW T, NEW init \in T, NEW step \in [T \X (1..n) -> T]
    PROVE  Runs(n, T, init, step) # {}
<1> DEFINE G == {i \in 0..n : \E f \in [0..i -> T] :
                    f[0] = init /\ \A j \in 1..i : f[j] = step[<<f[j - 1], j>>]}
<1>1. 0 \in G
    <2>1. [j \in 0..0 |-> init] \in [0..0 -> T] /\ 0 \in 0..n /\ 1..0 = {} /\ 0 \in 0..0
        OBVIOUS
    <2>2. [j \in 0..0 |-> init][0] = init
        BY <2>1
    <2> QED
        BY <2>1, <2>2
<1>2. ASSUME NEW i \in 0..(n - 1), i \in G PROVE i + 1 \in G
    <2>1. PICK f \in [0..i -> T] :
             f[0] = init /\ \A j \in 1..i : f[j] = step[<<f[j - 1], j>>]
        BY <1>2
    <2>2. /\ i \in Nat /\ i + 1 \in 0..n /\ i + 1 \in 1..n /\ i \in 0..i /\ 0 \in 0..i
          /\ \A j \in 0..(i + 1) : j \in 0..i \/ j = i + 1
          /\ \A j \in 1..i : j \in 0..i /\ j - 1 \in 0..i
          /\ \A j \in 0..i : j # i + 1 /\ j \in 0..(i + 1)
          /\ i + 1 \in 0..(i + 1) /\ (i + 1) - 1 = i /\ 0 # i + 1
          /\ \A j \in 1..(i + 1) : j \in 1..i \/ j = i + 1
        OBVIOUS
    <2> DEFINE last == step[<<f[i], i + 1>>]
               g == [j \in 0..(i + 1) |-> IF j = i + 1 THEN last ELSE f[j]]
    <2>3. last \in T
        BY <2>1, <2>2
    <2>4. g \in [0..(i + 1) -> T]
        BY <2>1, <2>2, <2>3
    <2>5. g[i + 1] = last /\ \A j \in 0..i : g[j] = f[j]
        BY <2>2
    <2>6. g[0] = init
        BY <2>1, <2>2, <2>5
    <2>7. \A j \in 1..(i + 1) : g[j] = step[<<g[j - 1], j>>]
        <3> SUFFICES ASSUME NEW j \in 1..(i + 1) PROVE g[j] = step[<<g[j - 1], j>>]
            OBVIOUS
        <3>1. CASE j = i + 1
            BY <2>2, <2>5, <3>1
        <3>2. CASE j \in 1..i
            <4> HIDE DEF g
            <4> QED
                BY <2>1, <2>2, <2>5, <3>2
        <3> QED
            BY <2>2, <3>1, <3>2
    <2> HIDE DEF g
    <2> QED
        BY <2>2, <2>4, <2>6, <2>7
<1>3. n \in G
    <2> HIDE DEF G
    <2>1. \A i \in 0..n : i \in G
        BY <1>1, <1>2, Rounds
    <2> QED
        BY <2>1
<1> QED
    BY <1>3 DEF Runs

\* There is a function for a loop of n rounds.
Loop(g, n, T, init, step) ==
    /\ g \in [0..n -> T]
    /\ g = [k \in 0..n |-> IF k = 0 THEN init ELSE step[<<g[k - 1], k>>]]

LEMMA LoopFunction ==
    ASSUME NEW n \in Nat, NEW T, NEW init \in T, NEW step \in [T \X (1..n) -> T]
    PROVE  \E g : Loop(g, n, T, init, step)
<1>1. PICK f \in [0..n -> T] : f[0] = init /\ \A k \in 1..n : f[k] = step[<<f[k - 1], k>>]
    <2>1. Runs(n, T, init, step) # {}
        BY LoopRuns
    <2> QED
        BY <2>1 DEF Runs
<1>2. \A k \in 0..n : k # 0 => k \in 1..n
    OBVIOUS
<1>3. f = [k \in 0..n |-> f[k]]
    BY <1>1
<1>4. f = [k \in 0..n |-> IF k = 0 THEN init ELSE step[<<f[k - 1], k>>]]
    BY <1>1, <1>2, <1>3
<1> QED
    BY <1>1, <1>4 DEF Loop

----------------------------------------------------------------------------
(* ORDER BY. *)

\* The rows of a finite set can be put in an order of their keys: the place of
\* a row is one more than the number of the rows before it, rows of one key
\* being in the order of any enumeration.
LEMMA Sortable ==
    ASSUME NEW S, IsFiniteSet(S), NEW key \in [S -> Int]
    PROVE  /\ Cardinality(S) \in Nat
           /\ \E s \in SetToSeqs(S) :
                 \A j, k \in 1..Cardinality(S) : j < k => key[s[j]] <= key[s[k]]
<1> DEFINE n == Cardinality(S)
<1>1. n \in Nat
    BY FS_CardinalityType
<1>2. IsFiniteSet(1..n) /\ Cardinality(1..n) = n
    BY <1>1, FS_Interval
<1>3. PICK e \in [S -> Int] : \A a, b \in S : e[a] = e[b] => a = b
    <2>1. PICK f \in [1..n -> S] : \A a \in S : \E k \in 1..n : f[k] = a
        BY FS_CardinalityType DEF ExistsBijection, Bijection, Surjection
    <2> DEFINE g == [a \in S |-> CHOOSE k \in 1..n : f[k] = a]
    <2>2. \A a \in S : g[a] \in 1..n /\ f[g[a]] = a
        BY <2>1
    <2>3. g \in [S -> Int]
        BY <1>1, <2>2
    <2> HIDE DEF g
    <2> QED
        BY <2>2, <2>3
<1> DEFINE Before(a, b) == key[a] < key[b] \/ (key[a] = key[b] /\ e[a] < e[b])
           first == [a \in S |-> {b \in S : Before(b, a)}]
           place == [a \in S |-> Cardinality(first[a]) + 1]
<1>4. \A a \in S : key[a] \in Int /\ e[a] \in Int
    OBVIOUS
<1>5. ASSUME NEW a \in S
      PROVE  /\ IsFiniteSet(first[a]) /\ Cardinality(first[a]) \in Nat
             /\ place[a] \in 1..n
    <2>1. first[a] \in SUBSET S /\ a \notin first[a] /\ first[a] \cup {a} \in SUBSET S
        BY <1>4
    <2>2. IsFiniteSet(first[a]) /\ Cardinality(first[a]) \in Nat
        BY <2>1, FS_Subset, FS_CardinalityType
    <2>3. Cardinality(first[a] \cup {a}) = Cardinality(first[a]) + 1
        BY <2>1, <2>2, FS_AddElement
    <2>4. Cardinality(first[a] \cup {a}) <= n
        BY <2>1, FS_Subset
    <2> HIDE DEF first
    <2> QED
        BY <1>1, <2>2, <2>3, <2>4
<1>6. ASSUME NEW a \in S, NEW b \in S, Before(a, b) PROVE place[a] < place[b]
    <2>1. first[a] \cup {a} \in SUBSET first[b] /\ a \notin first[a]
        <3>1. \A c \in S : Before(c, a) => Before(c, b)
            BY <1>4, <1>6
        <3> QED
            BY <1>4, <1>6, <3>1
    <2> HIDE DEF first
    <2>2. Cardinality(first[a] \cup {a}) = Cardinality(first[a]) + 1
        BY <1>5, <2>1, FS_AddElement
    <2>3. Cardinality(first[a] \cup {a}) <= Cardinality(first[b])
        BY <1>5, <2>1, FS_Subset
    <2> QED
        BY <1>5, <2>2, <2>3
<1>7. \A a, b \in S : Before(a, b) \/ Before(b, a) \/ a = b
    BY <1>3, <1>4
<1>8. \A a, b \in S : place[a] = place[b] => a = b
    <2> SUFFICES ASSUME NEW a \in S, NEW b \in S, place[a] = place[b] PROVE a = b
        OBVIOUS
    <2> HIDE DEF place, first, n, Before
    <2>1. place[a] \in Int /\ place[b] \in Int
        BY <1>1, <1>5
    <2>2. ~Before(a, b) /\ ~Before(b, a)
        BY <1>6, <2>1
    <2> QED
        BY <1>7, <2>2
<1>9. \A a, b \in S : place[a] < place[b] => key[a] <= key[b]
    <2> SUFFICES ASSUME NEW a \in S, NEW b \in S, place[a] < place[b], ~(key[a] <= key[b])
                 PROVE  FALSE
        OBVIOUS
    <2>1. Before(b, a)
        BY <1>4
    <2> HIDE DEF place, first, n, Before
    <2>2. place[a] \in Int /\ place[b] \in Int
        BY <1>1, <1>5
    <2>3. place[b] < place[a]
        BY <1>6, <2>1
    <2> QED
        BY <2>2, <2>3
<1> HIDE DEF first, place, n
<1>10. place \in [S -> 1..n]
    BY <1>5 DEF place
<1>11. place \in Surjection(S, 1..n)
    <2>1. place \in Injection(S, 1..n)
        BY <1>8, <1>10 DEF Injection, IsInjective
    <2> QED
        BY <1>2, <2>1, FS_Injection DEF n
<1> DEFINE s == [k \in 1..n |-> CHOOSE a \in S : place[a] = k]
<1>12. ASSUME NEW k \in 1..n PROVE s[k] \in S /\ place[s[k]] = k
    BY <1>11 DEF Surjection
<1>13. s \in [1..n -> S]
    BY <1>12
<1> HIDE DEF s
<1>14. s \in SetToSeqs(S)
    BY <1>12, <1>13 DEF SetToSeqs, n
<1>15. \A j, k \in 1..n : j < k => key[s[j]] <= key[s[k]]
    BY <1>9, <1>12
<1> QED
    BY <1>1, <1>14, <1>15 DEF n

\* What any enumeration of a finite set is.
LEMMA EnumerationFacts ==
    ASSUME NEW S, IsFiniteSet(S), NEW s \in SetToSeqs(S)
    PROVE  /\ Cardinality(S) \in Nat
           /\ s \in [1..Cardinality(S) -> S] /\ s \in Seq(S)
           /\ Len(s) = Cardinality(S) /\ DOMAIN s = 1..Cardinality(S)
           /\ \A j, k \in 1..Cardinality(S) : j # k => s[j] # s[k]
           /\ \A a \in S : \E k \in 1..Cardinality(S) : s[k] = a
<1> DEFINE n == Cardinality(S)
<1>1. n \in Nat
    BY FS_CardinalityType
<1>2. s \in [1..n -> S] /\ \A j, k \in 1..n : j # k => s[j] # s[k]
    BY DEF SetToSeqs
<1>3. IsFiniteSet(1..n) /\ Cardinality(1..n) = n
    BY <1>1, FS_Interval
<1>4. s \in Surjection(1..n, S)
    <2> HIDE DEF n
    <2>1. s \in Injection(1..n, S)
        BY <1>2 DEF Injection, IsInjective
    <2> QED
        BY <1>3, <2>1, FS_Injection DEF n
<1> HIDE DEF n
<1>5. s \in Seq(S) /\ Len(s) = n /\ DOMAIN s = 1..n
    BY <1>1, <1>2
<1> QED
    BY <1>1, <1>2, <1>4, <1>5 DEF Surjection, n

\* ORDER BY `timestamp` ASC and DESC.
LEMMA AscendingFacts ==
    ASSUME NEW S, IsFiniteSet(S), \A a \in S : a.time \in Int
    PROVE  /\ Ascending(S) \in SetToSeqs(S)
           /\ \A j, k \in 1..Cardinality(S) :
                 j < k => Ascending(S)[j].time <= Ascending(S)[k].time
<1> DEFINE key == [a \in S |-> a.time]
           Sorted(s) == \A j, k \in DOMAIN s : j < k => s[j].time <= s[k].time
<1>1. PICK s \in SetToSeqs(S) : \A j, k \in 1..Cardinality(S) : j < k => key[s[j]] <= key[s[k]]
    <2>1. key \in [S -> Int]
        OBVIOUS
    <2> HIDE DEF key
    <2> QED
        BY <2>1, Sortable
<1>2. Sorted(s)
    <2>1. DOMAIN s = 1..Cardinality(S) /\ \A k \in 1..Cardinality(S) : s[k] \in S
        BY EnumerationFacts
    <2>2. \A a, b \in S : key[a] <= key[b] => a.time <= b.time
        OBVIOUS
    <2> HIDE DEF key
    <2> QED
        BY <1>1, <2>1, <2>2
<1>3. Ascending(S) \in SetToSeqs(S) /\ Sorted(Ascending(S))
    BY <1>2 DEF Ascending
<1> QED
    BY <1>3, EnumerationFacts

LEMMA DescendingFacts ==
    ASSUME NEW S, IsFiniteSet(S), \A a \in S : a.time \in Int
    PROVE  /\ Descending(S) \in SetToSeqs(S)
           /\ \A j, k \in 1..Cardinality(S) :
                 j < k => Descending(S)[j].time >= Descending(S)[k].time
<1> DEFINE key == [a \in S |-> -a.time]
           Sorted(s) == \A j, k \in DOMAIN s : j < k => s[j].time >= s[k].time
<1>1. PICK s \in SetToSeqs(S) : \A j, k \in 1..Cardinality(S) : j < k => key[s[j]] <= key[s[k]]
    <2>1. key \in [S -> Int]
        OBVIOUS
    <2> HIDE DEF key
    <2> QED
        BY <2>1, Sortable
<1>2. Sorted(s)
    <2>1. DOMAIN s = 1..Cardinality(S) /\ \A k \in 1..Cardinality(S) : s[k] \in S
        BY EnumerationFacts
    <2>2. \A a, b \in S : key[a] <= key[b] => a.time >= b.time
        OBVIOUS
    <2> HIDE DEF key
    <2> QED
        BY <1>1, <2>1, <2>2
<1>3. Descending(S) \in SetToSeqs(S) /\ Sorted(Descending(S))
    BY <1>2 DEF Descending
<1> QED
    BY <1>3, EnumerationFacts

----------------------------------------------------------------------------
(* The condition string. *)

\* A round that does not fail starts where a round ended, has read a key, a
\* value and, behind the first two, a comma, and ends behind them.
LEMMA RoundStarts ==
    ASSUME NEW c, NEW k
    PROVE  AfterKey(c, Bad, k) = Bad
BY DEF AfterKey

LEMMA RoundReads ==
    ASSUME NEW c, NEW idx, NEW k, AfterKey(c, idx, k) # Bad
    PROVE  At(c, idx) = Key[k] /\ At(c, idx + 1) \in {"true", "false"}
BY DEF AfterKey

LEMMA RoundEnds ==
    ASSUME NEW c, NEW idx,
           AfterKey(c, idx, 1) # Bad \/ AfterKey(c, idx, 2) # Bad
    PROVE  /\ At(c, idx + 2) = ","
           /\ AfterKey(c, idx, 1) # Bad => AfterKey(c, idx, 1) = idx + 3
           /\ AfterKey(c, idx, 2) # Bad => AfterKey(c, idx, 2) = idx + 3
<1>1. Len(Key) = 3 /\ 1 < 3 /\ 2 < 3
    BY DEF Key
<1>2. CASE AfterKey(c, idx, 1) # Bad
    BY <1>1, <1>2 DEF AfterKey
<1>3. CASE AfterKey(c, idx, 2) # Bad
    BY <1>1, <1>3 DEF AfterKey
<1> QED
    BY <1>1, <1>2, <1>3 DEF AfterKey

LEMMA LastRoundEnds ==
    ASSUME NEW c, NEW idx, AfterKey(c, idx, 3) # Bad
    PROVE  AfterKey(c, idx, 3) = idx + 2
<1>1. Len(Key) = 3 /\ ~(3 < 3)
    BY DEF Key
<1> QED
    BY <1>1 DEF AfterKey

\* The tokens of a valid string.
LEMMA ValidTokens ==
    ASSUME NEW Token, NEW c \in Seq(Token), IsValidConditionFormat(c)
    PROVE  /\ Len(c) = 8
           /\ c[1] = Key[1] /\ c[2] \in {"true", "false"} /\ c[3] = ","
           /\ c[4] = Key[2] /\ c[5] \in {"true", "false"} /\ c[6] = ","
           /\ c[7] = Key[3] /\ c[8] \in {"true", "false"}
<1> DEFINE first == AfterKey(c, 1, 1)
           second == AfterKey(c, first, 2)
           third == AfterKey(c, second, 3)
<1>1. Len(c) \in Nat /\ DOMAIN c = 1..Len(c)
    OBVIOUS
<1>2. third = Len(c) + 1
    BY DEF IsValidConditionFormat, AfterKeys
<1>3. third # Bad
    BY <1>1, <1>2 DEF Bad
<1> HIDE DEF third
<1>5. second # Bad
    BY <1>3, RoundStarts DEF third
<1> HIDE DEF second
<1>6. first # Bad
    BY <1>5, RoundStarts DEF second
<1> HIDE DEF first
<1>7. first = 4
    <2>1. first = 1 + 3
        BY <1>6, RoundEnds DEF first
    <2> QED
        BY <2>1
<1>8. AfterKey(c, 4, 2) = second /\ AfterKey(c, 4, 2) # Bad
    BY <1>5, <1>7 DEF second
<1>9. second = 7
    <2>1. second = 4 + 3
        BY <1>8, RoundEnds
    <2> QED
        BY <2>1
<1>10. AfterKey(c, 7, 3) = third /\ AfterKey(c, 7, 3) # Bad
    BY <1>3, <1>9 DEF third
<1>11. third = 9
    <2>1. third = 7 + 2
        BY <1>10, LastRoundEnds
    <2> QED
        BY <2>1
<1>12. Len(c) = 8
    BY <1>1, <1>2, <1>11
<1>13. \A k \in 1..8 : At(c, k) = c[k]
    BY <1>1, <1>12 DEF At
<1>14. c[1] = Key[1] /\ c[2] \in {"true", "false"} /\ c[3] = ","
    <2>1. At(c, 1) = Key[1]
        BY <1>6, RoundReads DEF first
    <2>2. At(c, 1 + 1) \in {"true", "false"}
        BY <1>6, RoundReads DEF first
    <2>3. At(c, 1 + 2) = ","
        BY <1>6, RoundEnds DEF first
    <2>4. 1 + 1 = 2 /\ 1 + 2 = 3 /\ 1 \in 1..8 /\ 2 \in 1..8 /\ 3 \in 1..8
        OBVIOUS
    <2> QED
        BY <1>13, <2>1, <2>2, <2>3, <2>4
<1>15. c[4] = Key[2] /\ c[5] \in {"true", "false"} /\ c[6] = ","
    <2>1. At(c, 4) = Key[2]
        BY <1>8, RoundReads
    <2>2. At(c, 4 + 1) \in {"true", "false"}
        BY <1>8, RoundReads
    <2>3. At(c, 4 + 2) = ","
        BY <1>8, RoundEnds
    <2>4. 4 + 1 = 5 /\ 4 + 2 = 6 /\ 4 \in 1..8 /\ 5 \in 1..8 /\ 6 \in 1..8
        OBVIOUS
    <2> QED
        BY <1>13, <2>1, <2>2, <2>3, <2>4
<1>16. c[7] = Key[3] /\ c[8] \in {"true", "false"}
    <2>1. At(c, 7) = Key[3]
        BY <1>10, RoundReads
    <2>2. At(c, 7 + 1) \in {"true", "false"}
        BY <1>10, RoundReads
    <2>3. 7 + 1 = 8 /\ 7 \in 1..8 /\ 8 \in 1..8
        OBVIOUS
    <2> QED
        BY <1>13, <2>1, <2>2, <2>3
<1> QED
    BY <1>12, <1>14, <1>15, <1>16

\* A condition string that the POST lets through means the same to every view
\* that reads it: the "=true" that the level counts are as many as the bad
\* conditions that the split of the graph finds, at most three, so that no
\* level is an error and the level is the one the score says.
THEOREM ValidIsReadable ==
    ASSUME NEW Token, NEW c \in Seq(Token), IsValidConditionFormat(c)
    PROVE  /\ WarnCount(c) = Cardinality(BadConditions(c))
           /\ WarnCount(c) \in 0..3
           /\ CalculateConditionLevel(c) =
                 CASE ScoreConditionLevel(c) = 3 -> "info"
                   [] ScoreConditionLevel(c) = 2 -> "warning"
                   [] ScoreConditionLevel(c) = 1 -> "critical"
           /\ CalculateConditionLevel(c) # "error"
<1> DEFINE W == {i \in DOMAIN c : c[i] = "true" /\ At(c, i - 1) \in NameToken}
           N == {j \in DOMAIN c : c[j] \in NameToken /\ At(c, j + 1) = "true"}
           f == [i \in W |-> c[i - 1]]
<1>1. /\ Len(c) = 8 /\ DOMAIN c = 1..8
      /\ c[1] = "is_dirty=" /\ c[4] = "is_overweight=" /\ c[7] = "is_broken="
      /\ c[2] \in {"true", "false"} /\ c[5] \in {"true", "false"} /\ c[8] \in {"true", "false"}
      /\ c[3] = "," /\ c[6] = ","
    <2>1. /\ Key[1] = "is_dirty=" /\ Key[2] = "is_overweight="
          /\ Key[3] = "is_broken="
        BY DEF Key
    <2>2. Len(c) = 8
        BY ValidTokens
    <2>3. DOMAIN c = 1..8
        BY <2>2
    <2>4. c[1] = Key[1] /\ c[2] \in {"true", "false"} /\ c[3] = ","
        BY ValidTokens
    <2>5. c[4] = Key[2] /\ c[5] \in {"true", "false"} /\ c[6] = ","
        BY ValidTokens
    <2>6. c[7] = Key[3] /\ c[8] \in {"true", "false"}
        BY ValidTokens
    <2> QED
        BY <2>1, <2>2, <2>3, <2>4, <2>5, <2>6
<1>2. NameToken = {"is_dirty=", "is_overweight=", "is_broken=", "other="}
    <2>1. /\ Key = <<"is_dirty=", "is_overweight=", "is_broken=">>
          /\ DOMAIN Key = {1, 2, 3}
        BY DEF Key
    <2> QED
        BY <2>1 DEF NameToken
<1>3. \A i \in 1..8 : i \in {1, 2, 3, 4, 5, 6, 7, 8}
    OBVIOUS
<1>4. W = {i \in {2, 5, 8} : c[i] = "true"}
    <2>1. \A i \in 1..8 : c[i] = "true" => i \in {2, 5, 8}
        BY <1>1, <1>3
    <2>2. \A i \in {2, 5, 8} : i \in 1..8 /\ i - 1 \in {1, 4, 7} /\ i - 1 \in 1..8
        OBVIOUS
    <2>3. \A j \in {1, 4, 7} : c[j] \in NameToken
        BY <1>1, <1>2
    <2>4. \A k \in 1..8 : At(c, k) = c[k]
        BY <1>1 DEF At
    <2>5. \A i \in {2, 5, 8} : At(c, i - 1) \in NameToken
        BY <2>2, <2>3, <2>4
    <2> QED
        BY <1>1, <2>1, <2>2, <2>5
<1>5. N = {j \in {1, 4, 7} : c[j + 1] = "true"}
    <2>1. \A j \in 1..8 : c[j] \in NameToken => j \in {1, 4, 7}
        BY <1>1, <1>2, <1>3
    <2>2. \A j \in {1, 4, 7} : j \in 1..8 /\ j + 1 \in 1..8
        OBVIOUS
    <2>3. \A j \in {1, 4, 7} : c[j] \in NameToken
        BY <1>1, <1>2
    <2>4. \A k \in 1..8 : At(c, k) = c[k]
        BY <1>1 DEF At
    <2>5. \A j \in {1, 4, 7} : At(c, j + 1) = c[j + 1]
        BY <2>2, <2>4
    <2>6. \A j \in N : j \in {1, 4, 7} /\ c[j + 1] = "true"
        <3>1. \A j \in N : j \in 1..8 /\ c[j] \in NameToken /\ At(c, j + 1) = "true"
            BY <1>1
        <3> HIDE DEF N
        <3> QED
            BY <2>1, <2>5, <3>1
    <2>7. \A j \in {1, 4, 7} : c[j + 1] = "true" => j \in N
        BY <1>1, <2>2, <2>3, <2>5
    <2> HIDE DEF N
    <2> QED
        BY <2>6, <2>7
<1> HIDE DEF W, N
<1>6. f \in Bijection(W, BadConditions(c))
    <2>1. BadConditions(c) = {c[j] : j \in N}
        BY DEF BadConditions, N
    <2>2. \A i \in W : i - 1 \in N /\ f[i] = c[i - 1]
        BY <1>4, <1>5
    <2>3. \A j \in N : j + 1 \in W /\ (j + 1) - 1 = j
        BY <1>4, <1>5
    <2>4. \A i, k \in W : f[i] = f[k] => i = k
        <3>1. c[1] # c[4] /\ c[1] # c[7] /\ c[4] # c[7]
            BY <1>1
        <3>2. \A i \in W : i = 2 \/ i = 5 \/ i = 8
            BY <1>4
        <3>3. \A i \in W : /\ i = 2 => f[i] = c[1]
                           /\ i = 5 => f[i] = c[4]
                           /\ i = 8 => f[i] = c[7]
            OBVIOUS
        <3> HIDE DEF f
        <3> QED
            BY <3>1, <3>2, <3>3
    <2>5. f \in [W -> BadConditions(c)]
        BY <2>1, <2>2
    <2>6. \A b \in BadConditions(c) : \E i \in W : f[i] = b
        BY <2>1, <2>2, <2>3
    <2> HIDE DEF f
    <2> QED
        BY <2>4, <2>5, <2>6 DEF Bijection, Injection, Surjection, IsInjective
<1>7. W \in SUBSET {2, 5, 8}
    BY <1>4
<1>8. IsFiniteSet(W) /\ Cardinality(W) \in Nat /\ Cardinality(W) <= 3
    <2> DEFINE g == [i \in W |-> (i + 1) \div 3]
    <2>1. /\ (2 + 1) \div 3 = 1 /\ (5 + 1) \div 3 = 2 /\ (8 + 1) \div 3 = 3
        OBVIOUS
    <2>2. \A i \in W : g[i] \in 1..3
        BY <1>7, <2>1
    <2>3. \A i, k \in W : g[i] = g[k] => i = k
        BY <1>7, <2>1
    <2>4. g \in [W -> 1..3]
        BY <2>2
    <2> HIDE DEF g
    <2>5. g \in Injection(W, 1..3)
        BY <2>3, <2>4 DEF Injection, IsInjective
    <2> DEFINE I == 1..3
    <2>6. IsFiniteSet(I) /\ Cardinality(I) = 3
        <3>1. PICK n \in Nat : n = 3
            OBVIOUS
        <3>2. IsFiniteSet(1..n) /\ Cardinality(1..n) = n
            BY FS_Interval
        <3> QED
            BY <3>1, <3>2
    <2> HIDE DEF I
    <2>7. IsFiniteSet(W) /\ Cardinality(W) <= Cardinality(I)
        BY <2>5, <2>6, FS_Injection DEF I
    <2> QED
        BY <2>6, <2>7, FS_CardinalityType
<1>9. Cardinality(BadConditions(c)) = Cardinality(W)
    <2> HIDE DEF f
    <2>1. ExistsBijection(W, BadConditions(c))
        BY <1>6 DEF ExistsBijection
    <2> QED
        BY <1>8, <2>1, FS_Bijection
<1>10. WarnCount(c) = Cardinality(W)
    BY DEF WarnCount, W
<1>11. /\ WarnCount(c) \in {0, 1, 2, 3}
       /\ WarnCount(c) = Cardinality(BadConditions(c))
    BY <1>8, <1>9, <1>10
<1>12. CalculateConditionLevel(c) # "error"
    BY <1>11 DEF CalculateConditionLevel
<1> QED
    BY <1>11, <1>12
    DEF CalculateConditionLevel, ScoreConditionLevel

----------------------------------------------------------------------------
(* The stored rows. *)

\* The stored conditions were let through, they are of registered isu and of
\* hours of the model, and no isu has two of a time.
ViewsInv ==
    /\ isu \in Seq(Character)
    /\ IsFiniteSet(rows)
    /\ \A row \in rows : /\ row.isu \in DOMAIN isu /\ row.time \in Time
                         /\ row.condition \in Seq(STRING)
                         /\ IsValidConditionFormat(row.condition)
    /\ \A a, b \in rows : a.isu = b.isu /\ a.time = b.time => a = b

\* Times are numbers, and so are hours.
LEMMA TimeFacts ==
    /\ \A time \in Time : time \in Nat /\ Hour(time) \in 0..LastHour
    /\ \A s, t \in Time : s <= t => Hour(s) <= Hour(t)
<1>1. SlotsPerHour \in Nat \ {0} /\ LastHour \in Nat
    BY ViewsAssumption
<1> DEFINE end == SlotsPerHour * (LastHour + 1)
<1>2. end \in Int
    BY <1>1
<1>3. ASSUME NEW time \in Time PROVE time \in Nat /\ Hour(time) \in 0..LastHour
    <2>1. time \in Nat /\ time < SlotsPerHour * (LastHour + 1)
        <3>1. time \in 0..(end - 1)
            BY DEF Time
        <3> HIDE DEF end
        <3>2. time \in Nat /\ time < end
            BY <1>2, <3>1
        <3> QED
            BY <3>2 DEF end
    <2>2. time \div SlotsPerHour >= 0 /\ time \div SlotsPerHour < LastHour + 1
        BY <1>1, <2>1
    <2> QED
        BY <1>1, <2>1, <2>2 DEF Hour
<1>4. ASSUME NEW s \in Time, NEW t \in Time, s <= t PROVE Hour(s) <= Hour(t)
    <2>1. s \in Nat /\ t \in Nat
        BY <1>3
    <2> QED
        BY <1>1, <1>4, <2>1 DEF Hour
<1> QED
    BY <1>3, <1>4

LEMMA ViewsStep == ViewsInv /\ [Next]_vars => ViewsInv'
<1> SUFFICES ASSUME ViewsInv, [Next]_vars PROVE ViewsInv'
    OBVIOUS
<1>1. CASE UNCHANGED vars
    BY <1>1 DEF ViewsInv, vars
<1>2. ASSUME NEW character \in Character, Register(character) PROVE ViewsInv'
    <2>1. isu' = Append(isu, character) /\ rows' = rows
        BY <1>2 DEF Register
    <2>2. isu \in Seq(Character)
        BY DEF ViewsInv
    <2>3. isu' \in Seq(Character) /\ DOMAIN isu \subseteq DOMAIN isu'
        BY <2>1, <2>2
    <2> QED
        BY <2>1, <2>3 DEF ViewsInv
<1>3. ASSUME NEW i, NEW reading \in Reading, StoreCondition(i, reading) PROVE ViewsInv'
    <2>1. PICK time \in Time \ {row.time : row \in RowsOf(i)} :
             rows' = rows \cup {[isu |-> i, time |-> time, sitting |-> reading.sitting,
                                condition |-> reading.condition]}
        BY <1>3 DEF StoreCondition
    <2> DEFINE row == [isu |-> i, time |-> time, sitting |-> reading.sitting,
                       condition |-> reading.condition]
    <2>2. row.isu = i /\ row.time = time /\ row.condition = reading.condition
        OBVIOUS
    <2>3. \A a \in rows : a.isu = i => a.time # time
        BY <2>1 DEF RowsOf
    <2>4. /\ IsValidConditionFormat(reading.condition) /\ reading.condition \in Seq(STRING)
          /\ i \in DOMAIN isu /\ isu' = isu
        BY <1>3, ReadingAssumption DEF StoreCondition
    <2>5. rows' = rows \cup {row}
        BY <2>1
    <2> HIDE DEF row
    <2>6. IsFiniteSet(rows')
        BY <2>5, FS_AddElement DEF ViewsInv
    <2> QED
        BY <2>1, <2>2, <2>3, <2>4, <2>5, <2>6 DEF ViewsInv
<1> QED
    BY <1>1, <1>2, <1>3 DEF Next, RefuseCondition

THEOREM ViewsInvHolds == Spec => []ViewsInv
<1>1. Init => ViewsInv
    <2> SUFFICES ASSUME Init PROVE ViewsInv
        OBVIOUS
    <2>1. isu = <<>> /\ rows = {}
        BY DEF Init
    <2>2. isu \in Seq(Character)
        BY <2>1
    <2> QED
        BY <2>1, <2>2, FS_EmptySet DEF ViewsInv
<1> QED
    BY <1>1, ViewsStep, PTL DEF Spec

\* The rows of an isu, and any of them.
LEMMA SomeRows ==
    ASSUME ViewsInv, NEW S \in SUBSET rows
    PROVE  /\ IsFiniteSet(S)
           /\ \A row \in S : row.time \in Time /\ row.time \in Int
<1>1. IsFiniteSet(S)
    BY FS_Subset DEF ViewsInv
<1> QED
    BY <1>1, TimeFacts DEF ViewsInv

\* The first of the rows of an isu by descending time is its latest.
LEMMA LatestFacts ==
    ASSUME ViewsInv, NEW S \in SUBSET rows, S # {}
    PROVE  /\ Cardinality(S) \in Nat \ {0}
           /\ Descending(S)[1] \in S
           /\ \A row \in S : row.time <= Descending(S)[1].time
<1>1. IsFiniteSet(S) /\ \A row \in S : row.time \in Int
    BY SomeRows
<1> DEFINE n == Cardinality(S)
           d == Descending(S)
<1>2. /\ n \in Nat /\ d \in [1..n -> S]
      /\ \A a \in S : \E k \in 1..n : d[k] = a
    BY <1>1, DescendingFacts, EnumerationFacts
<1>3. \A j, k \in 1..n : j < k => d[j].time >= d[k].time
    BY <1>1, DescendingFacts
<1> HIDE DEF n, d
<1>4. n # 0
    BY <1>2
<1>5. 1 \in 1..n /\ \A k \in 1..n : k = 1 \/ 1 < k
    BY <1>2, <1>4
<1>6. \A k \in 1..n : d[k] \in S /\ d[1] \in S /\ d[k].time <= d[1].time
    BY <1>1, <1>2, <1>3, <1>5
<1> QED
    BY <1>2, <1>4, <1>5, <1>6 DEF n, d

\* No view meets a stored condition it cannot read, and the level is the one
\* that the score of the graph says: whatever is posted, registered and read,
\* for any strings and in any order of their times.
THEOREM StoredIsReadableHolds == Spec => []StoredIsReadable
<1>1. ASSUME ViewsInv PROVE StoredIsReadable
    <2>1. \A row \in rows :
             /\ CalculateConditionLevel(row.condition)
                   = CASE ScoreConditionLevel(row.condition) = 3 -> "info"
                       [] ScoreConditionLevel(row.condition) = 2 -> "warning"
                       [] ScoreConditionLevel(row.condition) = 1 -> "critical"
             /\ CalculateConditionLevel(row.condition) # "error"
        BY <1>1, ValidIsReadable DEF ViewsInv
    <2>2. ASSUME NEW i \in DOMAIN isu, RowsOf(i) # {} PROVE LastCondition(i) \in rows
        <3>1. RowsOf(i) \in SUBSET rows
            BY DEF RowsOf
        <3>2. Descending(RowsOf(i))[1] \in RowsOf(i)
            BY <1>1, <2>2, <3>1, LatestFacts
        <3> QED
            BY <3>1, <3>2 DEF LastCondition
    <2> QED
        BY <2>1, <2>2 DEF StoredIsReadable, TrendFails
<1> QED
    BY <1>1, ViewsInvHolds, PTL

----------------------------------------------------------------------------
(* The rows of an hour, and their data point. *)

\* Sequence c lists rows T in the order of their times.
Lists(c, T) ==
    /\ c \in Seq(T)
    /\ \A j, k \in 1..Len(c) : j < k => c[j].time < c[k].time
    /\ \A row \in T : \E k \in 1..Len(c) : c[k] = row

\* The places of rows in a list.
Places(c, U) == {k \in 1..Len(c) : c[k] \in U}

\* A listing counts the rows: those with a property are as many as their places.
LEMMA ListCounts ==
    ASSUME ViewsInv, NEW T \in SUBSET rows, NEW c, Lists(c, T), NEW U \in SUBSET T
    PROVE  /\ Len(c) \in Nat /\ Cardinality(T) = Len(c)
           /\ IsFiniteSet(U) /\ Cardinality(U) \in Nat
           /\ Cardinality(Places(c, U)) = Cardinality(U)
<1>1. Len(c) \in Nat /\ \A k \in 1..Len(c) : c[k] \in T
    BY DEF Lists
<1>2. IsFiniteSet(T) /\ \A row \in T : row.time \in Int
    BY SomeRows
<1>3. IsFiniteSet(1..Len(c)) /\ Cardinality(1..Len(c)) = Len(c)
    BY <1>1, FS_Interval
<1>4. \A j, k \in 1..Len(c) : c[j] = c[k] => j = k
    <2> SUFFICES ASSUME NEW j \in 1..Len(c), NEW k \in 1..Len(c), c[j] = c[k], j # k
                 PROVE  FALSE
        OBVIOUS
    <2>1. j < k \/ k < j
        BY <1>1
    <2>2. c[j].time < c[k].time \/ c[k].time < c[j].time
        BY <2>1 DEF Lists
    <2>3. c[j].time \in Int /\ c[k].time \in Int /\ c[j].time = c[k].time
        BY <1>1, <1>2
    <2> QED
        BY <2>2, <2>3
<1>5. ASSUME NEW V \in SUBSET T
      PROVE  /\ IsFiniteSet(V) /\ Cardinality(V) \in Nat
             /\ Cardinality(Places(c, V)) = Cardinality(V)
    <2> DEFINE places == Places(c, V)
               f == [k \in places |-> c[k]]
    <2>1. IsFiniteSet(places)
        BY <1>3, FS_Subset DEF Places
    <2>2. f \in Bijection(places, V)
        <3>1. f \in [places -> V]
            BY DEF Places
        <3>2. \A j, k \in places : f[j] = f[k] => j = k
            BY <1>4 DEF Places
        <3>3. \A row \in V : \E k \in places : f[k] = row
            BY DEF Lists, Places
        <3> HIDE DEF f, places
        <3> QED
            BY <3>1, <3>2, <3>3 DEF Bijection, Injection, Surjection, IsInjective
    <2> HIDE DEF f, places
    <2>3. IsFiniteSet(V) /\ Cardinality(V) = Cardinality(places)
        BY <2>1, <2>2, FS_Bijection DEF ExistsBijection
    <2> QED
        BY <2>1, <2>3, FS_CardinalityType DEF places
<1>6. Cardinality(T) = Len(c)
    <2>1. Places(c, T) = 1..Len(c)
        BY <1>1 DEF Places
    <2> QED
        BY <1>3, <1>5, <2>1
<1> QED
    BY <1>1, <1>5, <1>6

\* The percentage of a percentage: the backend divides once, the benchmarker
\* by 3 and then by the number of conditions.
LEMMA NestedDivision ==
    ASSUME NEW a \in Nat, NEW n \in Nat \ {0}
    PROVE  a \div (3 * n) = (a \div 3) \div n
<1> DEFINE q == a \div 3
           r == q \div n
           d == 3 * n
<1>1. q \in Nat /\ 3 * q <= a /\ a < 3 * q + 3
    OBVIOUS
<1> HIDE DEF q
<1>2. r \in Nat /\ r * n <= q /\ q < (r + 1) * n
    BY <1>1
<1> HIDE DEF r
<1>3. r * n \in Nat /\ (r + 1) * n = r * n + n /\ q <= r * n + n - 1
    BY <1>1, <1>2
<1>4. 3 * (r * n) <= a /\ a < 3 * (r * n) + 3 * n
    BY <1>1, <1>2, <1>3
<1>5. d \in Nat \ {0} /\ r * d = 3 * (r * n) /\ (r + 1) * d = 3 * (r * n) + 3 * n
    BY <1>2
<1> HIDE DEF d
<1>6. r * d <= a /\ a < (r + 1) * d
    BY <1>4, <1>5 DEF d
<1>7. a \div d = r
    BY <1>2, <1>5, <1>6
<1> QED
    BY <1>7 DEF d, r, q

\* How the count of some places grows along a list.
CountTo(P, m) == Cardinality({k \in 1..m : k \in P})

LEMMA PrefixCount ==
    ASSUME NEW P, NEW m \in Nat
    PROVE  /\ CountTo(P, m) \in Nat
           /\ CountTo(P, m + 1) = CountTo(P, m) + IF m + 1 \in P THEN 1 ELSE 0
<1> DEFINE Q == {k \in 1..m : k \in P}
<1>1. IsFiniteSet(1..m)
    BY FS_Interval
<1>2. IsFiniteSet(Q) /\ Cardinality(Q) \in Nat
    <2>1. Q \in SUBSET (1..m)
        OBVIOUS
    <2> QED
        BY <1>1, <2>1, FS_Subset, FS_CardinalityType
<1>3. m + 1 \notin Q
    OBVIOUS
<1>4. {k \in 1..(m + 1) : k \in P} = IF m + 1 \in P THEN Q \cup {m + 1} ELSE Q
    <2>1. \A k \in 1..(m + 1) : k \in 1..m \/ k = m + 1
        OBVIOUS
    <2>2. \A k \in 1..m : k \in 1..(m + 1)
        OBVIOUS
    <2>3. m + 1 \in 1..(m + 1)
        OBVIOUS
    <2> QED
        BY <2>1, <2>2, <2>3
<1> HIDE DEF Q
<1>5. Cardinality(Q \cup {m + 1}) = Cardinality(Q) + 1
    BY <1>2, <1>3, FS_AddElement
<1>6. Cardinality({k \in 1..(m + 1) : k \in P})
          = Cardinality(Q) + IF m + 1 \in P THEN 1 ELSE 0
    BY <1>2, <1>4, <1>5
<1> QED
    BY <1>2, <1>6 DEF Q, CountTo

\* The bad conditions of stored rows.
BadCount(row) == Cardinality(BadConditions(row.condition))

LEMMA StoredScores ==
    ASSUME ViewsInv, NEW row \in rows
    PROVE  /\ IsValidConditionFormat(row.condition)
           /\ BadCount(row) \in 0..3
           /\ ScoreConditionLevel(row.condition)
                = IF BadCount(row) \in {0} THEN 3 ELSE IF BadCount(row) \in {1, 2} THEN 2 ELSE 1
<1>1. IsValidConditionFormat(row.condition) /\ row.condition \in Seq(STRING)
    BY DEF ViewsInv
<1>2. BadCount(row) \in 0..3
    BY <1>1, ValidIsReadable DEF BadCount
<1> QED
    BY <1>1, <1>2 DEF ScoreConditionLevel, BadCount

\* The loop of calculateGraphDataPoint adds up the scores of its rounds.
ScoreSum(c) ==
    LET valid == {k \in DOMAIN c : IsValidConditionFormat(c[k].condition)}
        rawScore[k \in 0..Len(c)] ==
            IF k = 0 THEN 0
            ELSE rawScore[k - 1]
                   + IF k \in valid THEN ScoreConditionLevel(c[k].condition) ELSE 0
    IN  rawScore[Len(c)]

Warned(T, counts) == {row \in T : BadCount(row) \in counts}

LEMMA ScoreLoop ==
    ASSUME ViewsInv, NEW T \in SUBSET rows, NEW c, Lists(c, T)
    PROVE  /\ ScoreSum(c) = 3 * Cardinality(Warned(T, {0})) + 2 * Cardinality(Warned(T, {1, 2}))
                              + Cardinality(Warned(T, {3}))
           /\ ScoreSum(c) \in Nat /\ ScoreSum(c) >= Len(c)
<1> DEFINE n == Len(c)
           valid == {k \in DOMAIN c : IsValidConditionFormat(c[k].condition)}
           score == [k \in 1..n |-> ScoreConditionLevel(c[k].condition)]
           step == [p \in Nat \X (1..n) |-> p[1] + score[p[2]]]
           sum == CHOOSE g : g = [k \in 0..n |->
                     IF k = 0 THEN 0
                     ELSE g[k - 1] + IF k \in valid THEN ScoreConditionLevel(c[k].condition) ELSE 0]
<1>1. n \in Nat /\ DOMAIN c = 1..n /\ \A k \in 1..n : c[k] \in T /\ c[k] \in rows
    BY DEF Lists
<1>2. valid = 1..n
    BY <1>1, StoredScores
<1>3. \A k \in 1..n :
         /\ BadCount(c[k]) \in 0..3
         /\ score[k] = IF BadCount(c[k]) \in {0} THEN 3 ELSE IF BadCount(c[k]) \in {1, 2} THEN 2 ELSE 1
    BY <1>1, StoredScores
<1>4. \A k \in 1..n : score[k] \in Nat
    BY <1>3
<1>5. ScoreSum(c) = sum[n]
    BY DEF ScoreSum
<1> HIDE DEF valid
<1>6. \E g : g = [k \in 0..n |->
                     IF k = 0 THEN 0
                     ELSE g[k - 1] + IF k \in valid THEN ScoreConditionLevel(c[k].condition) ELSE 0]
    <2>1. step \in [Nat \X (1..n) -> Nat]
        <3> HIDE DEF score, n
        <3> QED
            BY <1>4
    <2>2. PICK f \in [0..n -> Nat] : f[0] = 0 /\ \A k \in 1..n : f[k] = step[<<f[k - 1], k>>]
        <3> HIDE DEF step, n
        <3>1. Runs(n, Nat, 0, step) # {}
            BY <1>1, <2>1, LoopRuns
        <3> QED
            BY <3>1 DEF Runs
    <2> HIDE DEF n
    <2>3. \A k \in 0..n : k # 0 => k \in 1..n /\ k - 1 \in 0..n
        BY <1>1
    <2>4. \A k \in 1..n : f[k - 1] \in Nat
        BY <1>1
    <2>5. \A k \in 1..n : f[k] = f[k - 1] + score[k]
        <3> HIDE DEF score
        <3> QED
            BY <2>2, <2>4
    <2>6. f = [k \in 0..n |-> f[k]]
        BY <2>2
    <2>7. \A k \in 0..n : f[k] = IF k = 0 THEN 0
              ELSE f[k - 1] + IF k \in valid THEN ScoreConditionLevel(c[k].condition) ELSE 0
        BY <1>2, <2>2, <2>3, <2>5
    <2>8. f = [k \in 0..n |-> IF k = 0 THEN 0
              ELSE f[k - 1] + IF k \in valid THEN ScoreConditionLevel(c[k].condition) ELSE 0]
        BY <2>6, <2>7
    <2> QED
        BY <2>8
<1>7. sum = [k \in 0..n |->
                 IF k = 0 THEN 0
                 ELSE sum[k - 1] + IF k \in valid THEN ScoreConditionLevel(c[k].condition) ELSE 0]
    BY <1>6
<1> HIDE DEF sum, step, n
<1>8. sum[0] = 0 /\ \A k \in 1..n : sum[k] = sum[k - 1] + score[k]
    <2>1. 0 \in 0..n /\ \A k \in 1..n : k \in 0..n /\ k # 0
        BY <1>1
    <2>2. sum[0] = 0
        BY <1>7, <2>1
    <2>3. ASSUME NEW k \in 1..n PROVE sum[k] = sum[k - 1] + score[k]
        <3>1. sum[k] = IF k = 0 THEN 0
                 ELSE sum[k - 1] + IF k \in valid THEN ScoreConditionLevel(c[k].condition) ELSE 0
            BY <1>7, <2>1
        <3> QED
            BY <1>2, <2>1, <3>1
    <2> QED
        BY <2>2, <2>3
<1> HIDE DEF score
<1> DEFINE P0 == {k \in 1..n : BadCount(c[k]) \in {0}}
           P1 == {k \in 1..n : BadCount(c[k]) \in {1, 2}}
           P3 == {k \in 1..n : BadCount(c[k]) \in {3}}
           G == {m \in 0..n : /\ sum[m] = 3 * CountTo(P0, m) + 2 * CountTo(P1, m) + CountTo(P3, m)
                              /\ sum[m] \in Nat /\ sum[m] >= m}
<1>9. \A m \in 0..n : CountTo(P0, m) \in Nat /\ CountTo(P1, m) \in Nat /\ CountTo(P3, m) \in Nat
    <2> HIDE DEF P0, P1, P3
    <2> QED
        BY <1>1, PrefixCount
<1>10. 0 \in G
    <2>1. \A P : CountTo(P, 0) = 0
        <3> SUFFICES ASSUME NEW P PROVE CountTo(P, 0) = 0
            OBVIOUS
        <3>1. {k \in 1..0 : k \in P} = {}
            OBVIOUS
        <3> QED
            BY <3>1, FS_EmptySet DEF CountTo
    <2> QED
        BY <1>1, <1>8, <2>1
<1>11. ASSUME NEW m \in 0..(n - 1), m \in G PROVE m + 1 \in G
    <2>1. m \in Nat /\ m + 1 \in 1..n /\ m + 1 \in 0..n /\ (m + 1) - 1 = m /\ m \in 0..n
        BY <1>1
    <2>2. sum[m + 1] = sum[m] + score[m + 1]
        BY <1>8, <2>1
    <2> DEFINE b == BadCount(c[m + 1])
    <2>3. b \in 0..3 /\ score[m + 1] = IF b \in {0} THEN 3 ELSE IF b \in {1, 2} THEN 2 ELSE 1
        BY <1>3, <2>1
    <2>4. /\ m + 1 \in P0 <=> b \in {0}
          /\ m + 1 \in P1 <=> b \in {1, 2}
          /\ m + 1 \in P3 <=> b \in {3}
        BY <2>1
    <2> HIDE DEF P0, P1, P3, b
    <2>5. CountTo(P0, m + 1) = CountTo(P0, m) + IF b \in {0} THEN 1 ELSE 0
        BY <2>1, <2>4, PrefixCount
    <2>6. CountTo(P1, m + 1) = CountTo(P1, m) + IF b \in {1, 2} THEN 1 ELSE 0
        BY <2>1, <2>4, PrefixCount
    <2>7. CountTo(P3, m + 1) = CountTo(P3, m) + IF b \in {3} THEN 1 ELSE 0
        BY <2>1, <2>4, PrefixCount
    <2>8. CountTo(P0, m) \in Nat /\ CountTo(P1, m) \in Nat /\ CountTo(P3, m) \in Nat
        BY <1>9, <2>1
    <2>9. sum[m] = 3 * CountTo(P0, m) + 2 * CountTo(P1, m) + CountTo(P3, m) /\ sum[m] \in Nat /\ sum[m] >= m
        BY <1>11
    <2>10. CASE b = 0
        BY <2>1, <2>2, <2>3, <2>5, <2>6, <2>7, <2>8, <2>9, <2>10
    <2>11. CASE b = 1 \/ b = 2
        BY <2>1, <2>2, <2>3, <2>5, <2>6, <2>7, <2>8, <2>9, <2>11
    <2>12. CASE b = 3
        BY <2>1, <2>2, <2>3, <2>5, <2>6, <2>7, <2>8, <2>9, <2>12
    <2> QED
        BY <2>3, <2>10, <2>11, <2>12
<1>12. n \in G
    <2> HIDE DEF G
    <2>1. \A m \in 0..n : m \in G
        BY <1>1, <1>10, <1>11, Rounds
    <2> QED
        BY <1>1, <2>1
<1>13. /\ CountTo(P0, n) = Cardinality(Warned(T, {0})) /\ CountTo(P1, n) = Cardinality(Warned(T, {1, 2}))
       /\ CountTo(P3, n) = Cardinality(Warned(T, {3}))
    <2> SUFFICES ASSUME NEW counts
                 PROVE  CountTo({k \in 1..n : BadCount(c[k]) \in counts}, n)
                            = Cardinality(Warned(T, counts))
        OBVIOUS
    <2> DEFINE U == Warned(T, counts)
    <2>1. U \in SUBSET T
        BY DEF Warned
    <2>2. {k \in 1..n : k \in {j \in 1..n : BadCount(c[j]) \in counts}} = Places(c, U)
        BY <1>1 DEF Warned, Places, n
    <2> HIDE DEF U
    <2>3. Cardinality(Places(c, U)) = Cardinality(U)
        BY <2>1, ListCounts
    <2> QED
        BY <2>2, <2>3 DEF U, CountTo
<1> HIDE DEF P0, P1, P3
<1> QED
    BY <1>5, <1>12, <1>13 DEF n

\* The data point of a list of rows is the one the benchmarker computes from
\* the rows, and its score is positive.
LEMMA DataPointFacts ==
    ASSUME ViewsInv, NEW T \in SUBSET rows, T # {}, NEW c, Lists(c, T)
    PROVE  CalculateGraphDataPoint(c) = BenchGraph(T) /\ BenchGraph(T).score > 0
<1> DEFINE n == Len(c)
           valid == {k \in DOMAIN c : IsValidConditionFormat(c[k].condition)}
           Names == {Key[k] : k \in DOMAIN Key}
           Of(count) == (count * 100) \div n
           Sits == {row \in T : row.sitting}
           Bads(name) == {row \in T : name \in BadConditions(row.condition)}
           raw == ScoreSum(c)
<1>1. n \in Nat \ {0} /\ DOMAIN c = 1..n /\ \A k \in 1..n : c[k] \in T /\ c[k] \in rows
    BY DEF Lists
<1>2. valid = 1..n
    BY <1>1, StoredScores
<1>3. n = Cardinality(T)
    BY ListCounts
<1>4. Cardinality({k \in DOMAIN c : c[k].sitting}) = Cardinality(Sits)
    <2>1. Sits \in SUBSET T
        OBVIOUS
    <2>2. {k \in DOMAIN c : c[k].sitting} = Places(c, Sits)
        BY <1>1 DEF Places
    <2> HIDE DEF Sits
    <2>3. Cardinality(Places(c, Sits)) = Cardinality(Sits)
        BY <2>1, ListCounts, ZenonT(20)
    <2> QED
        BY <2>2, <2>3
<1>5. ASSUME NEW name
      PROVE  Cardinality({k \in valid : name \in BadConditions(c[k].condition)})
                = Cardinality(Bads(name))
    <2> DEFINE U == Bads(name)
    <2>1. U \in SUBSET T
        OBVIOUS
    <2>2. {k \in valid : name \in BadConditions(c[k].condition)} = Places(c, U)
        BY <1>1, <1>2 DEF Places
    <2> HIDE DEF U
    <2>3. Cardinality(Places(c, U)) = Cardinality(U)
        BY <2>1, ListCounts, ZenonT(20)
    <2> QED
        BY <2>2, <2>3 DEF U
<1>6. (raw * 100) \div (3 * n) = ((raw * 100) \div 3) \div n
    <2>1. raw \in Nat
        BY ScoreLoop
    <2> HIDE DEF raw, n
    <2>2. raw * 100 \in Nat
        BY <2>1
    <2> QED
        BY <1>1, <2>2, NestedDivision
<1>7. BenchGraph(T) =
         [score |-> ((raw * 100) \div 3) \div n, sitting |-> Of(Cardinality(Sits)),
          bad |-> [name \in Names |-> Of(Cardinality(Bads(name)))]]
    <2>1. raw = 3 * Cardinality(Warned(T, {0})) + 2 * Cardinality(Warned(T, {1, 2}))
                    + Cardinality(Warned(T, {3}))
        BY ScoreLoop
    <2> HIDE DEF raw, n
    <2> QED
        BY <1>3, <2>1 DEF BenchGraph, Warned, BadCount
<1>8. CalculateGraphDataPoint(c) =
         [score |-> (raw * 100) \div (3 * n),
          sitting |-> Of(Cardinality({k \in DOMAIN c : c[k].sitting})),
          bad |-> [name \in Names |->
             Of(Cardinality({k \in valid : name \in BadConditions(c[k].condition)}))]]
    BY DEF CalculateGraphDataPoint, ScoreSum
<1>9. CalculateGraphDataPoint(c) = BenchGraph(T)
    <2> HIDE DEF raw, n, valid, Names, Sits, Bads
    <2> QED
        BY <1>4, <1>5, <1>6, <1>7, <1>8
<1>10. ((raw * 100) \div 3) \div n > 0
    <2>1. raw \in Nat /\ raw >= n
        BY ScoreLoop
    <2> HIDE DEF raw, n
    <2> DEFINE q == (raw * 100) \div 3
    <2>2. q \in Nat /\ q >= n
        BY <1>1, <2>1
    <2> HIDE DEF q
    <2>3. q \div n >= 1
        BY <1>1, <2>2
    <2>4. q \div n \in Int
        BY <1>1, <2>2
    <2> QED
        BY <2>3, <2>4 DEF q
<1> QED
    BY <1>7, <1>9, <1>10

----------------------------------------------------------------------------
(* The data points. *)

OfHour(T, hour) == {row \in T : Hour(row.time) = hour}
Before(T, hour) == {row \in T : Hour(row.time) < hour}

\* Point p shows the rows T.
PointOf(p, T) ==
    /\ T # {}
    /\ \E c : /\ Lists(c, T)
              /\ p.data = CalculateGraphDataPoint(c)
              /\ p.timestamps = [k \in DOMAIN c |-> c[k].time]

Data == {CalculateGraphDataPoint(c) : c \in Seq(rows)}
Point == [start : Int, data : Data, timestamps : Seq(Time)]

\* Points are those of the rows T: one for each hour of any, in order.
PointsOf(points, T) ==
    /\ points \in Seq(Point)
    /\ \A p, q \in 1..Len(points) : p < q => points[p].start < points[q].start
    /\ \A p \in 1..Len(points) : PointOf(points[p], OfHour(T, points[p].start))
    /\ \A row \in T : \E p \in 1..Len(points) : points[p].start = Hour(row.time)

\* The loop over the rows, when it has read T.
Acc == [points : Seq(Point), hour : Int, conditions : Seq(rows)]

ReadInv(acc, T) ==
    /\ acc \in Acc
    /\ acc.hour = 0 \/ \E row \in T : Hour(row.time) = acc.hour
    /\ \A row \in T : Hour(row.time) <= acc.hour
    /\ Lists(acc.conditions, OfHour(T, acc.hour))
    /\ PointsOf(acc.points, Before(T, acc.hour))

\* One more row, later than those listed.
LEMMA ListAppend ==
    ASSUME NEW T, NEW c, Lists(c, T), NEW row, row.time \in Int,
           \A a \in T : a.time \in Int /\ a.time < row.time
    PROVE  Lists(Append(c, row), T \cup {row})
<1> DEFINE d == Append(c, row)
           n == Len(c)
<1>1. /\ c \in Seq(T) /\ n \in Nat /\ \A k \in 1..n : c[k] \in T
    BY DEF Lists
<1>2. c \in Seq(T \cup {row})
    BY <1>1
<1>3. /\ d \in Seq(T \cup {row}) /\ Len(d) = n + 1
      /\ \A k \in 1..n : d[k] = c[k]
      /\ d[n + 1] = row
    BY <1>2, AppendProperties
<1> HIDE DEF d
<1>4. ASSUME NEW j \in 1..(n + 1), NEW k \in 1..(n + 1), j < k PROVE d[j].time < d[k].time
    <2>1. j \in 1..n
        BY <1>1, <1>4
    <2>2. CASE k = n + 1
        BY <1>1, <1>3, <2>1, <2>2
    <2>3. CASE k # n + 1
        <3>1. k \in 1..n
            BY <1>1, <2>3
        <3> QED
            BY <1>3, <1>4, <2>1, <3>1 DEF Lists
    <2> QED
        BY <2>2, <2>3
<1>5. ASSUME NEW a \in T \cup {row} PROVE \E k \in 1..(n + 1) : d[k] = a
    <2>1. CASE a = row
        <3>1. n + 1 \in 1..(n + 1)
            BY <1>1
        <3> QED
            BY <1>3, <2>1, <3>1
    <2>2. CASE a \in T
        <3>1. PICK k \in 1..n : c[k] = a
            BY <2>2 DEF Lists
        <3>2. k \in 1..(n + 1)
            BY <1>1
        <3> QED
            BY <1>3, <3>1, <3>2
    <2> QED
        BY <2>1, <2>2
<1> QED
    BY <1>3, <1>4, <1>5 DEF Lists, d

\* What is pushed is a point.
LEMMA NewPoint ==
    ASSUME ViewsInv, NEW c \in Seq(rows), NEW h \in Int
    PROVE  [start |-> h, data |-> CalculateGraphDataPoint(c),
            timestamps |-> [k \in DOMAIN c |-> c[k].time]] \in Point
<1>1. DOMAIN c = 1..Len(c) /\ Len(c) \in Nat /\ \A k \in 1..Len(c) : c[k] \in rows
    OBVIOUS
<1>2. \A k \in 1..Len(c) : c[k].time \in Time
    BY <1>1 DEF ViewsInv
<1>3. [k \in DOMAIN c |-> c[k].time] \in Seq(Time)
    BY <1>1, <1>2
<1> QED
    BY <1>3 DEF Point, Data

LEMMA AddRowType ==
    ASSUME ViewsInv, NEW acc \in Acc, NEW row \in rows
    PROVE  AddRow(acc, row) \in Acc
<1>1. /\ acc.points \in Seq(Point) /\ acc.hour \in Int /\ acc.conditions \in Seq(rows)
      /\ acc = [points |-> acc.points, hour |-> acc.hour, conditions |-> acc.conditions]
    BY DEF Acc
<1>2. Append(acc.conditions, row) \in Seq(rows) /\ <<row>> \in Seq(rows)
    BY <1>1
<1>3. Hour(row.time) \in Int
    BY TimeFacts DEF ViewsInv
<1>4. PushHour(acc) \in Seq(Point)
    <2> DEFINE c == acc.conditions
               p == [start |-> acc.hour, data |-> CalculateGraphDataPoint(c),
                     timestamps |-> [k \in DOMAIN c |-> c[k].time]]
    <2>1. p \in Point
        <3> HIDE DEF c
        <3> QED
            BY <1>1, NewPoint DEF c
    <2>2. PushHour(acc) = IF c = <<>> THEN acc.points ELSE Append(acc.points, p)
        BY DEF PushHour
    <2> HIDE DEF p, c
    <2> QED
        BY <1>1, <2>1, <2>2
<1>5. CASE Hour(row.time) = acc.hour
    <2>1. AddRow(acc, row) =
             [points |-> acc.points, hour |-> acc.hour, conditions |-> Append(acc.conditions, row)]
        BY <1>1, <1>5 DEF AddRow
    <2> QED
        BY <1>1, <1>2, <2>1 DEF Acc
<1>6. CASE Hour(row.time) # acc.hour
    <2>1. AddRow(acc, row) =
             [points |-> PushHour(acc), hour |-> Hour(row.time), conditions |-> <<row>>]
        BY <1>6 DEF AddRow
    <2> QED
        BY <1>2, <1>3, <1>4, <2>1 DEF Acc
<1> QED
    BY <1>5, <1>6

\* dataPoints.push closes an hour.
LEMMA PushStep ==
    ASSUME ViewsInv, NEW T \in SUBSET rows, NEW acc, ReadInv(acc, T)
    PROVE  PointsOf(PushHour(acc), T)
<1> DEFINE c == acc.conditions
           h == acc.hour
           old == acc.points
           U == OfHour(T, h)
<1>1. /\ c \in Seq(rows) /\ h \in Int /\ old \in Seq(Point)
      /\ \A row \in T : Hour(row.time) <= h
      /\ Lists(c, U)
      /\ PointsOf(old, Before(T, h))
    BY DEF ReadInv, Acc
<1>2. \A row \in T : Hour(row.time) \in Int /\ row.time \in Time
    BY TimeFacts DEF ViewsInv
<1>3. CASE c = <<>>
    <2>1. U = {}
        BY <1>1, <1>3 DEF Lists
    <2>2. Before(T, h) = T
        BY <1>1, <1>2, <2>1 DEF Before, OfHour
    <2>3. PushHour(acc) = old
        BY <1>3 DEF PushHour
    <2> QED
        BY <1>1, <2>2, <2>3
<1>4. CASE c # <<>>
    <2> DEFINE p == [start |-> h, data |-> CalculateGraphDataPoint(c),
                     timestamps |-> [k \in DOMAIN c |-> c[k].time]]
               new == Append(old, p)
               n == Len(old)
    <2>1. PushHour(acc) = new
        BY <1>4 DEF PushHour
    <2>2. U # {}
        BY <1>1, <1>4 DEF Lists
    <2>3. PointOf(p, U)
        BY <1>1, <2>2 DEF PointOf
    <2>4. p \in Point
        <3> HIDE DEF c, h
        <3> QED
            BY <1>1, NewPoint
    <2>5. p.start = h
        OBVIOUS
    <2> HIDE DEF p
    <2>6. n \in Nat
        BY <1>1
    <2>7. /\ new \in Seq(Point) /\ Len(new) = n + 1
          /\ \A k \in 1..n : new[k] = old[k]
          /\ new[n + 1] = p
        BY <1>1, <2>4, AppendProperties
    <2>8. \A k \in 1..n : /\ old[k].start < h /\ old[k].start \in Int
                          /\ PointOf(old[k], OfHour(T, old[k].start))
        <3> SUFFICES ASSUME NEW k \in 1..n
                     PROVE  /\ old[k].start < h /\ old[k].start \in Int
                            /\ PointOf(old[k], OfHour(T, old[k].start))
            OBVIOUS
        <3>1. PointOf(old[k], OfHour(Before(T, h), old[k].start))
            BY <1>1 DEF PointsOf
        <3>2. old[k].start < h
            BY <3>1 DEF PointOf, OfHour, Before
        <3>3. OfHour(Before(T, h), old[k].start) = OfHour(T, old[k].start)
            BY <3>2 DEF OfHour, Before
        <3>4. old[k] \in Point
            BY <1>1
        <3> QED
            BY <3>1, <3>2, <3>3, <3>4 DEF Point
    <2> HIDE DEF new, old, c, h
    <2>9. ASSUME NEW j \in 1..(n + 1), NEW k \in 1..(n + 1), j < k
          PROVE  new[j].start < new[k].start
        <3>1. j \in 1..n
            BY <2>6, <2>9
        <3>2. CASE k = n + 1
            BY <2>5, <2>7, <2>8, <3>1, <3>2
        <3>3. CASE k # n + 1
            <4>1. k \in 1..n
                BY <2>6, <3>3
            <4> QED
                BY <1>1, <2>7, <2>9, <3>1, <4>1 DEF PointsOf
        <3> QED
            BY <3>2, <3>3
    <2>10. ASSUME NEW k \in 1..(n + 1) PROVE PointOf(new[k], OfHour(T, new[k].start))
        <3>1. CASE k = n + 1
            BY <2>3, <2>5, <2>7, <3>1
        <3>2. CASE k # n + 1
            <4>1. k \in 1..n
                BY <2>6, <3>2
            <4> QED
                BY <2>7, <2>8, <4>1
        <3> QED
            BY <3>1, <3>2
    <2>11. ASSUME NEW row \in T PROVE \E k \in 1..(n + 1) : new[k].start = Hour(row.time)
        <3>1. CASE Hour(row.time) = h
            <4>1. n + 1 \in 1..(n + 1)
                BY <2>6
            <4> QED
                BY <2>5, <2>7, <3>1, <4>1
        <3>2. CASE Hour(row.time) # h
            <4>1. row \in Before(T, h)
                BY <1>1, <1>2, <3>2 DEF Before
            <4>2. PICK k \in 1..n : old[k].start = Hour(row.time)
                BY <1>1, <4>1 DEF PointsOf
            <4>3. k \in 1..(n + 1)
                BY <2>6
            <4> QED
                BY <2>7, <4>2, <4>3
        <3> QED
            BY <3>1, <3>2
    <2> QED
        BY <2>1, <2>7, <2>9, <2>10, <2>11 DEF PointsOf
<1> QED
    BY <1>3, <1>4

\* A round of the loop: a row later than those read.
LEMMA RowStep ==
    ASSUME ViewsInv, NEW T \in SUBSET rows, NEW acc, ReadInv(acc, T), NEW row \in rows,
           \A a \in T : a.time < row.time
    PROVE  ReadInv(AddRow(acc, row), T \cup {row})
<1> DEFINE h == Hour(row.time)
           next == AddRow(acc, row)
           R == T \cup {row}
<1>1. /\ \A a \in rows : a.time \in Time /\ a.time \in Int /\ Hour(a.time) \in Int
                         /\ Hour(a.time) >= 0
      /\ R \in SUBSET rows
    BY TimeFacts DEF ViewsInv
<1>2. \A a \in T : Hour(a.time) <= h
    <2> SUFFICES ASSUME NEW a \in T PROVE Hour(a.time) <= h
        OBVIOUS
    <2>1. a.time \in Time /\ row.time \in Time /\ a.time <= row.time
        BY <1>1
    <2> QED
        BY <2>1, TimeFacts
<1>3. /\ acc.points \in Seq(Point) /\ acc.hour \in Int /\ acc.conditions \in Seq(rows)
      /\ acc.hour = 0 \/ \E a \in T : Hour(a.time) = acc.hour
      /\ \A a \in T : Hour(a.time) <= acc.hour
      /\ Lists(acc.conditions, OfHour(T, acc.hour))
      /\ PointsOf(acc.points, Before(T, acc.hour))
      /\ acc = [points |-> acc.points, hour |-> acc.hour, conditions |-> acc.conditions]
    BY DEF ReadInv, Acc
<1>4. CASE h = acc.hour
    <2>1. next = [points |-> acc.points, hour |-> h, conditions |-> Append(acc.conditions, row)]
        BY <1>3, <1>4 DEF AddRow
    <2>2. next.points = acc.points /\ next.hour = h /\ next.conditions = Append(acc.conditions, row)
        BY <2>1
    <2>3. Append(acc.conditions, row) \in Seq(rows)
        BY <1>3
    <2>4. next \in Acc
        BY <1>1, <1>3, <2>1, <2>3 DEF Acc
    <2>5. OfHour(R, h) = OfHour(T, h) \cup {row}
        BY DEF OfHour
    <2>6. Lists(Append(acc.conditions, row), OfHour(T, h) \cup {row})
        <3>1. \A a \in OfHour(T, h) : a.time \in Int /\ a.time < row.time
            BY <1>1 DEF OfHour
        <3>2. Lists(acc.conditions, OfHour(T, h))
            BY <1>3, <1>4
        <3> QED
            BY <1>1, <3>1, <3>2, ListAppend
    <2>7. Before(R, h) = Before(T, h)
        BY <1>1 DEF Before
    <2>8. PointsOf(acc.points, Before(R, h))
        BY <1>3, <1>4, <2>7
    <2> HIDE DEF next, h
    <2>9. \A a \in R : Hour(a.time) <= h
        BY <1>1, <1>2 DEF h
    <2>10. \E a \in R : Hour(a.time) = h
        BY DEF h
    <2>11. Lists(next.conditions, OfHour(R, next.hour)) /\ PointsOf(next.points, Before(R, next.hour))
        BY <2>2, <2>5, <2>6, <2>8
    <2>12. ReadInv(next, R)
        <3> HIDE DEF R
        <3> QED
            BY <2>2, <2>4, <2>9, <2>10, <2>11 DEF ReadInv
    <2> QED
        BY <2>12 DEF next
<1>5. CASE h # acc.hour
    <2>1. next = [points |-> PushHour(acc), hour |-> h, conditions |-> <<row>>]
        BY <1>5 DEF AddRow
    <2>2. next.points = PushHour(acc) /\ next.hour = h /\ next.conditions = <<row>>
        BY <2>1
    <2>3. PointsOf(PushHour(acc), T)
        BY PushStep
    <2>4. next \in Acc
        BY <1>1, <2>1, <2>3 DEF Acc, PointsOf
    <2>5. \A a \in T : Hour(a.time) < h
        <3>1. acc.hour <= h
            BY <1>1, <1>2, <1>3
        <3> QED
            BY <1>1, <1>3, <1>5, <3>1
    <2>6. Before(R, h) = T
        BY <1>1, <2>5 DEF Before
    <2>7. OfHour(R, h) = {row}
        BY <1>1, <2>5 DEF OfHour
    <2>8. Lists(<<row>>, {row})
        <3>1. <<row>> \in Seq({row}) /\ Len(<<row>>) = 1 /\ <<row>>[1] = row /\ 1 \in 1..1
            OBVIOUS
        <3>2. \A j, k \in 1..1 : ~(j < k)
            OBVIOUS
        <3> QED
            BY <3>1, <3>2 DEF Lists
    <2>9. \A a \in R : Hour(a.time) <= h
        BY <1>1, <1>2
    <2> HIDE DEF next, h
    <2>10. \E a \in R : Hour(a.time) = h
        BY DEF h
    <2>11. Lists(next.conditions, OfHour(R, next.hour)) /\ PointsOf(next.points, Before(R, next.hour))
        BY <2>2, <2>3, <2>6, <2>7, <2>8
    <2>12. ReadInv(next, R)
        <3> HIDE DEF R
        <3> QED
            BY <2>2, <2>4, <2>9, <2>10, <2>11 DEF ReadInv
    <2> QED
        BY <2>12 DEF next
<1> QED
    BY <1>4, <1>5

\* The points built by one pass over the sorted rows of an isu.
LEMMA DataPointsFacts ==
    ASSUME ViewsInv, NEW i PROVE PointsOf(DataPoints(i), RowsOf(i))
<1> DEFINE S == RowsOf(i)
           c == Ascending(S)
           n == Len(c)
           T(k) == {c[j] : j \in 1..k}
           init == [points |-> <<>>, hour |-> 0, conditions |-> <<>>]
           read == CHOOSE g : g = [k \in 0..n |-> IF k = 0 THEN init ELSE AddRow(g[k - 1], c[k])]
<1>1. S \in SUBSET rows /\ \A a, b \in S : a.time = b.time => a = b
    BY DEF RowsOf, ViewsInv
<1>2. IsFiniteSet(S) /\ \A a \in S : a.time \in Int
    BY <1>1, SomeRows
<1>3. /\ n \in Nat /\ \A k \in 1..n : c[k] \in S /\ c[k] \in rows
      /\ \A a \in S : \E k \in 1..n : c[k] = a
      /\ \A j, k \in 1..n : j < k => c[j].time < c[k].time
    <2> HIDE DEF S
    <2>1. /\ c \in SetToSeqs(S)
          /\ \A j, k \in 1..Cardinality(S) : j < k => c[j].time <= c[k].time
        BY <1>2, AscendingFacts
    <2> HIDE DEF c
    <2>2. /\ Cardinality(S) \in Nat /\ c \in [1..Cardinality(S) -> S] /\ Len(c) = Cardinality(S)
          /\ \A j, k \in 1..Cardinality(S) : j # k => c[j] # c[k]
          /\ \A a \in S : \E k \in 1..Cardinality(S) : c[k] = a
        BY <1>2, <2>1, EnumerationFacts
    <2>3. \A k \in 1..n : c[k] \in S /\ c[k] \in rows
        BY <1>1, <2>2
    <2>4. ASSUME NEW j \in 1..n, NEW k \in 1..n, j < k PROVE c[j].time < c[k].time
        <3>1. c[j] # c[k] /\ c[j] \in S /\ c[k] \in S /\ c[j].time <= c[k].time
            BY <2>1, <2>2, <2>3, <2>4
        <3> QED
            BY <1>1, <1>2, <3>1
    <2> QED
        BY <2>2, <2>3, <2>4
<1>4. DataPoints(i) = PushHour(read[n])
    BY DEF DataPoints, ReadRows
<1> HIDE DEF c, n, S
<1>5. init \in Acc /\ ReadInv(init, {})
    <2>1. init.points = <<>> /\ init.hour = 0 /\ init.conditions = <<>>
        OBVIOUS
    <2>2. init \in Acc
        BY DEF Acc
    <2>3. Lists(<<>>, {})
        BY DEF Lists
    <2>4. PointsOf(<<>>, {})
        BY DEF PointsOf
    <2>5. OfHour({}, 0) = {} /\ Before({}, 0) = {}
        BY DEF OfHour, Before
    <2> QED
        BY <2>1, <2>2, <2>3, <2>4, <2>5 DEF ReadInv
<1> HIDE DEF init
<1>6. ASSUME NEW k \in 0..(n - 1), NEW acc, ReadInv(acc, T(k))
      PROVE  ReadInv(AddRow(acc, c[k + 1]), T(k + 1))
    <2>1. k + 1 \in 1..n /\ \A j \in 1..k : j \in 1..n /\ j < k + 1
        BY <1>3
    <2>2. c[k + 1] \in rows /\ T(k) \in SUBSET rows
        BY <1>3, <2>1
    <2>3. \A a \in T(k) : a.time < c[k + 1].time
        BY <1>3, <2>1
    <2>4. T(k + 1) = T(k) \cup {c[k + 1]}
        <3>1. \A j \in 1..(k + 1) : j \in 1..k \/ j = k + 1
            OBVIOUS
        <3>2. \A j \in 1..k : j \in 1..(k + 1)
            OBVIOUS
        <3>3. k + 1 \in 1..(k + 1)
            OBVIOUS
        <3> QED
            BY <3>1, <3>2, <3>3
    <2> HIDE DEF T
    <2> QED
        BY <1>6, <2>2, <2>3, <2>4, RowStep
<1>7. T(0) = {} /\ T(n) = S
    <2>1. T(0) = {}
        OBVIOUS
    <2>2. T(n) = S
        BY <1>3
    <2> QED
        BY <2>1, <2>2
<1> HIDE DEF T
<1>8. \E g : g = [k \in 0..n |-> IF k = 0 THEN init ELSE AddRow(g[k - 1], c[k])]
    <2> DEFINE step == [p \in Acc \X (1..n) |-> AddRow(p[1], c[p[2]])]
    <2>1. step \in [Acc \X (1..n) -> Acc]
        BY <1>3, AddRowType
    <2> HIDE DEF step
    <2>2. PICK g : /\ g \in [0..n -> Acc]
                   /\ g = [k \in 0..n |-> IF k = 0 THEN init ELSE step[<<g[k - 1], k>>]]
        <3>1. \E g : Loop(g, n, Acc, init, step)
            BY <1>3, <1>5, <2>1, LoopFunction
        <3> QED
            BY <3>1 DEF Loop
    <2>3. \A k \in 1..n : step[<<g[k - 1], k>>] = AddRow(g[k - 1], c[k])
        <3>1. \A k \in 1..n : g[k - 1] \in Acc
            BY <1>3, <2>2
        <3> QED
            BY <3>1 DEF step
    <2>4. \A k \in 0..n : k # 0 => k \in 1..n
        BY <1>3
    <2>5. g = [k \in 0..n |-> IF k = 0 THEN init ELSE AddRow(g[k - 1], c[k])]
        BY <2>2, <2>3, <2>4
    <2> QED
        BY <2>5
<1>9. read = [k \in 0..n |-> IF k = 0 THEN init ELSE AddRow(read[k - 1], c[k])]
    BY <1>8
<1> HIDE DEF read
<1> DEFINE G == {k \in 0..n : ReadInv(read[k], T(k))}
<1>10. 0 \in G
    <2>1. 0 \in 0..n
        BY <1>3
    <2>2. read[0] = init
        BY <1>9, <2>1
    <2> QED
        BY <1>5, <1>7, <2>1, <2>2
<1>11. ASSUME NEW k \in 0..(n - 1), k \in G PROVE k + 1 \in G
    <2>1. k + 1 \in 0..n /\ k + 1 # 0 /\ (k + 1) - 1 = k
        BY <1>3
    <2>2. read[k + 1] = AddRow(read[k], c[k + 1])
        BY <1>9, <2>1
    <2> QED
        BY <1>6, <1>11, <2>1, <2>2
<1>12. ReadInv(read[n], S)
    <2> HIDE DEF G
    <2>1. \A k \in 0..n : k \in G
        BY <1>3, <1>10, <1>11, Rounds
    <2>2. n \in 0..n
        BY <1>3
    <2> QED
        BY <1>7, <2>1, <2>2 DEF G
<1> QED
    BY <1>1, <1>4, <1>12, PushStep DEF S

----------------------------------------------------------------------------
(* The graph of a day. *)

\* Where the points from an hour on begin.
LEMMA IndexFacts ==
    ASSUME NEW points \in Seq(Point), NEW hour \in Int,
           \A p, q \in 1..Len(points) : p < q => points[p].start < points[q].start
    PROVE  /\ IndexFrom(points, hour) \in 1..(Len(points) + 1)
           /\ \A p \in 1..Len(points) :
                 p < IndexFrom(points, hour) <=> points[p].start < hour
<1> DEFINE n == Len(points)
           B == {p \in 1..n : points[p].start >= hour}
           Begins(k) == /\ \A j \in 1..(k - 1) : points[j].start < hour
                        /\ k \in DOMAIN points => points[k].start >= hour
           k == IndexFrom(points, hour)
<1>1. n \in Nat /\ DOMAIN points = 1..n /\ \A p \in 1..n : points[p].start \in Int
    <2>1. n \in Nat /\ DOMAIN points = 1..n /\ \A p \in 1..n : points[p] \in Point
        OBVIOUS
    <2> QED
        BY <2>1 DEF Point
<1>2. \E m \in 1..(n + 1) : Begins(m)
    <2>1. CASE B = {}
        <3>1. n + 1 \in 1..(n + 1) /\ n + 1 \notin 1..n /\ (n + 1) - 1 = n
            BY <1>1
        <3>2. \A j \in 1..n : points[j].start < hour
            BY <1>1, <2>1
        <3>3. Begins(n + 1)
            BY <1>1, <3>1, <3>2
        <3> QED
            BY <3>1, <3>3
    <2>2. CASE B # {}
        <3>1. PICK m \in B : \A j \in B : m <= j
            <4>1. B \in SUBSET Nat
                BY <1>1
            <4> HIDE DEF B
            <4> QED
                BY <2>2, <4>1, Least
        <3>2. m \in 1..n /\ points[m].start >= hour /\ m \in 1..(n + 1)
            BY <1>1
        <3>3. \A j \in 1..(m - 1) : j \in 1..n /\ ~(m <= j)
            BY <1>1, <3>2
        <3>4. \A j \in 1..(m - 1) : points[j].start < hour
            BY <1>1, <3>1, <3>3
        <3>5. Begins(m)
            BY <3>2, <3>4
        <3> QED
            BY <3>2, <3>5
    <2> QED
        BY <2>1, <2>2
<1>3. k \in 1..(n + 1) /\ Begins(k)
    BY <1>2 DEF IndexFrom
<1> HIDE DEF k
<1>4. ASSUME NEW p \in 1..n PROVE p < k <=> points[p].start < hour
    <2>1. CASE p < k
        <3>1. p \in 1..(k - 1)
            BY <1>1, <1>3, <2>1
        <3> QED
            BY <1>3, <2>1, <3>1
    <2>2. CASE ~(p < k)
        <3>1. k \in 1..n /\ k <= p
            BY <1>1, <1>3, <2>2
        <3>2. points[k].start >= hour
            BY <1>1, <1>3, <3>1
        <3>3. points[k].start <= points[p].start
            <4>1. k = p \/ k < p
                BY <1>1, <3>1
            <4> QED
                BY <1>1, <3>1, <4>1
        <3>4. points[k].start \in Int /\ points[p].start \in Int
            BY <1>1, <3>1
        <3> QED
            BY <2>2, <3>2, <3>3, <3>4
    <2> QED
        BY <2>1, <2>2
<1> QED
    BY <1>3, <1>4 DEF k, n

\* The rows of a day, and of the first hour after it.
OfDay(T, date) == {row \in T : Hour(row.time) \in date..(date + HoursPerDay)}

\* The slice has the points of those.
LEMMA FilteredFacts ==
    ASSUME ViewsInv, NEW T \in SUBSET rows, NEW points, PointsOf(points, T), NEW date \in Int
    PROVE  /\ PointsOf(Filtered(points, date), OfDay(T, date))
           /\ \A p \in 1..Len(Filtered(points, date)) : Filtered(points, date)[p].start >= date
<1> DEFINE n == Len(points)
           end == date + HoursPerDay
           a == IndexFrom(points, date)
           b == IndexFrom(points, end + 1) - 1
           f == Filtered(points, date)
           m == Len(f)
<1>1. HoursPerDay \in Nat \ {0} /\ end \in Int /\ end + 1 \in Int
    BY ViewsAssumption
<1>2. /\ points \in Seq(Point) /\ n \in Nat /\ \A p \in 1..n : points[p] \in Point
      /\ \A p, q \in 1..n : p < q => points[p].start < points[q].start
    BY DEF PointsOf
<1>3. \A p \in 1..n : points[p].start \in Int
    BY <1>2 DEF Point
<1>4. a \in 1..(n + 1) /\ \A p \in 1..n : p < a <=> points[p].start < date
    BY <1>2, IndexFacts
<1>5. b \in 0..n /\ \A p \in 1..n : p <= b <=> points[p].start <= end
    <2> DEFINE e == IndexFrom(points, end + 1)
    <2>1. e \in 1..(n + 1) /\ \A p \in 1..n : p < e <=> points[p].start < end + 1
        <3> HIDE DEF end
        <3> QED
            BY <1>1, <1>2, IndexFacts
    <2> HIDE DEF e, end
    <2>2. e - 1 \in 0..n
        BY <1>2, <2>1
    <2>3. ASSUME NEW p \in 1..n PROVE p <= e - 1 <=> points[p].start <= end
        <3>1. p < e <=> points[p].start < end + 1
            BY <2>1
        <3>2. points[p].start \in Int /\ p \in Int /\ e \in Int
            BY <1>3, <2>1
        <3> QED
            BY <1>1, <3>1, <3>2
    <2> QED
        BY <2>2, <2>3 DEF e
<1>6. f = SubSeq(points, a, b)
    BY DEF Filtered
<1> HIDE DEF n, a, b, f, end
<1>7. /\ f \in Seq(Point) /\ m = (IF a <= b THEN b - a + 1 ELSE 0)
      /\ \A p \in 1..(b - a + 1) : f[p] = points[a + p - 1]
    <2>1. a \in Int /\ b \in Int /\ \A p \in a..b : points[p] \in Point
        BY <1>2, <1>4, <1>5
    <2> QED
        BY <1>6, <2>1, SubSeqProperties
<1> HIDE DEF m
<1>8. \A p \in 1..m : /\ a + p - 1 \in 1..n /\ a + p - 1 <= b /\ ~(a + p - 1 < a)
                      /\ f[p] = points[a + p - 1]
    BY <1>2, <1>4, <1>5, <1>7
<1>9. ASSUME NEW p \in 1..m
      PROVE  /\ f[p].start >= date /\ f[p].start <= end /\ f[p].start \in Int
             /\ PointOf(f[p], OfHour(OfDay(T, date), f[p].start))
    <2> DEFINE q == a + p - 1
    <2>1. q \in 1..n /\ q <= b /\ ~(q < a) /\ f[p] = points[q]
        BY <1>8
    <2> HIDE DEF q
    <2>2. f[p].start >= date /\ f[p].start <= end /\ f[p].start \in Int
        BY <1>3, <1>4, <1>5, <2>1
    <2>3. PointOf(f[p], OfHour(T, f[p].start))
        BY <2>1 DEF PointsOf, n
    <2>4. OfHour(OfDay(T, date), f[p].start) = OfHour(T, f[p].start)
        BY <1>1, <2>2 DEF OfHour, OfDay, end
    <2> QED
        BY <2>2, <2>3, <2>4
<1>10. ASSUME NEW p \in 1..m, NEW q \in 1..m, p < q PROVE f[p].start < f[q].start
    <2> DEFINE x == a + p - 1
               y == a + q - 1
    <2>1. x \in 1..n /\ y \in 1..n /\ f[p] = points[x] /\ f[q] = points[y]
        BY <1>8
    <2>2. x < y
        BY <1>4, <1>10, <1>7
    <2> HIDE DEF x, y
    <2> QED
        BY <1>2, <2>1, <2>2
<1>11. ASSUME NEW row \in OfDay(T, date) PROVE \E p \in 1..m : f[p].start = Hour(row.time)
    <2>1. row \in T /\ Hour(row.time) \in date..end
        BY DEF OfDay, end
    <2>2. PICK q \in 1..n : points[q].start = Hour(row.time)
        BY <2>1 DEF PointsOf, n
    <2>3. ~(q < a) /\ q <= b
        BY <1>1, <1>3, <1>4, <1>5, <2>1, <2>2
    <2> DEFINE p == q - a + 1
    <2>4. p \in 1..m /\ p \in 1..(b - a + 1) /\ a + p - 1 = q
        BY <1>2, <1>4, <1>5, <1>7, <2>3
    <2>5. f[p] = points[q]
        <3> HIDE DEF p
        <3> QED
            BY <1>7, <2>4
    <2> QED
        BY <2>2, <2>4, <2>5
<1>12. PointsOf(f, OfDay(T, date))
    BY <1>7, <1>9, <1>10, <1>11 DEF PointsOf, m
<1> QED
    BY <1>9, <1>12 DEF f, m

(* The walk over the hours of the day. *)

\* The entry of an hour shows the point of the hour, or that there is none.
Entry == [start : Int, data : Seq(Data), timestamps : Seq(Time)]
Walked == [index : Nat \ {0}, response : Seq(Entry)]

Shown(entry, hour, points) ==
    /\ entry.start = hour
    /\ \/ \E p \in 1..Len(points) : /\ points[p].start = hour
                                    /\ entry.data = <<points[p].data>>
                                    /\ entry.timestamps = points[p].timestamps
       \/ /\ \A p \in 1..Len(points) : points[p].start # hour
          /\ entry.data = <<>> /\ entry.timestamps = <<>>

\* The loop, when it has k entries.
WalkInv(acc, points, date, k) ==
    /\ acc \in Walked /\ acc.index \in 1..(Len(points) + 1)
    /\ \A p \in 1..Len(points) : p < acc.index <=> points[p].start < date + k
    /\ Len(acc.response) = k
    /\ \A m \in 1..k : Shown(acc.response[m], date + m - 1, points)

LEMMA AddHourType ==
    ASSUME NEW acc \in Walked, NEW points \in Seq(Point), NEW hour \in Int
    PROVE  AddHour(acc, hour, points) \in Walked
<1>1. /\ acc.index \in Nat \ {0} /\ acc.response \in Seq(Entry) /\ Len(points) \in Nat
      /\ acc = [index |-> acc.index, response |-> acc.response]
    BY DEF Walked
<1>2. CASE acc.index <= Len(points) /\ points[acc.index].start = hour
    <2> DEFINE entry == [start |-> hour, data |-> <<points[acc.index].data>>,
                         timestamps |-> points[acc.index].timestamps]
    <2>1. points[acc.index] \in Point
        BY <1>1, <1>2
    <2>2. entry \in Entry
        BY <2>1 DEF Point, Entry
    <2>3. AddHour(acc, hour, points) =
             [index |-> acc.index + 1, response |-> Append(acc.response, entry)]
        BY <1>2 DEF AddHour
    <2> HIDE DEF entry
    <2>4. Append(acc.response, entry) \in Seq(Entry) /\ acc.index + 1 \in Nat \ {0}
        BY <1>1, <2>2
    <2> QED
        BY <2>3, <2>4 DEF Walked
<1>3. CASE ~(acc.index <= Len(points) /\ points[acc.index].start = hour)
    <2> DEFINE entry == [start |-> hour, data |-> <<>>, timestamps |-> <<>>]
    <2>1. entry \in Entry
        BY DEF Entry
    <2>2. AddHour(acc, hour, points) =
             [index |-> acc.index, response |-> Append(acc.response, entry)]
        BY <1>1, <1>3 DEF AddHour
    <2> HIDE DEF entry
    <2>3. Append(acc.response, entry) \in Seq(Entry)
        BY <1>1, <2>1
    <2> QED
        BY <1>1, <2>2, <2>3 DEF Walked
<1> QED
    BY <1>2, <1>3

\* One more hour.
LEMMA AddHourStep ==
    ASSUME NEW points \in Seq(Point),
           \A p, q \in 1..Len(points) : p < q => points[p].start < points[q].start,
           NEW date \in Int, NEW k \in Nat, NEW acc, WalkInv(acc, points, date, k)
    PROVE  WalkInv(AddHour(acc, date + k, points), points, date, k + 1)
<1> DEFINE n == Len(points)
           i == acc.index
           next == AddHour(acc, date + k, points)
<1>1. /\ acc \in Walked /\ i \in 1..(n + 1) /\ acc.response \in Seq(Entry)
      /\ \A p \in 1..n : p < i <=> points[p].start < date + k
      /\ Len(acc.response) = k
      /\ \A m \in 1..k : Shown(acc.response[m], date + m - 1, points)
      /\ acc = [index |-> i, response |-> acc.response]
    BY DEF WalkInv, Walked
<1>2. n \in Nat /\ \A p \in 1..n : points[p].start \in Int
    <2>1. n \in Nat /\ \A p \in 1..n : points[p] \in Point
        OBVIOUS
    <2> QED
        BY <2>1 DEF Point
<1>3. next \in Walked
    BY <1>1, AddHourType
<1>4. ASSUME NEW entry \in Entry, next.response = Append(acc.response, entry),
             Shown(entry, date + k, points)
      PROVE  /\ Len(next.response) = k + 1
             /\ \A m \in 1..(k + 1) : Shown(next.response[m], date + m - 1, points)
    <2> HIDE DEF next
    <2>1. /\ Len(next.response) = k + 1 /\ next.response[k + 1] = entry
          /\ \A m \in 1..k : next.response[m] = acc.response[m]
        BY <1>1, <1>4, AppendProperties
    <2>2. ASSUME NEW m \in 1..(k + 1) PROVE Shown(next.response[m], date + m - 1, points)
        <3>1. CASE m = k + 1
            <4>1. date + m - 1 = date + k
                BY <3>1
            <4> QED
                BY <1>4, <2>1, <3>1, <4>1
        <3>2. CASE m # k + 1
            <4>1. m \in 1..k
                BY <3>2
            <4> QED
                BY <1>1, <2>1, <4>1
        <3> QED
            BY <3>1, <3>2
    <2> QED
        BY <2>1, <2>2
<1>5. CASE i <= n /\ points[i].start = date + k
    <2> DEFINE entry == [start |-> date + k, data |-> <<points[i].data>>,
                         timestamps |-> points[i].timestamps]
    <2>1. i \in 1..n /\ points[i] \in Point
        BY <1>1, <1>2, <1>5
    <2>2. entry \in Entry /\ Shown(entry, date + k, points)
        <3>1. entry \in Entry
            BY <2>1 DEF Point, Entry
        <3>2. entry.start = date + k /\ entry.data = <<points[i].data>>
              /\ entry.timestamps = points[i].timestamps
            OBVIOUS
        <3> HIDE DEF entry, i, n
        <3> QED
            BY <1>5, <2>1, <3>1, <3>2 DEF Shown, n
    <2>3. next = [index |-> i + 1, response |-> Append(acc.response, entry)]
        BY <1>5 DEF AddHour
    <2> HIDE DEF entry, next
    <2>4. next.index = i + 1 /\ next.response = Append(acc.response, entry)
        BY <2>3
    <2>5. ASSUME NEW p \in 1..n PROVE p < i + 1 <=> points[p].start < date + (k + 1)
        <3>1. p < i => points[p].start < date + k
            BY <1>1
        <3>2. i < p => date + k < points[p].start
            BY <1>5, <2>1
        <3>3. p \in Int /\ i \in Int /\ points[p].start \in Int /\ date + k \in Int
              /\ date + (k + 1) = (date + k) + 1
            BY <1>1, <1>2
        <3>4. p < i \/ p = i \/ i < p
            BY <3>3
        <3>5. p = i => points[p].start = date + k
            BY <1>5
        <3> QED
            BY <3>1, <3>2, <3>3, <3>4, <3>5
    <2>6. i + 1 \in 1..(n + 1)
        BY <1>2, <2>1
    <2>7. /\ Len(next.response) = k + 1
          /\ \A m \in 1..(k + 1) : Shown(next.response[m], date + m - 1, points)
        BY <1>4, <2>2, <2>4
    <2>8. WalkInv(next, points, date, k + 1)
        BY <1>3, <2>4, <2>5, <2>6, <2>7 DEF WalkInv
    <2> QED
        BY <2>8 DEF next
<1>6. CASE ~(i <= n /\ points[i].start = date + k)
    <2> DEFINE entry == [start |-> date + k, data |-> <<>>, timestamps |-> <<>>]
    <2>1. ASSUME NEW p \in 1..n
          PROVE  points[p].start # date + k /\ (p < i <=> points[p].start < date + (k + 1))
        <3>1. p < i <=> points[p].start < date + k
            BY <1>1
        <3>2. p = i => points[p].start # date + k
            BY <1>2, <1>6
        <3>3. p \in Int /\ i \in Int /\ points[p].start \in Int /\ date + k \in Int
              /\ date + (k + 1) = (date + k) + 1
            BY <1>1, <1>2
        <3>4. i < p => date + k < points[p].start
            <4> SUFFICES ASSUME i < p PROVE date + k < points[p].start
                OBVIOUS
            <4>1. i \in 1..n
                BY <1>1, <1>2
            <4>2. ~(points[i].start < date + k) /\ points[i].start \in Int
                BY <1>1, <1>2, <4>1
            <4>3. points[i].start < points[p].start
                BY <4>1
            <4> QED
                BY <3>3, <4>2, <4>3
        <3> QED
            BY <3>1, <3>2, <3>3, <3>4
    <2>2. entry \in Entry /\ Shown(entry, date + k, points)
        <3>1. entry \in Entry
            BY DEF Entry
        <3> QED
            BY <2>1, <3>1 DEF Shown
    <2>3. next = [index |-> i, response |-> Append(acc.response, entry)]
        BY <1>1, <1>6 DEF AddHour
    <2> HIDE DEF entry, next
    <2>4. next.index = i /\ next.response = Append(acc.response, entry)
        BY <2>3
    <2>5. /\ Len(next.response) = k + 1
          /\ \A m \in 1..(k + 1) : Shown(next.response[m], date + m - 1, points)
        BY <1>4, <2>2, <2>4
    <2>6. WalkInv(next, points, date, k + 1)
        BY <1>1, <1>3, <2>1, <2>4, <2>5 DEF WalkInv
    <2> QED
        BY <2>6 DEF next
<1> QED
    BY <1>5, <1>6

\* An hour of the graph of an isu has the rows of that hour.
HourShows(entry, hour, T) ==
    /\ entry.start = hour
    /\ \/ T = {} /\ entry.data = <<>> /\ entry.timestamps = <<>>
       \/ /\ T # {}
          /\ \E c : /\ Lists(c, T)
                    /\ entry.data = <<CalculateGraphDataPoint(c)>>
                    /\ entry.timestamps = [k \in DOMAIN c |-> c[k].time]

LEMMA GraphFacts ==
    ASSUME ViewsInv, NEW i, NEW date \in Int
    PROVE  /\ Len(IsuGraph(i, date)) = HoursPerDay
           /\ DOMAIN IsuGraph(i, date) = 1..HoursPerDay
           /\ \A k \in 1..HoursPerDay :
                 HourShows(IsuGraph(i, date)[k], date + k - 1, OfHour(RowsOf(i), date + k - 1))
<1> DEFINE T == RowsOf(i)
           n == HoursPerDay
           points == Filtered(DataPoints(i), date)
           init == [index |-> 1, response |-> <<>>]
           walk == CHOOSE g : g = [k \in 0..n |-> IF k = 0 THEN init
                                     ELSE AddHour(g[k - 1], date + k - 1, points)]
<1>1. T \in SUBSET rows /\ n \in Nat \ {0}
    BY ViewsAssumption DEF RowsOf
<1>2. /\ PointsOf(points, OfDay(T, date))
      /\ \A p \in 1..Len(points) : points[p].start >= date
    <2>1. PointsOf(DataPoints(i), T)
        BY DataPointsFacts
    <2> HIDE DEF T
    <2> QED
        BY <1>1, <2>1, FilteredFacts
<1>3. IsuGraph(i, date) = walk[n].response
    BY DEF IsuGraph
<1> HIDE DEF T, points, n
<1>4. /\ points \in Seq(Point)
      /\ \A p, q \in 1..Len(points) : p < q => points[p].start < points[q].start
      /\ \A p \in 1..Len(points) : PointOf(points[p], OfHour(OfDay(T, date), points[p].start))
      /\ \A row \in OfDay(T, date) : \E p \in 1..Len(points) : points[p].start = Hour(row.time)
    BY <1>2 DEF PointsOf
<1>5. Len(points) \in Nat /\ \A p \in 1..Len(points) : points[p].start \in Int
    <2>1. Len(points) \in Nat /\ \A p \in 1..Len(points) : points[p] \in Point
        BY <1>4
    <2> QED
        BY <2>1 DEF Point
<1>6. init \in Walked /\ WalkInv(init, points, date, 0)
    <2>1. init \in Walked /\ init.index = 1 /\ init.response = <<>> /\ Len(init.response) = 0
        BY DEF Walked
    <2>2. 1 \in 1..(Len(points) + 1) /\ 1..0 = {} /\ date + 0 = date
        BY <1>5
    <2>3. \A p \in 1..Len(points) : ~(p < 1) /\ ~(points[p].start < date)
        BY <1>2, <1>5
    <2> HIDE DEF init
    <2> QED
        BY <2>1, <2>2, <2>3 DEF WalkInv
<1> HIDE DEF init
<1>7. \E g : g = [k \in 0..n |-> IF k = 0 THEN init
                    ELSE AddHour(g[k - 1], date + k - 1, points)]
    <2> DEFINE step == [p \in Walked \X (1..n) |-> AddHour(p[1], date + p[2] - 1, points)]
    <2>1. step \in [Walked \X (1..n) -> Walked]
        <3>1. \A p \in Walked \X (1..n) : p[1] \in Walked /\ date + p[2] - 1 \in Int
            BY <1>1
        <3> QED
            BY <1>4, <3>1, AddHourType
    <2> HIDE DEF step
    <2>2. PICK g : /\ g \in [0..n -> Walked]
                   /\ g = [k \in 0..n |-> IF k = 0 THEN init ELSE step[<<g[k - 1], k>>]]
        <3>1. \E g : Loop(g, n, Walked, init, step)
            BY <1>1, <1>6, <2>1, LoopFunction
        <3> QED
            BY <3>1 DEF Loop
    <2>3. \A k \in 1..n : step[<<g[k - 1], k>>] = AddHour(g[k - 1], date + k - 1, points)
        <3>1. \A k \in 1..n : g[k - 1] \in Walked
            BY <1>1, <2>2
        <3> QED
            BY <3>1 DEF step
    <2>4. \A k \in 0..n : k # 0 => k \in 1..n
        BY <1>1
    <2>5. g = [k \in 0..n |-> IF k = 0 THEN init ELSE AddHour(g[k - 1], date + k - 1, points)]
        BY <2>2, <2>3, <2>4
    <2> QED
        BY <2>5
<1>8. walk = [k \in 0..n |-> IF k = 0 THEN init ELSE AddHour(walk[k - 1], date + k - 1, points)]
    BY <1>7
<1> HIDE DEF walk
<1> DEFINE G == {k \in 0..n : WalkInv(walk[k], points, date, k)}
<1>9. 0 \in G
    <2>1. 0 \in 0..n
        BY <1>1
    <2>2. walk[0] = init
        BY <1>8, <2>1
    <2> QED
        BY <1>6, <2>1, <2>2
<1>10. ASSUME NEW k \in 0..(n - 1), k \in G PROVE k + 1 \in G
    <2>1. k + 1 \in 0..n /\ k + 1 # 0 /\ (k + 1) - 1 = k /\ k \in Nat
          /\ date + (k + 1) - 1 = date + k
        BY <1>1
    <2>2. walk[k + 1] = AddHour(walk[k], date + k, points)
        BY <1>8, <2>1
    <2>3. WalkInv(walk[k + 1], points, date, k + 1)
        <3>1. WalkInv(walk[k], points, date, k)
            BY <1>10
        <3> QED
            BY <1>4, <2>1, <2>2, <3>1, AddHourStep
    <2> QED
        BY <2>1, <2>3
<1>11. WalkInv(walk[n], points, date, n)
    <2> HIDE DEF G
    <2>1. \A k \in 0..n : k \in G
        BY <1>1, <1>9, <1>10, Rounds
    <2>2. n \in 0..n
        BY <1>1
    <2> QED
        BY <2>1, <2>2 DEF G
<1> DEFINE graph == walk[n].response
<1>12. /\ Len(graph) = n /\ DOMAIN graph = 1..n
       /\ \A k \in 1..n : Shown(graph[k], date + k - 1, points)
    <2>1. /\ graph \in Seq(Entry) /\ Len(graph) = n
          /\ \A k \in 1..n : Shown(graph[k], date + k - 1, points)
        BY <1>11 DEF WalkInv, Walked
    <2> HIDE DEF graph
    <2>2. DOMAIN graph = 1..Len(graph)
        BY <2>1
    <2> QED
        BY <2>1, <2>2
<1> HIDE DEF graph
<1>13. ASSUME NEW k \in 1..n
       PROVE  HourShows(graph[k], date + k - 1, OfHour(T, date + k - 1))
    <2> DEFINE hour == date + k - 1
               U == OfHour(T, hour)
    <2>1. hour \in Int /\ hour \in date..(date + n)
        BY <1>1
    <2>2. Shown(graph[k], hour, points)
        BY <1>12
    <2> HIDE DEF hour
    <2>3. OfHour(OfDay(T, date), hour) = U
        BY <2>1 DEF OfHour, OfDay, n
    <2>4. \A row \in U : row \in OfDay(T, date) /\ Hour(row.time) = hour
        BY <2>1 DEF OfHour, OfDay, n
    <2> HIDE DEF U
    <2>5. CASE \E p \in 1..Len(points) : /\ points[p].start = hour
                                         /\ graph[k].data = <<points[p].data>>
                                         /\ graph[k].timestamps = points[p].timestamps
        <3>1. PICK p \in 1..Len(points) : /\ points[p].start = hour
                                          /\ graph[k].data = <<points[p].data>>
                                          /\ graph[k].timestamps = points[p].timestamps
            BY <2>5
        <3>2. PointOf(points[p], U)
            BY <1>4, <2>3, <3>1
        <3>3. graph[k].start = hour
            BY <2>2 DEF Shown
        <3> QED
            BY <3>1, <3>2, <3>3 DEF PointOf, HourShows, hour, U
    <2>6. CASE /\ \A p \in 1..Len(points) : points[p].start # hour
               /\ graph[k].data = <<>> /\ graph[k].timestamps = <<>>
        <3>1. U = {}
            BY <1>4, <2>4, <2>6
        <3>2. graph[k].start = hour
            BY <2>2 DEF Shown
        <3> QED
            BY <2>6, <3>1, <3>2 DEF HourShows, hour, U
    <2> QED
        BY <2>2, <2>5, <2>6 DEF Shown
<1> QED
    BY <1>3, <1>12, <1>13 DEF graph, T, n

\* The timestamps of an hour are the times of its rows, in order.
LEMMA HourFacts ==
    ASSUME ViewsInv, NEW T \in SUBSET rows, NEW entry, NEW hour, HourShows(entry, hour, T)
    PROVE  /\ entry.start = hour
           /\ entry.timestamps \in Seq(Time)
           /\ \A j, k \in DOMAIN entry.timestamps :
                 j < k => entry.timestamps[j] < entry.timestamps[k]
           /\ {entry.timestamps[j] : j \in DOMAIN entry.timestamps} = {row.time : row \in T}
           /\ T = {} => entry.data = <<>>
           /\ T # {} => entry.data = <<BenchGraph(T)>> /\ BenchGraph(T).score > 0
<1>1. entry.start = hour
    BY DEF HourShows
<1>2. CASE T = {}
    <2>1. entry.data = <<>> /\ entry.timestamps = <<>>
        BY <1>2 DEF HourShows
    <2> QED
        BY <1>1, <1>2, <2>1
<1>3. CASE T # {}
    <2>1. PICK c : /\ Lists(c, T)
                   /\ entry.data = <<CalculateGraphDataPoint(c)>>
                   /\ entry.timestamps = [k \in DOMAIN c |-> c[k].time]
        BY <1>3 DEF HourShows
    <2>2. CalculateGraphDataPoint(c) = BenchGraph(T) /\ BenchGraph(T).score > 0
        BY <1>3, <2>1, DataPointFacts
    <2>3. /\ DOMAIN c = 1..Len(c) /\ Len(c) \in Nat
          /\ \A k \in 1..Len(c) : c[k] \in T /\ c[k].time \in Time
          /\ \A j, k \in 1..Len(c) : j < k => c[j].time < c[k].time
          /\ \A row \in T : \E k \in 1..Len(c) : c[k] = row
        BY <2>1 DEF Lists, ViewsInv
    <2> DEFINE times == entry.timestamps
    <2>4. times = [k \in 1..Len(c) |-> c[k].time]
        BY <2>1, <2>3
    <2> HIDE DEF times
    <2>5. /\ times \in Seq(Time) /\ DOMAIN times = 1..Len(c)
          /\ \A k \in 1..Len(c) : times[k] = c[k].time
        BY <2>3, <2>4
    <2>6. \A j, k \in DOMAIN times : j < k => times[j] < times[k]
        BY <2>3, <2>5
    <2>7. {times[j] : j \in DOMAIN times} = {row.time : row \in T}
        BY <2>3, <2>5
    <2> QED
        BY <1>1, <1>3, <2>1, <2>2, <2>5, <2>6, <2>7 DEF times
<1> QED
    BY <1>2, <1>3

\* The graph that the backend builds in one pass over the rows of an isu, cuts
\* to the day and walks hour by hour is, for every isu, day, length of a day
\* and order in which the rows came, the one the benchmarker computes from the
\* rows of each hour, and 0 on the page stands for no data only.
THEOREM GraphIsExactHolds == Spec => []GraphIsExact
<1>1. ASSUME ViewsInv PROVE GraphIsExact
    <2>1. ASSUME NEW i \in DOMAIN isu, NEW date \in 0..LastHour
          PROVE  LET graph == IsuGraph(i, date)
                     InHour(k) == {row \in RowsOf(i) : Hour(row.time) = date + k - 1}
                     Shows(timestamps, times) ==
                        /\ timestamps \in Seq(Time)
                        /\ \A j, l \in DOMAIN timestamps : j < l => timestamps[j] < timestamps[l]
                        /\ {timestamps[j] : j \in DOMAIN timestamps} = times
                 IN  /\ Len(graph) = HoursPerDay
                     /\ \A k \in 1..HoursPerDay :
                          /\ graph[k].start = date + k - 1
                          /\ Shows(graph[k].timestamps, {row.time : row \in InHour(k)})
                          /\ graph[k].data = IF InHour(k) = {} THEN <<>>
                                             ELSE <<BenchGraph(InHour(k))>>
                          /\ (TransitionData(graph)[k] = 0) <=> (InHour(k) = {})
        <3> DEFINE graph == IsuGraph(i, date)
                   InHour(k) == {row \in RowsOf(i) : Hour(row.time) = date + k - 1}
        <3>1. /\ Len(graph) = HoursPerDay /\ DOMAIN graph = 1..HoursPerDay
              /\ \A k \in 1..HoursPerDay :
                    HourShows(graph[k], date + k - 1, OfHour(RowsOf(i), date + k - 1))
            BY <1>1, GraphFacts
        <3> HIDE DEF graph
        <3>2. ASSUME NEW k \in 1..HoursPerDay
              PROVE  /\ graph[k].start = date + k - 1
                     /\ graph[k].timestamps \in Seq(Time)
                     /\ \A j, l \in DOMAIN graph[k].timestamps :
                           j < l => graph[k].timestamps[j] < graph[k].timestamps[l]
                     /\ {graph[k].timestamps[j] : j \in DOMAIN graph[k].timestamps}
                           = {row.time : row \in InHour(k)}
                     /\ graph[k].data = IF InHour(k) = {} THEN <<>> ELSE <<BenchGraph(InHour(k))>>
                     /\ (TransitionData(graph)[k] = 0) <=> (InHour(k) = {})
            <4> DEFINE U == InHour(k)
            <4>1. U \in SUBSET rows /\ U = OfHour(RowsOf(i), date + k - 1)
                BY DEF RowsOf, OfHour
            <4> HIDE DEF U
            <4>2. HourShows(graph[k], date + k - 1, U)
                BY <3>1, <4>1
            <4>3. /\ graph[k].start = date + k - 1
                  /\ graph[k].timestamps \in Seq(Time)
                  /\ \A j, l \in DOMAIN graph[k].timestamps :
                           j < l => graph[k].timestamps[j] < graph[k].timestamps[l]
                  /\ {graph[k].timestamps[j] : j \in DOMAIN graph[k].timestamps}
                           = {row.time : row \in U}
                BY <1>1, <4>1, <4>2, HourFacts
            <4>4. /\ U = {} => graph[k].data = <<>>
                  /\ U # {} => graph[k].data = <<BenchGraph(U)>> /\ BenchGraph(U).score > 0
                BY <1>1, <4>1, <4>2, HourFacts
            <4>5. TransitionData(graph)[k]
                     = IF graph[k].data = <<>> THEN 0 ELSE graph[k].data[1].score
                BY <3>1 DEF TransitionData
            <4>6. (TransitionData(graph)[k] = 0) <=> (U = {})
                <5>1. CASE U = {}
                    BY <4>4, <4>5, <5>1
                <5>2. CASE U # {}
                    <6>1. graph[k].data # <<>> /\ graph[k].data[1] = BenchGraph(U)
                        <7>1. graph[k].data = <<BenchGraph(U)>>
                            BY <4>4, <5>2
                        <7>2. \A value : <<value>> # <<>> /\ <<value>>[1] = value
                            OBVIOUS
                        <7> QED
                            BY <7>1, <7>2
                    <6>2. TransitionData(graph)[k] = BenchGraph(U).score
                        BY <4>5, <6>1
                    <6>3. BenchGraph(U).score > 0
                        BY <4>4, <5>2
                    <6> QED
                        BY <5>2, <6>2, <6>3
                <5> QED
                    BY <5>1, <5>2
            <4>7. graph[k].data = IF U = {} THEN <<>> ELSE <<BenchGraph(U)>>
                BY <4>4
            <4> QED
                BY <4>3, <4>6, <4>7 DEF U
        <3> QED
            BY <3>1, <3>2 DEF graph
    <2> QED
        BY <2>1 DEF GraphIsExact
<1> QED
    BY <1>1, ViewsInvHolds, PTL

----------------------------------------------------------------------------
(* Greatest numbers. *)

LEMMA MaxFacts ==
    ASSUME NEW S \in SUBSET Int, NEW m \in S, \A x \in S : x <= m
    PROVE  Max(S) = m
<1>1. Max(S) \in S /\ \A x \in S : Max(S) >= x
    <2>1. \A x \in S : m >= x
        OBVIOUS
    <2> QED
        BY <2>1 DEF Max
<1>2. Max(S) >= m /\ Max(S) <= m /\ Max(S) \in Int /\ m \in Int
    BY <1>1
<1> QED
    BY <1>2

LEMMA HasMax ==
    ASSUME NEW S \in SUBSET Int, IsFiniteSet(S), S # {}
    PROVE  Max(S) \in S /\ \A x \in S : x <= Max(S)
<1> DEFINE key == [x \in S |-> -x]
           n == Cardinality(S)
<1>1. PICK s \in SetToSeqs(S) : \A j, k \in 1..n : j < k => key[s[j]] <= key[s[k]]
    <2>1. key \in [S -> Int]
        OBVIOUS
    <2> HIDE DEF key
    <2> QED
        BY <2>1, Sortable
<1>2. /\ n \in Nat /\ s \in [1..n -> S] /\ \A x \in S : \E k \in 1..n : s[k] = x
    BY EnumerationFacts
<1> HIDE DEF n
<1>3. 1 \in 1..n /\ s[1] \in S /\ \A k \in 1..n : k = 1 \/ 1 < k
    <2>1. PICK x \in S : TRUE
        OBVIOUS
    <2>2. PICK k \in 1..n : s[k] = x
        BY <1>2
    <2>3. 1 \in 1..n /\ \A j \in 1..n : j = 1 \/ 1 < j
        BY <1>2, <2>2
    <2> QED
        BY <1>2, <2>3
<1>4. \A k \in 1..n : s[k] \in S /\ s[k] <= s[1]
    <2> SUFFICES ASSUME NEW k \in 1..n PROVE s[k] \in S /\ s[k] <= s[1]
        OBVIOUS
    <2>1. s[k] \in S /\ s[1] \in S /\ s[1] \in Int /\ s[k] \in Int
        BY <1>2, <1>3
    <2>2. CASE k = 1
        BY <2>1, <2>2
    <2>3. CASE k # 1
        <3>1. key[s[1]] <= key[s[k]]
            <4> HIDE DEF key
            <4> QED
                BY <1>1, <1>3, <2>3
        <3>2. -s[1] <= -s[k]
            BY <2>1, <3>1
        <3> QED
            BY <2>1, <3>2
    <2> QED
        BY <2>2, <2>3
<1>5. \A x \in S : x <= s[1]
    BY <1>2, <1>4
<1>6. Max(S) = s[1]
    BY <1>3, <1>5, MaxFacts
<1> QED
    BY <1>3, <1>5, <1>6

LEMMA TimeMax ==
    /\ 0 \in Time /\ Max(Time) \in Time
    /\ \A time \in Time : 0 <= time /\ time < Max(Time) + 1
<1> DEFINE end == SlotsPerHour * (LastHour + 1)
<1>1. SlotsPerHour \in Nat \ {0} /\ LastHour \in Nat
    BY ViewsAssumption
<1>2. end \in Nat /\ end >= 1
    BY <1>1
<1>3. Time = 0..(end - 1)
    BY DEF Time
<1> HIDE DEF end
<1>4. /\ Time \in SUBSET Int /\ end - 1 \in Time /\ 0 \in Time
      /\ \A time \in Time : time <= end - 1
    BY <1>2, <1>3
<1>5. Max(Time) = end - 1
    BY <1>4, MaxFacts
<1> QED
    BY <1>2, <1>3, <1>4, <1>5

----------------------------------------------------------------------------
(* The list of conditions. *)

\* The rounds of getIsuConditionsFromDB, for sorted conditions.
Answer(conditions, levels) ==
    LET asked[k \in 0..Len(conditions)] ==
            IF k = 0 THEN <<>>
            ELSE IF CalculateConditionLevel(conditions[k].condition) \in levels
                 THEN Append(asked[k - 1], conditions[k]) ELSE asked[k - 1]
        response == asked[Len(conditions)]
    IN  IF Len(response) > ConditionLimit THEN SubSeq(response, 1, ConditionLimit)
        ELSE response

\* The whole list of an isu is empty when the isu has no condition; when the
\* level of the latest one is asked for, that is the first.
LEMMA ConditionsFacts ==
    ASSUME ViewsInv, NEW i, NEW levels
    PROVE  LET all == IsuConditions(i, Max(Time) + 1, levels, 0)
           IN  /\ RowsOf(i) = {} => all = <<>>
               /\ /\ RowsOf(i) # {}
                  /\ CalculateConditionLevel(LastCondition(i).condition) \in levels
                  => all[1] = LastCondition(i)
<1> DEFINE S == RowsOf(i)
           c == Descending(S)
           n == Len(c)
           Add(response, k) ==
              IF CalculateConditionLevel(c[k].condition) \in levels
              THEN Append(response, c[k]) ELSE response
           asked == CHOOSE g : g = [k \in 0..n |-> IF k = 0 THEN <<>> ELSE Add(g[k - 1], k)]
           all == IsuConditions(i, Max(Time) + 1, levels, 0)
<1>1. S \in SUBSET rows /\ IsFiniteSet(S) /\ \A row \in S : row.time \in Time /\ row.time \in Int
    BY SomeRows DEF RowsOf
<1>2. {row \in S : 0 <= row.time /\ row.time < Max(Time) + 1} = S
    BY <1>1, TimeMax
<1>3. all = IF Len(asked[n]) > ConditionLimit THEN SubSeq(asked[n], 1, ConditionLimit)
            ELSE asked[n]
    <2>1. all = Answer(Descending({row \in S : 0 <= row.time /\ row.time < Max(Time) + 1}), levels)
        BY DEF IsuConditions, Answer
    <2>2. all = Answer(c, levels)
        <3> HIDE DEF S, all
        <3> QED
            BY <1>2, <2>1
    <2> QED
        BY <2>2 DEF Answer
<1>4. c = Descending(S) /\ (S # {} => c[1] = LastCondition(i))
    BY DEF LastCondition
<1> HIDE DEF S, all
<1>5. n = Cardinality(S) /\ n \in Nat /\ c \in Seq(S) /\ \A k \in 1..n : c[k] \in S
    BY <1>1, <1>4, DescendingFacts, EnumerationFacts
<1> HIDE DEF c, n
<1>6. \E g : g \in [0..n -> Seq(S)] /\ g = [k \in 0..n |-> IF k = 0 THEN <<>> ELSE Add(g[k - 1], k)]
    <2> DEFINE step == [p \in Seq(S) \X (1..n) |-> Add(p[1], p[2])]
    <2>1. step \in [Seq(S) \X (1..n) -> Seq(S)]
        <3>1. \A s \in Seq(S), k \in 1..n : Add(s, k) \in Seq(S)
            BY <1>5
        <3> HIDE DEF Add
        <3> QED
            BY <3>1
    <2>2. <<>> \in Seq(S)
        OBVIOUS
    <2> HIDE DEF step, Add
    <2>3. PICK g : /\ g \in [0..n -> Seq(S)]
                   /\ g = [k \in 0..n |-> IF k = 0 THEN <<>> ELSE step[<<g[k - 1], k>>]]
        <3>1. \E g : Loop(g, n, Seq(S), <<>>, step)
            BY <1>5, <2>1, <2>2, LoopFunction
        <3> QED
            BY <3>1 DEF Loop
    <2>4. \A k \in 1..n : step[<<g[k - 1], k>>] = Add(g[k - 1], k)
        <3>1. \A k \in 1..n : g[k - 1] \in Seq(S)
            <4>1. \A k \in 1..n : k - 1 \in 0..n
                BY <1>5
            <4> QED
                BY <2>3, <4>1
        <3> QED
            BY <3>1 DEF step
    <2>5. \A k \in 0..n : k # 0 => k \in 1..n
        BY <1>5
    <2>6. g = [k \in 0..n |-> IF k = 0 THEN <<>> ELSE Add(g[k - 1], k)]
        BY <2>3, <2>4, <2>5
    <2> QED
        BY <2>3, <2>6
<1>7. asked = [k \in 0..n |-> IF k = 0 THEN <<>> ELSE Add(asked[k - 1], k)]
    BY <1>6
<1> HIDE DEF asked
<1>8. ASSUME S = {} PROVE all = <<>>
    <2>1. n = 0 /\ 0 \in 0..n
        <3>1. n = 0
            BY <1>5, <1>8, FS_EmptySet
        <3> QED
            BY <3>1
    <2>2. asked[n] = <<>>
        BY <1>7, <2>1
    <2>3. ~(Len(<<>>) > ConditionLimit)
        BY ViewsAssumption
    <2> QED
        BY <1>3, <2>2, <2>3
<1>9. ASSUME S # {}, CalculateConditionLevel(c[1].condition) \in levels PROVE all[1] = c[1]
    <2> DEFINE G == {k \in 0..n : /\ asked[k] \in Seq(S)
                                  /\ k # 0 => asked[k] # <<>> /\ asked[k][1] = c[1]}
    <2>1. n # 0
        BY <1>1, <1>5, <1>9, FS_EmptySet
    <2>2. 0 \in G
        <3>1. 0 \in 0..n
            BY <1>5
        <3>2. asked[0] = <<>>
            BY <1>7, <3>1
        <3>3. asked[0] \in Seq(S)
            BY <3>2
        <3> QED
            BY <3>1, <3>3
    <2>3. ASSUME NEW k \in 0..(n - 1), k \in G PROVE k + 1 \in G
        <3>1. k + 1 \in 0..n /\ k + 1 # 0 /\ (k + 1) - 1 = k /\ k + 1 \in 1..n
            BY <1>5
        <3>2. asked[k + 1] = Add(asked[k], k + 1)
            BY <1>7, <3>1
        <3>3. asked[k] \in Seq(S) /\ c[k + 1] \in S
            BY <1>5, <2>3, <3>1
        <3>4. CASE k = 0
            <4>1. k + 1 = 1 /\ asked[k] = <<>>
                <5>1. 0 \in 0..n
                    BY <1>5
                <5> QED
                    BY <1>7, <3>4, <5>1
            <4>2. asked[k + 1] = Append(<<>>, c[1])
                BY <1>9, <3>2, <4>1
            <4>3. c[1] \in S
                BY <3>3, <4>1
            <4>4. Append(<<>>, c[1]) = <<c[1]>>
                OBVIOUS
            <4>5. asked[k + 1] \in Seq(S) /\ asked[k + 1] # <<>> /\ asked[k + 1][1] = c[1]
                BY <4>2, <4>3, <4>4
            <4> QED
                BY <3>1, <4>5
        <3>5. CASE k # 0
            <4>1. asked[k] # <<>> /\ asked[k][1] = c[1]
                BY <2>3, <3>5
            <4>2. CASE asked[k + 1] = asked[k]
                BY <3>1, <3>3, <4>1, <4>2
            <4>3. CASE asked[k + 1] = Append(asked[k], c[k + 1])
                <5>1. Len(asked[k]) \in Nat \ {0}
                    BY <3>3, <4>1
                <5>2. /\ asked[k + 1] \in Seq(S) /\ Len(asked[k + 1]) = Len(asked[k]) + 1
                      /\ \A j \in 1..Len(asked[k]) : asked[k + 1][j] = asked[k][j]
                    BY <3>3, <4>3, AppendProperties
                <5>3. 1 \in 1..Len(asked[k]) /\ Len(asked[k + 1]) # 0
                    BY <5>1, <5>2
                <5>4. asked[k + 1] # <<>> /\ asked[k + 1][1] = c[1]
                    BY <4>1, <5>2, <5>3
                <5> QED
                    BY <3>1, <5>2, <5>4
            <4> QED
                BY <3>2, <4>2, <4>3
        <3> QED
            BY <3>4, <3>5
    <2>4. asked[n] \in Seq(S) /\ asked[n] # <<>> /\ asked[n][1] = c[1]
        <3> HIDE DEF G
        <3>1. \A k \in 0..n : k \in G
            BY <1>5, <2>2, <2>3, Rounds
        <3>2. n \in 0..n
            BY <1>5
        <3> QED
            BY <2>1, <3>1, <3>2 DEF G
    <2>5. CASE Len(asked[n]) > ConditionLimit
        <3>1. ConditionLimit \in Nat \ {0} /\ all = SubSeq(asked[n], 1, ConditionLimit)
            BY <1>3, <2>5, ViewsAssumption
        <3>2. Len(asked[n]) \in Nat
            BY <2>4
        <3>3. all[1] = asked[n][1]
            <4> DEFINE response == asked[n]
            <4>1. response \in Seq(S) /\ 1 \in 1..ConditionLimit /\ ConditionLimit \in 1..Len(response)
                BY <2>4, <2>5, <3>1, <3>2
            <4> HIDE DEF response
            <4>2. SubSeq(response, 1, ConditionLimit)[1] = response[1]
                BY <3>1, <4>1
            <4> QED
                BY <3>1, <4>2 DEF response
        <3> QED
            BY <2>4, <3>3
    <2> QED
        BY <1>3, <2>4, <2>5
<1> QED
    BY <1>4, <1>8, <1>9 DEF S, all

----------------------------------------------------------------------------
(* The trend. *)

TrendIsu(character) == {i \in DOMAIN isu : isu[i] = character /\ RowsOf(i) # {}}
LevelOf(i) == CalculateConditionLevel(LastCondition(i).condition)
Latest(i) == [isu_id |-> i, time |-> LastCondition(i).time]
EntriesOf(character, level) ==
    {Latest(i) : i \in {j \in TrendIsu(character) : LevelOf(j) = level}}

\* The latest condition of an isu that has any.
LEMMA LastFacts ==
    ASSUME ViewsInv, NEW i, RowsOf(i) # {}
    PROVE  /\ LastCondition(i) \in RowsOf(i) /\ LastCondition(i) \in rows
           /\ LastCondition(i).time \in Time /\ LastCondition(i).time \in Int
           /\ \A row \in RowsOf(i) : row.time <= LastCondition(i).time
           /\ LevelOf(i) \in Levels
<1>1. RowsOf(i) \in SUBSET rows
    BY DEF RowsOf
<1>2. /\ LastCondition(i) \in RowsOf(i)
      /\ \A row \in RowsOf(i) : row.time <= LastCondition(i).time
    BY <1>1, LatestFacts DEF LastCondition
<1>3. LastCondition(i) \in rows
    BY <1>1, <1>2
<1>4. LastCondition(i).time \in Time /\ LastCondition(i).time \in Int
    BY <1>3, SomeRows
<1>5. LevelOf(i) \in Levels
    <2> DEFINE c == LastCondition(i).condition
    <2>1. c \in Seq(STRING) /\ IsValidConditionFormat(c)
        BY <1>3 DEF ViewsInv
    <2> HIDE DEF c
    <2>2. CalculateConditionLevel(c) =
             CASE ScoreConditionLevel(c) = 3 -> "info"
               [] ScoreConditionLevel(c) = 2 -> "warning"
               [] ScoreConditionLevel(c) = 1 -> "critical"
        BY <2>1, ValidIsReadable
    <2>3. ScoreConditionLevel(c) \in {1, 2, 3}
        BY DEF ScoreConditionLevel
    <2>4. CalculateConditionLevel(c) \in Levels
        BY <2>2, <2>3 DEF Levels
    <2> QED
        BY <2>4 DEF LevelOf, c
<1> QED
    BY <1>2, <1>3, <1>4, <1>5

\* The entries of a level are those of the isu whose latest condition has it.
LEMMA TrendFacts ==
    ASSUME ViewsInv, NEW character, NEW level \in Levels
    PROVE  LET E == EntriesOf(character, level)
               s == Trend(character)[level]
           IN  /\ Len(s) \in Nat /\ DOMAIN s = 1..Len(s) /\ s \in Seq(E)
               /\ \A k \in 1..Len(s) : s[k] \in E
               /\ \A entry \in E : \E k \in 1..Len(s) : s[k] = entry
<1> DEFINE E == EntriesOf(character, level)
           s == Trend(character)[level]
           I == {j \in TrendIsu(character) : LevelOf(j) = level}
           f == [i \in I |-> Latest(i)]
<1>1. s = Descending(E)
    BY DEF Trend, EntriesOf, TrendIsu, LevelOf, Latest
<1>2. IsFiniteSet(E)
    <2>1. Len(isu) \in Nat /\ DOMAIN isu = 1..Len(isu)
        BY DEF ViewsInv
    <2>2. I \in SUBSET DOMAIN isu
        BY DEF TrendIsu
    <2> HIDE DEF I
    <2>3. IsFiniteSet(I)
        <3>1. IsFiniteSet(1..Len(isu))
            BY <2>1, FS_Interval
        <3>2. IsFiniteSet(DOMAIN isu)
            BY <2>1, <3>1
        <3> QED
            BY <2>2, <3>2, FS_Subset
    <2>4. f \in Surjection(I, E)
        BY DEF Surjection, EntriesOf, I
    <2> HIDE DEF f, E
    <2> QED
        BY <2>3, <2>4, FS_Surjection
<1>3. ASSUME NEW entry \in E PROVE entry.time \in Int
    <2>1. PICK i \in TrendIsu(character) : entry = Latest(i)
        BY DEF EntriesOf
    <2>2. RowsOf(i) # {}
        BY DEF TrendIsu
    <2>3. entry.time = LastCondition(i).time
        BY <2>1 DEF Latest
    <2> QED
        BY <2>2, <2>3, LastFacts
<1> HIDE DEF E, s
<1>4. s \in SetToSeqs(E)
    BY <1>1, <1>2, <1>3, DescendingFacts
<1>5. /\ Cardinality(E) \in Nat /\ s \in [1..Cardinality(E) -> E] /\ s \in Seq(E)
      /\ Len(s) = Cardinality(E) /\ DOMAIN s = 1..Cardinality(E)
      /\ \A a \in E : \E k \in 1..Cardinality(E) : s[k] = a
    BY <1>2, <1>4, EnumerationFacts
<1>6. \A k \in 1..Len(s) : s[k] \in E
    BY <1>5
<1> QED
    BY <1>5, <1>6 DEF E, s

\* getLatestStringTime of a list of entries.
NewestIn(all) ==
    LET latest[k \in 0..Len(all)] ==
            IF k = 0 THEN NoData
            ELSE IF latest[k - 1] < all[k].time THEN all[k].time ELSE latest[k - 1]
    IN  latest[Len(all)]

LEMMA NewestFacts ==
    ASSUME NEW E, NEW all \in Seq(E), \A entry \in E : entry.time \in Time
    PROVE  /\ NewestIn(all) \in Int /\ NoData <= NewestIn(all)
           /\ NewestIn(all) = NoData \/ \E k \in 1..Len(all) : all[k].time = NewestIn(all)
           /\ \A k \in 1..Len(all) : all[k].time <= NewestIn(all)
<1> DEFINE n == Len(all)
           Newer(time, k) == IF time < all[k].time THEN all[k].time ELSE time
           latest == CHOOSE g : g = [k \in 0..n |-> IF k = 0 THEN NoData ELSE Newer(g[k - 1], k)]
<1>1. n \in Nat /\ \A k \in 1..n : all[k].time \in Int
    <2>1. n \in Nat /\ \A k \in 1..n : all[k] \in E
        OBVIOUS
    <2> QED
        BY <2>1, TimeFacts
<1>2. NoData \in Int
    BY DEF NoData
<1>3. NewestIn(all) = latest[n]
    BY DEF NewestIn
<1> HIDE DEF n
<1>4. \A time \in Int, k \in 1..n : /\ Newer(time, k) \in Int /\ Newer(time, k) >= time
                                    /\ Newer(time, k) >= all[k].time
                                    /\ Newer(time, k) \in {time, all[k].time}
    BY <1>1
<1> HIDE DEF Newer
<1>5. \E g : g \in [0..n -> Int] /\ g = [k \in 0..n |-> IF k = 0 THEN NoData ELSE Newer(g[k - 1], k)]
    <2> DEFINE step == [p \in Int \X (1..n) |-> Newer(p[1], p[2])]
    <2>1. step \in [Int \X (1..n) -> Int]
        BY <1>4
    <2> HIDE DEF step
    <2>2. PICK g : /\ g \in [0..n -> Int]
                   /\ g = [k \in 0..n |-> IF k = 0 THEN NoData ELSE step[<<g[k - 1], k>>]]
        <3>1. \E g : Loop(g, n, Int, NoData, step)
            BY <1>1, <1>2, <2>1, LoopFunction
        <3> QED
            BY <3>1 DEF Loop
    <2>3. \A k \in 1..n : step[<<g[k - 1], k>>] = Newer(g[k - 1], k)
        <3>1. \A k \in 1..n : g[k - 1] \in Int
            <4>1. \A k \in 1..n : k - 1 \in 0..n
                BY <1>1
            <4> QED
                BY <2>2, <4>1
        <3> QED
            BY <3>1 DEF step
    <2>4. \A k \in 0..n : k # 0 => k \in 1..n
        BY <1>1
    <2>5. g = [k \in 0..n |-> IF k = 0 THEN NoData ELSE Newer(g[k - 1], k)]
        BY <2>2, <2>3, <2>4
    <2> QED
        BY <2>2, <2>5
<1>6. latest = [k \in 0..n |-> IF k = 0 THEN NoData ELSE Newer(latest[k - 1], k)]
    BY <1>5
<1> HIDE DEF latest
<1> DEFINE Newest(m, k) == /\ m \in Int /\ NoData <= m
                           /\ m = NoData \/ \E j \in 1..k : all[j].time = m
                           /\ \A j \in 1..k : all[j].time <= m
           G == {k \in 0..n : Newest(latest[k], k)}
<1>7. 0 \in G
    <2>1. 0 \in 0..n /\ 1..0 = {}
        BY <1>1
    <2>2. latest[0] = NoData
        BY <1>6, <2>1
    <2> QED
        BY <1>2, <2>1, <2>2
<1>8. ASSUME NEW k \in 0..(n - 1), k \in G PROVE k + 1 \in G
    <2>1. /\ k + 1 \in 0..n /\ k + 1 # 0 /\ (k + 1) - 1 = k /\ k + 1 \in 1..n
          /\ \A j \in 1..(k + 1) : j \in 1..k \/ j = k + 1
          /\ \A j \in 1..k : j \in 1..(k + 1) /\ j \in 1..n
          /\ k + 1 \in 1..(k + 1)
        BY <1>1
    <2> DEFINE old == latest[k]
               new == latest[k + 1]
    <2>2. new = Newer(old, k + 1)
        BY <1>6, <2>1
    <2>3. Newest(old, k)
        BY <1>8
    <2> HIDE DEF old, new
    <2>4. new \in Int /\ new >= old /\ new >= all[k + 1].time /\ new \in {old, all[k + 1].time}
        BY <1>4, <2>1, <2>2, <2>3
    <2>5. NoData <= new
        BY <1>2, <2>3, <2>4
    <2>6. \A j \in 1..(k + 1) : all[j].time <= new
        BY <1>1, <2>1, <2>3, <2>4
    <2>7. new = NoData \/ \E j \in 1..(k + 1) : all[j].time = new
        BY <2>1, <2>3, <2>4
    <2>8. Newest(new, k + 1)
        BY <2>4, <2>5, <2>6, <2>7
    <2> QED
        BY <2>1, <2>8 DEF new
<1>9. Newest(latest[n], n)
    <2> HIDE DEF G
    <2>1. \A k \in 0..n : k \in G
        BY <1>1, <1>7, <1>8, Rounds
    <2>2. n \in 0..n
        BY <1>1
    <2> QED
        BY <2>1, <2>2 DEF G
<1> QED
    BY <1>3, <1>9 DEF n

\* Sequence all has the members of s and of t, at places of their own.
Covers(all, s, t) ==
    /\ \A k \in 1..Len(s) : k \in 1..Len(all) /\ all[k] = s[k]
    /\ \A k \in 1..Len(t) : Len(s) + k \in 1..Len(all) /\ all[Len(s) + k] = t[k]

LEMMA ConcatCovers ==
    ASSUME NEW A, NEW s \in Seq(A), NEW t \in Seq(A)
    PROVE  s \o t \in Seq(A) /\ Covers(s \o t, s, t)
<1>1. Len(s) \in Nat /\ Len(t) \in Nat
    OBVIOUS
<1> DEFINE all == s \o t
<1>2. /\ all \in Seq(A) /\ Len(all) = Len(s) + Len(t)
      /\ \A k \in 1..(Len(s) + Len(t)) : all[k] = IF k <= Len(s) THEN s[k] ELSE t[k - Len(s)]
    BY ConcatProperties
<1> HIDE DEF all
<1>3. \A k \in 1..Len(s) : k \in 1..Len(all) /\ all[k] = s[k]
    BY <1>1, <1>2
<1>4. ASSUME NEW k \in 1..Len(t) PROVE Len(s) + k \in 1..Len(all) /\ all[Len(s) + k] = t[k]
    <2>1. /\ Len(s) + k \in 1..(Len(s) + Len(t)) /\ ~(Len(s) + k <= Len(s))
          /\ (Len(s) + k) - Len(s) = k
        BY <1>1
    <2> QED
        BY <1>2, <2>1
<1> QED
    BY <1>2, <1>3, <1>4 DEF all, Covers

\* "Last Updated" of a character is the time of the newest row of its isu.
LEMMA UpdatedFacts ==
    ASSUME ViewsInv, NEW character
    PROVE  GetLatestTime(Trend(character))
              = Max({NoData} \cup {row.time : row \in {r \in rows : isu[r.isu] = character}})
<1> DEFINE A == {Latest(i) : i \in TrendIsu(character)}
           times == {row.time : row \in {r \in rows : isu[r.isu] = character}}
           a == Trend(character)["info"]
           b == Trend(character)["warning"]
           c == Trend(character)["critical"]
           all == (a \o b) \o c
           M == NewestIn(all)
<1>1. ASSUME NEW level \in Levels
      PROVE  /\ Trend(character)[level] \in Seq(A)
             /\ \A i \in TrendIsu(character) : LevelOf(i) = level =>
                   \E k \in 1..Len(Trend(character)[level]) :
                      Trend(character)[level][k] = Latest(i)
    <2> DEFINE E == EntriesOf(character, level)
               s == Trend(character)[level]
    <2>1. /\ s \in Seq(E)
          /\ \A entry \in E : \E k \in 1..Len(s) : s[k] = entry
        BY TrendFacts
    <2>2. E \in SUBSET A /\ \A i \in TrendIsu(character) : LevelOf(i) = level => Latest(i) \in E
        BY DEF EntriesOf
    <2> HIDE DEF E, s, A
    <2>3. s \in Seq(A)
        BY <2>1, <2>2
    <2> QED
        BY <2>1, <2>2, <2>3 DEF s
<1>2. ASSUME NEW i \in TrendIsu(character)
      PROVE  /\ Latest(i) \in A /\ Latest(i).time = LastCondition(i).time
             /\ Latest(i).time \in Time /\ Latest(i).time \in times
             /\ LevelOf(i) \in Levels
    <2>1. RowsOf(i) # {} /\ isu[i] = character
        BY DEF TrendIsu
    <2>2. /\ LastCondition(i) \in RowsOf(i) /\ LastCondition(i) \in rows
          /\ LastCondition(i).time \in Time /\ LevelOf(i) \in Levels
        BY <2>1, LastFacts
    <2>3. Latest(i).time = LastCondition(i).time
        BY DEF Latest
    <2>4. LastCondition(i).isu = i
        BY <2>2 DEF RowsOf
    <2> QED
        BY <2>1, <2>2, <2>3, <2>4
<1>3. \A entry \in A : entry.time \in Time /\ entry.time \in times
    BY <1>2
<1>4. \A row \in rows : isu[row.isu] = character =>
         \E i \in TrendIsu(character) : row.time <= Latest(i).time
    <2> SUFFICES ASSUME NEW row \in rows, isu[row.isu] = character
                 PROVE  \E i \in TrendIsu(character) : row.time <= Latest(i).time
        OBVIOUS
    <2>1. row \in RowsOf(row.isu) /\ row.isu \in DOMAIN isu
        BY DEF RowsOf, ViewsInv
    <2>2. row.isu \in TrendIsu(character)
        BY <2>1 DEF TrendIsu
    <2>3. row.time <= LastCondition(row.isu).time
        BY <2>1, LastFacts
    <2> QED
        BY <1>2, <2>2, <2>3
<1>5. "info" \in Levels /\ "warning" \in Levels /\ "critical" \in Levels
      /\ Levels = {"info", "warning", "critical"}
    BY DEF Levels
<1>6. GetLatestTime(Trend(character)) = M
    BY DEF GetLatestTime, NewestIn
<1>7. \A i \in TrendIsu(character) : /\ Latest(i) \in A /\ Latest(i).time \in times
                                     /\ LevelOf(i) \in Levels
    BY <1>2
<1> HIDE DEF A
<1>8. a \in Seq(A) /\ b \in Seq(A) /\ c \in Seq(A)
    BY <1>1, <1>5
<1>9. ASSUME NEW i \in TrendIsu(character)
      PROVE  \/ \E k \in 1..Len(a) : a[k] = Latest(i)
             \/ \E k \in 1..Len(b) : b[k] = Latest(i)
             \/ \E k \in 1..Len(c) : c[k] = Latest(i)
    BY <1>1, <1>5, <1>7
<1> HIDE DEF a, b, c
<1>10. all \in Seq(A) /\ \A i \in TrendIsu(character) : \E k \in 1..Len(all) : all[k] = Latest(i)
    <2> DEFINE ab == a \o b
    <2>1. ab \in Seq(A) /\ Covers(ab, a, b)
        BY <1>8, ConcatCovers
    <2> HIDE DEF ab
    <2>2. ab \o c \in Seq(A) /\ Covers(ab \o c, ab, c)
        BY <1>8, <2>1, ConcatCovers
    <2>3. all \in Seq(A) /\ Covers(all, ab, c)
        BY <2>2 DEF ab
    <2> HIDE DEF all
    <2>4. ASSUME NEW i \in TrendIsu(character) PROVE \E k \in 1..Len(all) : all[k] = Latest(i)
        <3>1. CASE \E k \in 1..Len(a) : a[k] = Latest(i)
            BY <2>1, <2>3, <3>1 DEF Covers
        <3>2. CASE \E k \in 1..Len(b) : b[k] = Latest(i)
            BY <2>1, <2>3, <3>2 DEF Covers
        <3>3. CASE \E k \in 1..Len(c) : c[k] = Latest(i)
            BY <2>3, <3>3 DEF Covers
        <3> QED
            BY <1>9, <3>1, <3>2, <3>3
    <2> QED
        BY <2>3, <2>4
<1> HIDE DEF all
<1>11. /\ M \in Int /\ NoData <= M
       /\ M = NoData \/ \E k \in 1..Len(all) : all[k].time = M
       /\ \A k \in 1..Len(all) : all[k].time <= M
    BY <1>3, <1>10, NewestFacts
<1> HIDE DEF M
<1>12. M \in {NoData} \cup times
    <2>1. \A k \in 1..Len(all) : all[k] \in A
        BY <1>10
    <2> QED
        BY <1>3, <1>11, <2>1
<1>13. ASSUME NEW x \in {NoData} \cup times PROVE x \in Int /\ x <= M
    <2>1. CASE x = NoData
        BY <1>11, <2>1 DEF NoData
    <2>2. CASE x \in times
        <3>1. PICK row \in rows : isu[row.isu] = character /\ x = row.time
            BY <2>2
        <3>2. PICK i \in TrendIsu(character) : row.time <= Latest(i).time
            BY <1>4, <3>1
        <3>3. PICK k \in 1..Len(all) : all[k] = Latest(i)
            BY <1>10
        <3>4. Latest(i).time <= M /\ Latest(i).time \in Int /\ row.time \in Int
            BY <1>2, <1>11, <3>3, SomeRows, TimeFacts
        <3> QED
            BY <1>11, <3>1, <3>2, <3>4
    <2> QED
        BY <2>1, <2>2
<1> HIDE DEF times
<1>14. Max({NoData} \cup times) = M
    BY <1>12, <1>13, MaxFacts
<1> QED
    BY <1>6, <1>14 DEF times

\* No character has more entries than the browser takes for the most.
LEMMA CountFacts ==
    ASSUME ViewsInv, NEW i \in DOMAIN isu
    PROVE  CalcAllConditionLength(Trend(isu[i])) <= MaxConditionCount
<1> DEFINE f == [j \in DOMAIN isu |-> CalcAllConditionLength(Trend(isu[j]))]
           T == {CalcAllConditionLength(Trend(isu[j])) : j \in DOMAIN isu}
           S == {0} \cup T
<1>1. MaxConditionCount = Max(S)
    BY DEF MaxConditionCount
<1>2. ASSUME NEW j \in DOMAIN isu PROVE CalcAllConditionLength(Trend(isu[j])) \in Int
    <2>1. "info" \in Levels /\ "warning" \in Levels /\ "critical" \in Levels
        BY DEF Levels
    <2>2. /\ Len(Trend(isu[j])["info"]) \in Nat /\ Len(Trend(isu[j])["warning"]) \in Nat
          /\ Len(Trend(isu[j])["critical"]) \in Nat
        BY <2>1, TrendFacts
    <2> QED
        BY <2>2 DEF CalcAllConditionLength
<1>3. T \in SUBSET Int /\ CalcAllConditionLength(Trend(isu[i])) \in T
    BY <1>2
<1>4. IsFiniteSet(T)
    <2>1. Len(isu) \in Nat /\ DOMAIN isu = 1..Len(isu)
        BY DEF ViewsInv
    <2>2. IsFiniteSet(1..Len(isu))
        BY <2>1, FS_Interval
    <2>3. IsFiniteSet(DOMAIN isu)
        BY <2>1, <2>2
    <2>4. f \in Surjection(DOMAIN isu, T)
        BY DEF Surjection
    <2> HIDE DEF f, T
    <2> QED
        BY <2>3, <2>4, FS_Surjection
<1> HIDE DEF T
<1>5. S \in SUBSET Int /\ IsFiniteSet(S) /\ S # {}
    <2>1. IsFiniteSet(T \cup {0}) /\ S = T \cup {0}
        BY <1>4, FS_AddElement
    <2> QED
        BY <1>3, <2>1
<1>6. CalcAllConditionLength(Trend(isu[i])) \in S
    BY <1>3
<1> HIDE DEF S
<1> QED
    BY <1>1, <1>5, <1>6, HasMax

----------------------------------------------------------------------------
(* One story. *)

\* The trend has an isu under the level of its latest condition, and there only.
LEMMA InTrendFacts ==
    ASSUME ViewsInv, NEW i \in DOMAIN isu
    PROVE  {level \in Levels : \E n \in DOMAIN Trend(isu[i])[level] :
                                  Trend(isu[i])[level][n].isu_id = i}
              = IF RowsOf(i) = {} THEN {} ELSE {LevelOf(i)}
<1>1. ASSUME NEW level \in Levels
      PROVE  (\E n \in DOMAIN Trend(isu[i])[level] : Trend(isu[i])[level][n].isu_id = i)
                <=> RowsOf(i) # {} /\ LevelOf(i) = level
    <2> DEFINE E == EntriesOf(isu[i], level)
               s == Trend(isu[i])[level]
    <2>1. /\ DOMAIN s = 1..Len(s) /\ \A k \in 1..Len(s) : s[k] \in E
          /\ \A entry \in E : \E k \in 1..Len(s) : s[k] = entry
        BY TrendFacts
    <2>2. (\E entry \in E : entry.isu_id = i) <=> RowsOf(i) # {} /\ LevelOf(i) = level
        <3>1. \A j : Latest(j).isu_id = j
            BY DEF Latest
        <3>2. ASSUME NEW entry \in E, entry.isu_id = i PROVE RowsOf(i) # {} /\ LevelOf(i) = level
            <4>1. PICK j \in TrendIsu(isu[i]) : LevelOf(j) = level /\ entry = Latest(j)
                BY DEF EntriesOf
            <4>2. j = i
                BY <3>1, <3>2, <4>1
            <4> QED
                BY <4>1, <4>2 DEF TrendIsu
        <3>3. ASSUME RowsOf(i) # {}, LevelOf(i) = level PROVE Latest(i) \in E
            BY <3>3 DEF EntriesOf, TrendIsu
        <3> QED
            BY <3>1, <3>2, <3>3
    <2> HIDE DEF E, s
    <2> QED
        BY <2>1, <2>2 DEF s
<1>2. CASE RowsOf(i) = {}
    BY <1>1, <1>2
<1>3. CASE RowsOf(i) # {}
    <2>1. LevelOf(i) \in Levels
        BY <1>3, LastFacts
    <2> QED
        BY <1>1, <1>3, <2>1
<1> QED
    BY <1>2, <1>3

\* The time of the latest condition is the greatest, and the last of its hour
\* in the graph.
LEMMA EndFacts ==
    ASSUME ViewsInv, NEW i, RowsOf(i) # {}
    PROVE  LET newest == LastCondition(i).time
           IN  /\ Max({row.time : row \in RowsOf(i)}) = newest
               /\ Last(IsuGraph(i, Hour(newest))[1].timestamps) = newest
<1> DEFINE newest == LastCondition(i).time
           times == {row.time : row \in RowsOf(i)}
           date == Hour(newest)
           graph == IsuGraph(i, date)
           shown == graph[1].timestamps
           U == OfHour(RowsOf(i), date)
<1>1. /\ LastCondition(i) \in RowsOf(i) /\ newest \in Time /\ newest \in Int
      /\ \A row \in RowsOf(i) : row.time <= newest
    BY LastFacts
<1>2. RowsOf(i) \in SUBSET rows /\ \A row \in RowsOf(i) : row.time \in Int
    BY SomeRows DEF RowsOf
<1>3. LastCondition(i) \in U /\ U \in SUBSET rows
    BY <1>1, <1>2 DEF OfHour
<1>4. date \in Int /\ date + 1 - 1 = date /\ 1 \in 1..HoursPerDay
    BY <1>1, TimeFacts, ViewsAssumption
<1> HIDE DEF date
<1>5. HourShows(graph[1], date, U)
    <2>1. HourShows(graph[1], date + 1 - 1, OfHour(RowsOf(i), date + 1 - 1))
        BY <1>4, GraphFacts
    <2> QED
        BY <1>4, <2>1
<1> HIDE DEF graph
<1>6. /\ shown \in Seq(Time)
      /\ \A j, k \in DOMAIN shown : j < k => shown[j] < shown[k]
      /\ {shown[j] : j \in DOMAIN shown} = {row.time : row \in U}
    BY <1>3, <1>5, HourFacts
<1> HIDE DEF shown
<1>7. Max(times) = newest
    <2>1. newest \in times /\ times \in SUBSET Int /\ \A x \in times : x <= newest
        BY <1>1, <1>2
    <2> HIDE DEF newest, times
    <2> QED
        BY <2>1, MaxFacts
<1>8. Last(shown) = newest
    <2>1. Len(shown) \in Nat /\ DOMAIN shown = 1..Len(shown)
        BY <1>6
    <2>2. newest \in {row.time : row \in U}
        BY <1>3
    <2>3. \A x \in {row.time : row \in U} : x <= newest /\ x \in Int
        BY <1>1, <1>2 DEF OfHour
    <2> HIDE DEF newest, U
    <2>4. PICK j \in 1..Len(shown) : shown[j] = newest
        BY <1>6, <2>1, <2>2
    <2>5. Len(shown) \in 1..Len(shown)
        BY <2>1, <2>4
    <2>6. shown[Len(shown)] <= newest /\ shown[Len(shown)] \in Int
        BY <1>6, <2>1, <2>3, <2>5
    <2>7. CASE j = Len(shown)
        BY <2>4, <2>7 DEF Last
    <2>8. CASE j # Len(shown)
        <3>1. j < Len(shown)
            <4>1. Len(shown) \in Nat
                BY <2>1
            <4>2. \A n \in Nat : \A m \in 1..n : m # n => m < n
                OBVIOUS
            <4> QED
                BY <2>8, <4>1, <4>2
        <3>2. newest < shown[Len(shown)]
            BY <1>6, <2>1, <2>4, <2>5, <3>1
        <3>3. newest \in Int
            BY <2>2, <2>3
        <3> QED
            BY <2>6, <3>2, <3>3
    <2> QED
        BY <2>7, <2>8
<1> QED
    BY <1>7, <1>8 DEF shown, graph, date

\* The list of isu, the list of conditions, the graph and the trend tell one
\* story of an isu, each from a query and a loop of its own, and the browser's
\* "Last Updated" is the time of the newest row of a character: for any number
\* of isu, of characters and of conditions, in any order of their times.
THEOREM ViewsAgreeHolds == Spec => []ViewsAgree
<1>1. ASSUME ViewsInv PROVE ViewsAgree
    <2>1. Len(isu) \in Nat /\ DOMAIN isu = 1..Len(isu)
        BY <1>1 DEF ViewsInv
    <2>2. ASSUME NEW k \in DOMAIN IsuList
          PROVE  LET entry == IsuList[k]
                     i == entry.id
                     times == {row.time : row \in RowsOf(i)}
                     all == IsuConditions(i, Max(Time) + 1, Levels, 0)
                     trend == Trend(isu[i])
                     InTrend == {level \in Levels :
                                   \E n \in DOMAIN trend[level] : trend[level][n].isu_id = i}
                 IN  IF times = {} THEN entry.latest = <<>> /\ all = <<>> /\ InTrend = {}
                     ELSE /\ entry.latest[1] = Max(times)
                          /\ all[1].time = Max(times)
                          /\ Last(IsuGraph(i, Hour(Max(times)))[1].timestamps) = Max(times)
                          /\ InTrend = {entry.latest[2]}
                          /\ IsuConditions(i, Max(Time) + 1, InTrend, 0)[1] = all[1]
        <3> DEFINE i == Len(isu) + 1 - k
                   entry == IsuList[k]
                   times == {row.time : row \in RowsOf(i)}
                   all == IsuConditions(i, Max(Time) + 1, Levels, 0)
                   InTrend == {level \in Levels :
                                 \E n \in DOMAIN Trend(isu[i])[level] :
                                    Trend(isu[i])[level][n].isu_id = i}
        <3>1. k \in 1..Len(isu)
            BY <2>1 DEF IsuList
        <3>2. i \in DOMAIN isu
            BY <2>1, <3>1
        <3>3. entry = [id |-> i, character |-> isu[i],
                       latest |-> IF RowsOf(i) = {} THEN <<>>
                                  ELSE <<LastCondition(i).time, LevelOf(i)>>]
            BY <2>1, <3>1 DEF IsuList, LevelOf
        <3>4. /\ entry.id = i
              /\ entry.latest = IF RowsOf(i) = {} THEN <<>>
                                ELSE <<LastCondition(i).time, LevelOf(i)>>
            BY <3>3
        <3> HIDE DEF i, entry
        <3>5. InTrend = IF RowsOf(i) = {} THEN {} ELSE {LevelOf(i)}
            BY <1>1, <3>2, InTrendFacts
        <3> HIDE DEF InTrend
        <3>6. times = {} <=> RowsOf(i) = {}
            OBVIOUS
        <3>7. CASE RowsOf(i) = {}
            <4>1. all = <<>>
                BY <1>1, <3>7, ConditionsFacts
            <4> QED
                BY <3>4, <3>5, <3>6, <3>7, <4>1 DEF entry, InTrend
        <3>8. CASE RowsOf(i) # {}
            <4> DEFINE newest == LastCondition(i).time
            <4>1. entry.latest[1] = newest /\ entry.latest[2] = LevelOf(i)
                BY <3>4, <3>8
            <4>2. Max(times) = newest /\ Last(IsuGraph(i, Hour(newest))[1].timestamps) = newest
                BY <1>1, <3>8, EndFacts
            <4>3. LevelOf(i) \in Levels
                BY <1>1, <3>8, LastFacts
            <4>4. all[1] = LastCondition(i)
                BY <1>1, <3>8, <4>3, ConditionsFacts DEF LevelOf
            <4>5. InTrend = {LevelOf(i)}
                BY <3>5, <3>8
            <4>6. IsuConditions(i, Max(Time) + 1, InTrend, 0)[1] = LastCondition(i)
                <5>1. LevelOf(i) \in InTrend
                    BY <4>5
                <5> QED
                    BY <1>1, <3>8, <5>1, ConditionsFacts DEF LevelOf
            <4>7. all[1].time = newest
                BY <4>4
            <4>8. /\ entry.latest[1] = Max(times)
                  /\ all[1].time = Max(times)
                  /\ Last(IsuGraph(i, Hour(Max(times)))[1].timestamps) = Max(times)
                  /\ InTrend = {entry.latest[2]}
                  /\ IsuConditions(i, Max(Time) + 1, InTrend, 0)[1] = all[1]
                <5> HIDE DEF times, all, newest
                <5> QED
                    BY <4>1, <4>2, <4>4, <4>5, <4>6, <4>7
            <4> QED
                BY <3>4, <3>6, <3>8, <4>8 DEF entry, InTrend
        <3> QED
            BY <3>7, <3>8
    <2>3. ASSUME NEW character \in {isu[i] : i \in DOMAIN isu}
          PROVE  LET times == {row.time : row \in {r \in rows : isu[r.isu] = character}}
                 IN  /\ GetLatestTime(Trend(character)) = Max({NoData} \cup times)
                     /\ CalcAllConditionLength(Trend(character)) <= MaxConditionCount
        <3>1. PICK i \in DOMAIN isu : isu[i] = character
            OBVIOUS
        <3>2. CalcAllConditionLength(Trend(isu[i])) <= MaxConditionCount
            BY <1>1, CountFacts
        <3> QED
            BY <1>1, <3>1, <3>2, UpdatedFacts
    <2> QED
        BY <2>2, <2>3 DEF ViewsAgree
<1> QED
    BY <1>1, ViewsInvHolds, PTL

============================================================================
