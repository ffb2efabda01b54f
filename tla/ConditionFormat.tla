-------------------------- MODULE ConditionFormat --------------------------
(***************************************************************************)
(* The condition string of an isu and the three parsers of                 *)
(* webapp/nodejs/src/app.ts that read it, each in its own way: the         *)
(* validator a POST goes through, the level the lists and the trend show,  *)
(* and the data point of a graph.                                          *)
(*                                                                         *)
(* A string is a sequence of tokens: a name with its "=", a value, a       *)
(* comma, or anything else.  No token is the beginning of another, so      *)
(* startsWith on characters is equality of tokens.                         *)
(***************************************************************************)
EXTENDS Integers, Sequences, FiniteSets

\* The keys, in the order the validator wants them.
Key == <<"is_dirty=", "is_overweight=", "is_broken=">>
\* Tokens that end in "=", a name nobody knows among them.
NameToken == {Key[k] : k \in DOMAIN Key} \cup {"other="}

----------------------------------------------------------------------------
At(c, idx) == IF idx \in DOMAIN c THEN c[idx] ELSE "end"
Bad == 0

\* One round of the loop: the index behind key k, its value and its comma.
AfterKey(c, idx, k) ==
    IF /\ idx # Bad
       /\ At(c, idx) = Key[k]
       /\ At(c, idx + 1) \in {"true", "false"}
       /\ k < Len(Key) => At(c, idx + 2) = ","
    THEN idx + (IF k < Len(Key) THEN 3 ELSE 2)
    ELSE Bad

\* The three rounds.
AfterKeys(c) == AfterKey(c, AfterKey(c, AfterKey(c, 1, 1), 2), 3)

\* Mutant: whatever follows the third value is not looked at.
IsValidPrefix(c) == AfterKeys(c) # Bad

IsValidConditionFormat(c) == AfterKeys(c) = Len(c) + 1

----------------------------------------------------------------------------
\* The occurrences of "=true".
WarnCount(c) ==
    Cardinality({i \in DOMAIN c : c[i] = "true" /\ At(c, i - 1) \in NameToken})

CalculateConditionLevel(c) ==
    CASE WarnCount(c) = 0 -> "info"
      [] WarnCount(c) \in {1, 2} -> "warning"
      [] WarnCount(c) = 3 -> "critical"
      [] OTHER -> "error"

----------------------------------------------------------------------------
\* split(",") and split("="): the names whose value is true.  The places of the
\* commas are not looked at and a name counts once, which is right only for a
\* string the validator has let through; it is asked for no other.
BadConditions(c) ==
    {c[i] : i \in {j \in DOMAIN c : c[j] \in NameToken /\ At(c, j + 1) = "true"}}

ScoreConditionLevel(c) ==
    LET badConditionsCount == Cardinality(BadConditions(c))
    IN  IF badConditionsCount >= 3 THEN 1 ELSE IF badConditionsCount >= 1 THEN 2 ELSE 3

\* The data point of an hour's conditions.  A string in the wrong format does
\* not make it fail, the return inside forEach leaves one round only: it
\* counts among the conditions and adds nothing.
CalculateGraphDataPoint(conditions) ==
    LET valid == {k \in DOMAIN conditions : IsValidConditionFormat(conditions[k].condition)}
        Percentage(rounds) == (Cardinality(rounds) * 100) \div Len(conditions)
        rawScore[k \in 0..Len(conditions)] ==
            IF k = 0 THEN 0
            ELSE rawScore[k - 1]
                   + IF k \in valid THEN ScoreConditionLevel(conditions[k].condition) ELSE 0
    IN  [score |-> (rawScore[Len(conditions)] * 100) \div (3 * Len(conditions)),
         sitting |-> Percentage({k \in DOMAIN conditions : conditions[k].sitting}),
         bad |-> [name \in {Key[k] : k \in DOMAIN Key} |->
                    Percentage({k \in valid : name \in BadConditions(conditions[k].condition)})]]

============================================================================
