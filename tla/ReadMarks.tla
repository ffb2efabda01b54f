----------------------------- MODULE ReadMarks -----------------------------
(***************************************************************************)
(* The arrays of bench/scenario/load.go and verify.go behind the sets of   *)
(* module ConditionPaging: LastReadConditionTimestamps, an array of        *)
(* ConditionLimit timestamps, newest first and padded with zeros; the two  *)
(* loops that merge a page into such an array; the loop that checks a page *)
(* against it.  They are checked for the marks that any pass leaves        *)
(* behind and every page a server, right or wrong, may answer.             *)
(***************************************************************************)
EXTENDS ConditionPaging, Sequences, FiniteSetsExt

\* A set of timestamps as the server answers it: newest first.
Sorted(S) ==
    CHOOSE s \in [1..Cardinality(S) -> S] :
        \A j, k \in 1..Cardinality(S) : j < k => s[j] > s[k]

Padded(page) ==
    [k \in 1..ConditionLimit |-> IF k <= Len(page) THEN page[k] ELSE 0]

----------------------------------------------------------------------------
\* Mutant: equal timestamps are taken from both arrays.
MergeTwice(old, new) ==
    LET index[i \in 0..ConditionLimit] ==
          IF i = 0 THEN [isu |-> 1, new |-> 1]
          ELSE LET at == index[i - 1]
               IN  IF old[at.isu] < new[at.new]
                   THEN [at EXCEPT !.new = @ + 1]
                   ELSE [at EXCEPT !.isu = @ + 1]
    IN  [i \in 1..ConditionLimit |->
          LET at == index[i - 1]
          IN  IF old[at.isu] < new[at.new] THEN new[at.new] ELSE old[at.isu]]

\* requestNewConditionScenario: indexIsu and indexNew after i rounds, and the
\* element that each round writes.
Merge(old, new) ==
    LET index[i \in 0..ConditionLimit] ==
          IF i = 0 THEN [isu |-> 1, new |-> 1]
          ELSE LET at == index[i - 1]
               IN  IF old[at.isu] = new[at.new]
                   THEN [isu |-> at.isu + 1, new |-> at.new + 1]
                   ELSE IF old[at.isu] < new[at.new]
                   THEN [at EXCEPT !.new = @ + 1]
                   ELSE [at EXCEPT !.isu = @ + 1]
    IN  [i \in 1..ConditionLimit |->
          LET at == index[i - 1]
          IN  IF old[at.isu] < new[at.new] THEN new[at.new] ELSE old[at.isu]]

\* requestLastBadConditionScenario: the page may be shorter.
MergeBad(old, page) ==
    LET index[i \in 0..ConditionLimit] ==
          IF i = 0 THEN [isu |-> 1, new |-> 1]
          ELSE LET at == index[i - 1]
               IN  IF at.new <= Len(page) /\ old[at.isu] = page[at.new]
                   THEN [isu |-> at.isu + 1, new |-> at.new + 1]
                   ELSE IF at.new <= Len(page) /\ old[at.isu] < page[at.new]
                   THEN [at EXCEPT !.new = @ + 1]
                   ELSE [at EXCEPT !.isu = @ + 1]
    IN  [i \in 1..ConditionLimit |->
          LET at == index[i - 1]
          IN  IF at.new <= Len(page) /\ old[at.isu] < page[at.new]
              THEN page[at.new]
              ELSE old[at.isu]]

\* verifyIsuConditions: the first mark the request covers, if any.
FirstCovered(marks, end) ==
    Min({m \in 1..ConditionLimit : marks[m] < end} \cup {ConditionLimit + 1})

\* ... the walk over the page: the mark still to be met, or ConditionLimit + 2
\* when a mark is missing between two conditions,
Walk(marks, page, first) ==
    LET next[k \in 0..Len(page)] ==
          IF k = 0 THEN first
          ELSE LET m == next[k - 1]
               IN  IF m > ConditionLimit \/ marks[m] < page[k] THEN m
                   ELSE IF marks[m] = page[k] THEN m + 1
                   ELSE ConditionLimit + 2
    IN  next[Len(page)]

\* Mutant: a page that is not full need not reach the oldest mark.
VerifyPageLax(marks, page, end) ==
    Walk(marks, page, FirstCovered(marks, end)) <= ConditionLimit + 1

\* ... and the verdict: a page that is not full has met every mark.
VerifyPage(marks, page, end) ==
    LET m == Walk(marks, page, FirstCovered(marks, end))
    IN  /\ m <= ConditionLimit + 1
        /\ Len(page) < ConditionLimit /\ m <= ConditionLimit => marks[m] = 0

----------------------------------------------------------------------------
Pages == {S \in SUBSET Timestamp : Cardinality(S) <= ConditionLimit}

\* Either loop, on whatever page comes, makes of the marks the newest
\* ConditionLimit timestamps of both, in order and each once: what EndPass of
\* ConditionPaging takes for granted (load.go:455, :539, whose indexes run
\* into the padding and past the end of a short page).
MarksAreNewest ==
    pass.state = "idle" => \A S \in Pages :
        LET marks == Padded(Sorted(mark))
            newest == Padded(Sorted(Newest(mark \cup S, ConditionLimit)))
        IN  /\ Merge(marks, Padded(Sorted(S))) = newest
            /\ MergeBad(marks, Sorted(S)) = newest

\* The loops of the check accept exactly the pages on which every mark the
\* request covers is present or beyond the end of a full page (verify.go:347):
\* what Verify of ConditionPaging says of the sets.
VerifyIsExact ==
    pass.state = "idle" => \A S \in Pages, end \in 1..(MaxTimestamp + 1) :
        (\A t \in S : t < end) =>
            (VerifyPage(Padded(Sorted(mark)), Sorted(S), end) <=> Verify(S, end))

============================================================================
