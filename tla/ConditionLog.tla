---------------------------- MODULE ConditionLog ----------------------------
(***************************************************************************)
(* What POST /api/condition and the endpoints that read conditions promise *)
(* together: for each isu a log that only grows, by whole batches the isu  *)
(* has sent.  It says nothing of order or completeness: the handler drops  *)
(* most batches and may commit those it takes in any order.                *)
(***************************************************************************)
EXTENDS Integers

CONSTANTS Isu, BatchSize, MaxBatch

VARIABLES
    posted,  \* number of batches each isu has sent
    stored   \* <<isu, timestamp>> of the rows anyone can read

Batch(i, b) == {i} \X ({b} \X (1..BatchSize))

Init ==
    /\ posted = [i \in Isu |-> 0]
    /\ stored = {}

\* The isu sends its next batch.
Post(i) ==
    /\ posted[i] < MaxBatch
    /\ posted' = [posted EXCEPT ![i] = posted[i] + 1]
    /\ UNCHANGED stored

\* A batch that was sent appears, all of it at once.
Append(i, b) ==
    /\ b \in 1..posted[i]
    /\ stored \cap Batch(i, b) = {}
    /\ stored' = stored \cup Batch(i, b)
    /\ UNCHANGED posted

Next == \E i \in Isu : Post(i) \/ \E b \in 1..MaxBatch : Append(i, b)

Spec == Init /\ [][Next]_<<posted, stored>>

============================================================================
