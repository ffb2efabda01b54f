------------------------ MODULE ConditionIngestProofs ------------------------
(***************************************************************************)
(* Theorems about module ConditionIngest, for any isu, readers, viewers,   *)
(* slots, size and number of batches, limit of the pool and number of      *)
(* faults: what the checks of the benchmarker complain about never         *)
(* happens, and the stored conditions are a log of whole batches.          *)
(*                                                                         *)
(* None of it is inductive.  IngestInv adds what an open transaction has   *)
(* written (SlotInv), that no two requests carry one batch (ApartInv) and  *)
(* that a batch under way is not stored (LogInv); on top of it, what the   *)
(* answers on their way to readers and viewers hold (ReaderInv,            *)
(* ViewerInv).                                                             *)
(***************************************************************************)
EXTENDS ConditionIngest, FiniteSetTheorems, TLAPS

\* The first k rows of a batch.
Prefix(i, b, k) == {i} \X ({b} \X (1..k))

\* Rows of the batch a slot carries.
RowsIn(r) == BatchRows(arg[r].isu, arg[r].batch)

TypeInv ==
    /\ isu \subseteq Isu
    /\ posted \in [Isu -> 0..MaxBatch]
    /\ tx \in [Req -> SUBSET (Isu \X ((0..MaxBatch) \X (1..BatchSize)))]
    /\ pc \in [Req -> PC]
    /\ arg \in [Req -> Batch \cup {NoArg}]

\* The isu of a slot has a row once it was looked up; a transaction holds the
\* first conditions of its batch, all of them when COMMIT is sent, which is
\* only sent for a batch that is in the benchmarker's model.
SlotInv(r) ==
    /\ pc[r] # "free" =>
          /\ arg[r] \in Batch
          /\ arg[r].batch # 0 => arg[r].batch <= posted[arg[r].isu] /\ arg[r].bad = 0
          /\ arg[r].batch = 0 => arg[r].bad # 0
    /\ tx[r] \subseteq RowsIn(r)
    /\ tx[r] # {} => arg[r].isu \in isu
    /\ pc[r] \in {"free", "accepted", "begin", "count", "committed"} => tx[r] = {}
    /\ pc[r] \in {"begin", "count", "insert"} => arg[r].bad # NoList
    /\ pc[r] = "insert" =>
          /\ arg[r].isu \in isu
          /\ \E k \in 0..BatchSize :
                /\ tx[r] = Prefix(arg[r].isu, arg[r].batch, k)
                /\ arg[r].bad > 0 => k < arg[r].bad
    /\ pc[r] \in {"commit", "orphanCommit"} =>
          /\ arg[r].isu \in isu /\ arg[r].batch # 0
          /\ tx[r] = RowsIn(r)

\* No two requests carry one batch.
Apart(r, q) ==
    pc[r] # "free" /\ pc[q] # "free" /\ arg[r].batch # 0 =>
        arg[r].isu # arg[q].isu \/ arg[r].batch # arg[q].batch

ApartInv == \A r, q \in Req : r # q => Apart(r, q)

\* A batch under way is not stored.
Unstored(r) ==
    pc[r] \notin {"free", "committed"} /\ arg[r].batch # 0 => stored \cap RowsIn(r) = {}

\* What is stored was sent, by an isu that is registered.
LogInv ==
    /\ \A row \in stored : \E i \in isu : row \in Known(i)
    /\ \A r \in Req : Unstored(r)

ServerInv == TypeInv /\ (\A r \in Req : SlotInv(r)) /\ ApartInv /\ LogInv

\* An answer has what the benchmarker knew of when it asked.
ReaderInv ==
    /\ reader \in [Reader -> [state : {"idle", "sent", "reading"}, isu : Isu \cup {NoIsu},
                              must : SUBSET stored, page : SUBSET stored]]
    /\ seen \subseteq stored
    /\ \A u \in Reader :
          /\ reader[u].state # "idle" => reader[u].must \subseteq RowsOf(reader[u].isu, stored)
          /\ reader[u].state = "reading" =>
                /\ reader[u].must \subseteq reader[u].page
                /\ reader[u].page \subseteq RowsOf(reader[u].isu, stored)

Latest == [Isu -> Timestamp \cup {Never}]

ViewerRecord == [state : {"idle", "reading"}, characters : SUBSET Character,
                 todo : SUBSET Isu, trend : Latest]

\* The isu a viewer knows of were looked at and have no older condition than it
\* knows, or are in the list at hand, or their character is still to come.
ViewerInv ==
    /\ viewer \in [Viewer -> ViewerRecord]
    /\ verified \in [Viewer -> Latest]
    /\ \A v \in Viewer, i \in Isu :
          /\ verified[v][i] # Never => <<i, verified[v][i]>> \in stored
          /\ viewer[v].trend[i] # Never => <<i, viewer[v].trend[i]>> \in stored
          /\ viewer[v].state = "reading" /\ verified[v][i] # Never =>
                \/ CharacterOf[i] \in viewer[v].characters
                \/ i \in viewer[v].todo
                \/ /\ viewer[v].trend[i] # Never
                   /\ ~Earlier(viewer[v].trend[i], verified[v][i])

IngestInv == ServerInv /\ ReaderInv /\ ViewerInv /\ alarms = {}

----------------------------------------------------------------------------
(* Sizes and maxima. *)

\* A set of natural numbers with a bound has a greatest member.
LEMMA Greatest ==
    ASSUME NEW n \in Nat, NEW S \in SUBSET (1..n), S # {}
    PROVE  \E m \in S : \A x \in S : x <= m
<1> DEFINE T == {n - x : x \in S}
           R == OpToRel(<, Nat)
<1>1. \A x \in S : n - x \in Nat
    OBVIOUS
<1>2. T \in SUBSET Nat /\ T # {}
    BY <1>1
<1>3. PICK d \in T : \A y \in T : ~(<<y, d>> \in R)
    <2> HIDE DEF T
    <2> QED
        BY <1>2, NatLessThanWellFounded, WFMin
<1>4. PICK m \in S : d = n - m
    OBVIOUS
<1>5. ASSUME NEW x \in S PROVE x <= m
    <2>1. n - x \in T /\ n - x \in Nat /\ d \in Nat
        BY <1>1, <1>2
    <2>2. ~(<<n - x, d>> \in R)
        BY <1>3, <2>1
    <2>3. ~(n - x < d)
        BY <2>1, <2>2 DEF OpToRel
    <2> HIDE DEF T
    <2>4. n \in Int /\ m \in Int /\ x \in Int
        OBVIOUS
    <2> QED
        BY <1>4, <2>3, <2>4
<1> QED
    BY <1>5

\* The latest condition of an isu that has any is one of its rows, and none of
\* its rows is later.
LEMMA LatestIsLatest ==
    ASSUME NEW i \in Isu, NEW rows \in SUBSET Row, RowsOf(i, rows) # {}
    PROVE  /\ LatestOf(i, rows) \in Timestamp
           /\ <<i, LatestOf(i, rows)>> \in rows
           /\ \A s \in Timestamp : <<i, s>> \in rows => ~Earlier(LatestOf(i, rows), s)
<1> DEFINE B == {b \in 1..MaxBatch : \E k \in 1..BatchSize : <<i, <<b, k>>>> \in rows}
<1>1. \A s \in Timestamp : s = <<s[1], s[2]>> /\ s[1] \in 1..MaxBatch /\ s[2] \in 1..BatchSize
    BY DEF Timestamp
<1>2. B # {}
    BY DEF RowsOf, Row, Timestamp
<1>3. PICK b \in B : \A x \in B : x <= b
    <2> B \in SUBSET (1..MaxBatch)
        OBVIOUS
    <2> HIDE DEF B
    <2> QED
        BY <1>2, Greatest, IngestAssumption
<1> DEFINE K == {k \in 1..BatchSize : <<i, <<b, k>>>> \in rows}
<1>4. PICK k \in K : \A x \in K : x <= k
    <2> K \in SUBSET (1..BatchSize) /\ K # {}
        OBVIOUS
    <2> HIDE DEF K
    <2> QED
        BY Greatest, IngestAssumption
<1>5. <<b, k>> \in Timestamp /\ <<i, <<b, k>>>> \in rows
    BY DEF Timestamp
<1>6. \A s \in Timestamp : <<i, s>> \in rows => ~Earlier(<<b, k>>, s)
    <2> SUFFICES ASSUME NEW x \in 1..MaxBatch, NEW y \in 1..BatchSize,
                        <<i, <<x, y>>>> \in rows
                 PROVE  ~Earlier(<<b, k>>, <<x, y>>)
        BY <1>1
    <2>1. x \in B /\ x <= b
        BY <1>3
    <2>2. x = b => y <= k
        BY <1>4
    <2> QED
        BY <2>1, <2>2, IngestAssumption DEF Earlier
<1> QED
    BY <1>5, <1>6 DEF LatestOf

\* Pairs with one first component are as many as their second ones.
LEMMA TimesOne ==
    ASSUME NEW i, NEW S, IsFiniteSet(S)
    PROVE  IsFiniteSet({i} \X S) /\ Cardinality({i} \X S) = Cardinality(S)
<1>1. IsFiniteSet({i}) /\ Cardinality({i}) = 1
    BY FS_Singleton
<1>2. IsFiniteSet({i} \X S) /\ Cardinality({i} \X S) = 1 * Cardinality(S)
    BY <1>1, FS_Product
<1>3. Cardinality(S) \in Nat
    BY FS_CardinalityType
<1> QED
    BY <1>2, <1>3

\* The number of conditions a transaction has inserted.
LEMMA PrefixSize ==
    ASSUME NEW i, NEW b, NEW k \in Nat
    PROVE  Cardinality(Prefix(i, b, k)) = k
<1>1. IsFiniteSet(1..k) /\ Cardinality(1..k) = k
    BY FS_Interval
<1>2. IsFiniteSet({b} \X (1..k)) /\ Cardinality({b} \X (1..k)) = k
    BY <1>1, TimesOne
<1> QED
    BY <1>2, TimesOne DEF Prefix

\* While fewer than MaxBatch batches were sent, no isu has sent that many.
LEMMA RoomForBatch ==
    ASSUME TypeInv, NEW i \in Isu, Cardinality(Sent) < MaxBatch
    PROVE  posted[i] < MaxBatch
<1> SUFFICES ASSUME posted[i] >= MaxBatch PROVE FALSE
    BY IngestAssumption DEF TypeInv
<1> DEFINE S == {i} \X (1..MaxBatch)
<1>1. S \in SUBSET Sent /\ Sent \in SUBSET (Isu \X (1..MaxBatch))
    BY IngestAssumption DEF TypeInv, Sent
<1>2. IsFiniteSet(1..MaxBatch) /\ Cardinality(1..MaxBatch) = MaxBatch
    BY IngestAssumption, FS_Interval
<1>3. IsFiniteSet(Sent)
    BY <1>1, <1>2, FS_Product, FS_Subset, IngestAssumption
<1>4. Cardinality(S) = MaxBatch
    BY <1>2, TimesOne
<1>5. Cardinality(S) <= Cardinality(Sent)
    BY <1>1, <1>3, FS_Subset
<1>6. Cardinality(Sent) \in Nat
    BY <1>3, FS_CardinalityType
<1> QED
    BY <1>4, <1>5, <1>6, IngestAssumption

----------------------------------------------------------------------------
(* The posters and the handler. *)

\* No request, nothing stored.
LEMMA ServerInit == Init => ServerInv
BY IngestAssumption
DEF Init, ServerInv, TypeInv, SlotInv, RowsIn, ApartInv, Apart, LogInv, Unstored, PC

\* A slot nothing happens to, while rows and batches are only added.
LEMMA SlotKept ==
    ASSUME TypeInv, TypeInv', NEW r \in Req, SlotInv(r),
           pc'[r] = pc[r], tx'[r] = tx[r], arg'[r] = arg[r],
           isu \subseteq isu', \A i \in Isu : posted[i] <= posted'[i]
    PROVE  SlotInv(r)'
<1>1. RowsIn(r)' = RowsIn(r)
    BY DEF RowsIn, BatchRows
<1>2. pc[r] # "free" /\ arg[r].batch # 0 => arg[r].batch <= posted'[arg[r].isu]
    BY IngestAssumption DEF SlotInv, Batch, TypeInv
<1> QED
    BY <1>1, <1>2 DEF SlotInv

\* A step of one slot that stores nothing and takes up no new batch.
LEMMA OneSlot ==
    ASSUME ServerInv, NEW r \in Req, TypeInv', SlotInv(r)', Unstored(r)',
           UNCHANGED <<isu, stored, posted>>,
           \A s \in Req \ {r} : pc'[s] = pc[s] /\ tx'[s] = tx[s] /\ arg'[s] = arg[s],
           \/ pc'[r] = "free"
           \/ arg'[r].batch = 0
           \/ pc[r] # "free" /\ arg'[r] = arg[r]
    PROVE  ServerInv'
<1>1. \A s \in Req : SlotInv(s)'
    <2> SUFFICES ASSUME NEW s \in Req \ {r} PROVE SlotInv(s)'
        OBVIOUS
    <2>1. \A i \in Isu : posted[i] <= posted'[i]
        BY IngestAssumption DEF ServerInv, TypeInv
    <2> QED
        BY <2>1, SlotKept DEF ServerInv
<1>2. ApartInv'
    BY DEF ServerInv, ApartInv, Apart
<1>3. LogInv'
    <2>1. \A i : Known(i)' = Known(i)
        BY DEF Known
    <2>2. \A s \in Req \ {r} : Unstored(s)'
        BY DEF ServerInv, LogInv, Unstored, RowsIn
    <2> QED
        BY <2>1, <2>2 DEF ServerInv, LogInv
<1> QED
    BY <1>1, <1>2, <1>3 DEF ServerInv

\* The slot is answered and free.
LEMMA FinishStep == ASSUME ServerInv, NEW r \in Req, Finish(r) PROVE ServerInv'
<1>1. TypeInv'
    BY DEF Finish, ServerInv, TypeInv, PC
<1>2. pc'[r] = "free" /\ tx'[r] = {} /\ arg'[r] = NoArg
    BY DEF Finish, ServerInv, TypeInv
<1>3. SlotInv(r)' /\ Unstored(r)'
    BY <1>2 DEF SlotInv, Unstored
<1>4. \A s \in Req \ {r} : pc'[s] = pc[s] /\ tx'[s] = tx[s] /\ arg'[s] = arg[s]
    BY DEF Finish, ServerInv, TypeInv
<1> QED
    BY <1>1, <1>2, <1>3, <1>4, OneSlot DEF Finish

\* The handler goes on to the next await.
LEMMA ProceedStep ==
    ASSUME ServerInv, NEW r \in Req,
           GetConnection(r) \/ BeginTransaction(r) \/ IsuFound(r) \/ SendCommit(r)
    PROVE  ServerInv'
<1> USE DEF ServerInv
<1>1. /\ tx' = tx /\ arg' = arg /\ isu' = isu /\ stored' = stored /\ posted' = posted
      /\ pc' = [pc EXCEPT ![r] = pc'[r]]
      /\ pc'[r] \in PC
      /\ pc[r] \notin {"free", "committed"}
    BY DEF GetConnection, BeginTransaction, IsuFound, SendCommit, Proceed, TypeInv, PC,
           Holding, InTransaction
<1>2. TypeInv'
    BY <1>1 DEF TypeInv
<1>3. RowsIn(r)' = RowsIn(r)
    BY <1>1 DEF RowsIn
<1>4. CASE GetConnection(r)
    <2>1. pc'[r] = "begin" /\ pc[r] = "accepted" /\ tx[r] = {} /\ arg[r].bad # NoList
        BY <1>4 DEF GetConnection, Proceed, TypeInv, SlotInv
    <2>2. SlotInv(r)'
        BY <1>1, <1>3, <2>1 DEF SlotInv
    <2> QED
        BY <1>1, <1>2, <2>1, <2>2, OneSlot DEF LogInv, Unstored, RowsIn, TypeInv
<1>5. CASE BeginTransaction(r)
    <2>1. pc'[r] = "count" /\ pc[r] = "begin" /\ tx[r] = {} /\ arg[r].bad # NoList
        BY <1>5 DEF BeginTransaction, Proceed, TypeInv, SlotInv
    <2>2. SlotInv(r)'
        BY <1>1, <1>3, <2>1 DEF SlotInv
    <2> QED
        BY <1>1, <1>2, <2>1, <2>2, OneSlot DEF LogInv, Unstored, RowsIn, TypeInv
<1>6. CASE IsuFound(r)
    <2>1. pc'[r] = "insert" /\ pc[r] = "count" /\ tx[r] = {} /\ arg[r].isu \in isu
        BY <1>6 DEF IsuFound, Proceed, TypeInv, SlotInv
    <2>2. tx[r] = Prefix(arg[r].isu, arg[r].batch, 0) /\ 0 \in 0..BatchSize
        BY <2>1, IngestAssumption DEF Prefix
    <2>3. arg[r].bad > 0 => 0 < arg[r].bad
        OBVIOUS
    <2>4. SlotInv(r)'
        BY <1>1, <1>3, <2>1, <2>2, <2>3 DEF SlotInv
    <2> QED
        BY <1>1, <1>2, <2>4, OneSlot DEF LogInv, Unstored, RowsIn, TypeInv
<1>7. CASE SendCommit(r)
    <2>1. pc'[r] = "commit" /\ pc[r] = "insert" /\ NextIndex(r) > BatchSize
        BY <1>7 DEF SendCommit, Proceed, TypeInv
    <2>2. PICK k \in 0..BatchSize :
              /\ tx[r] = Prefix(arg[r].isu, arg[r].batch, k)
              /\ arg[r].bad > 0 => k < arg[r].bad
        BY <2>1 DEF SlotInv
    <2>3. k = BatchSize
        <3>0. k \in Nat
            BY IngestAssumption
        <3>1. Cardinality(Prefix(arg[r].isu, arg[r].batch, k)) = k
            BY <3>0, PrefixSize
        <3>2. k + 1 > BatchSize
            BY <2>1, <2>2, <3>1 DEF NextIndex
        <3> QED
            BY <3>2, IngestAssumption
    <2>4. tx[r] = RowsIn(r)
        BY <2>2, <2>3 DEF RowsIn, BatchRows, Prefix
    <2>5. arg[r].batch # 0
        BY <2>1, <2>2, <2>3, IngestAssumption DEF SlotInv, Batch, NoList
    <2>6. SlotInv(r)'
        BY <1>1, <1>3, <2>1, <2>4, <2>5 DEF SlotInv
    <2> QED
        BY <1>1, <1>2, <2>6, OneSlot DEF LogInv, Unstored, RowsIn, TypeInv
<1> QED
    BY <1>4, <1>5, <1>6, <1>7

\* One more condition is inserted into the open transaction.
LEMMA InsertStep == ASSUME ServerInv, NEW r \in Req, InsertCondition(r) PROVE ServerInv'
<1> USE DEF ServerInv
<1>1. pc[r] = "insert" /\ arg[r] \in Batch /\ arg[r].isu \in isu
    BY DEF InsertCondition, SlotInv
<1>2. PICK k \in 0..BatchSize :
          /\ tx[r] = Prefix(arg[r].isu, arg[r].batch, k)
          /\ arg[r].bad > 0 => k < arg[r].bad
    BY <1>1 DEF SlotInv
<1>3. NextIndex(r) = k + 1 /\ k + 1 \in 1..BatchSize /\ k + 1 # arg[r].bad
    <2>0. k \in Nat
        BY IngestAssumption
    <2>1. Cardinality(Prefix(arg[r].isu, arg[r].batch, k)) = k
        BY <2>0, PrefixSize
    <2>2. NextIndex(r) = k + 1
        BY <1>2, <2>1 DEF NextIndex
    <2> QED
        BY <2>2, IngestAssumption DEF InsertCondition
<1>4. /\ pc' = pc /\ arg' = arg /\ isu' = isu /\ stored' = stored /\ posted' = posted
      /\ tx' = [tx EXCEPT ![r] = tx[r] \cup {<<arg[r].isu, <<arg[r].batch, k + 1>>>>}]
    BY <1>3 DEF InsertCondition
<1>5. tx'[r] = Prefix(arg[r].isu, arg[r].batch, k + 1)
    <2>1. tx'[r] = tx[r] \cup {<<arg[r].isu, <<arg[r].batch, k + 1>>>>}
        BY <1>4 DEF TypeInv
    <2>2. 1..k + 1 = (1..k) \cup {k + 1}
        BY <1>3
    <2> QED
        BY <1>2, <2>1, <2>2 DEF Prefix
<1>6. TypeInv'
    BY <1>1, <1>3, <1>4 DEF TypeInv, Batch
<1>7. tx'[r] \subseteq RowsIn(r) /\ RowsIn(r)' = RowsIn(r)
    <2>1. 1..k + 1 \subseteq 1..BatchSize
        BY <1>3, IngestAssumption
    <2>2. RowsIn(r)' = RowsIn(r)
        BY <1>4 DEF RowsIn
    <2>3. Prefix(arg[r].isu, arg[r].batch, k + 1) \subseteq RowsIn(r)
        BY <2>1 DEF RowsIn, BatchRows, Prefix
    <2> QED
        BY <1>5, <2>2, <2>3
<1>8. k + 1 \in 0..BatchSize /\ (arg[r].bad > 0 => k + 1 < arg[r].bad)
    BY <1>1, <1>2, <1>3, IngestAssumption DEF Batch, NoList
<1>9. SlotInv(r)'
    BY <1>1, <1>4, <1>5, <1>7, <1>8 DEF SlotInv
<1> QED
    BY <1>1, <1>4, <1>6, <1>9, OneSlot DEF LogInv, Unstored, RowsIn, TypeInv

\* A batch is stored as a whole.
LEMMA CommitStep == ASSUME ServerInv, NEW r \in Req, DbCommits(r) PROVE ServerInv'
<1> USE DEF ServerInv
<1>1. /\ arg[r] \in Batch /\ arg[r].isu \in isu /\ arg[r].batch # 0
      /\ arg[r].batch <= posted[arg[r].isu]
      /\ tx[r] = RowsIn(r)
    BY DEF DbCommits, SlotInv
<1>2. /\ isu' = isu /\ posted' = posted
      /\ stored' = stored \cup RowsIn(r)
      /\ tx' = [tx EXCEPT ![r] = {}]
      /\ \/ pc[r] = "commit" /\ pc' = [pc EXCEPT ![r] = "committed"] /\ arg' = arg
         \/ pc[r] = "orphanCommit" /\ pc' = [pc EXCEPT ![r] = "free"]
            /\ arg' = [arg EXCEPT ![r] = NoArg]
    BY <1>1 DEF DbCommits, TypeInv
<1>3. TypeInv'
    BY <1>2 DEF TypeInv, PC, Holding
<1>4. \A s \in Req \ {r} : pc'[s] = pc[s] /\ tx'[s] = tx[s] /\ arg'[s] = arg[s]
    BY <1>2 DEF TypeInv
<1>5. /\ tx'[r] = {} /\ pc'[r] \in {"committed", "free"}
      /\ pc'[r] # "free" => arg'[r] = arg[r]
    BY <1>2 DEF TypeInv
<1>6. \A s \in Req : SlotInv(s)'
    <2>1. SlotInv(r)'
        BY <1>1, <1>2, <1>5 DEF SlotInv
    <2>2. \A i \in Isu : posted[i] <= posted'[i]
        BY <1>2, IngestAssumption DEF TypeInv
    <2>3. \A s \in Req \ {r} : SlotInv(s)'
        BY <1>2, <1>3, <1>4, <2>2, SlotKept
    <2> QED
        BY <2>1, <2>3
<1>7. ApartInv'
    BY <1>1, <1>4, <1>5, <1>2 DEF ApartInv, Apart, DbCommits
<1>8. LogInv'
    <2>1. \A i : Known(i)' = Known(i)
        BY <1>2 DEF Known
    <2>2. RowsIn(r) \subseteq Known(arg[r].isu)
        <3>1. arg[r].batch \in 1..posted[arg[r].isu]
            BY <1>1, IngestAssumption DEF Batch, TypeInv
        <3> QED
            BY <3>1 DEF RowsIn, BatchRows, Known
    <2>3. \A row \in stored' : \E i \in isu' : row \in Known(i)'
        BY <1>1, <1>2, <2>1, <2>2 DEF LogInv
    <2>4. ASSUME NEW s \in Req \ {r}, pc'[s] \notin {"free", "committed"}, arg'[s].batch # 0
          PROVE  stored' \cap RowsIn(s)' = {}
        <3>1. RowsIn(s)' = RowsIn(s)
            BY <1>4 DEF RowsIn
        <3>2. stored \cap RowsIn(s) = {}
            BY <1>4, <2>4 DEF LogInv, Unstored
        <3>3. arg[s].isu # arg[r].isu \/ arg[s].batch # arg[r].batch
            BY <1>4, <2>4 DEF ApartInv, Apart, DbCommits
        <3>4. RowsIn(r) \cap RowsIn(s) = {}
            BY <3>3 DEF RowsIn, BatchRows
        <3> QED
            BY <1>2, <3>1, <3>2, <3>4
    <2> QED
        BY <1>5, <2>3, <2>4 DEF LogInv, Unstored
<1> QED
    BY <1>3, <1>6, <1>7, <1>8

\* A poster sends its next batch, which nobody carries and which is not stored.
LEMMA PostStep ==
    ASSUME ServerInv, NEW i \in Isu, NEW r \in Req, PostBatch(i, r) PROVE ServerInv'
<1> USE DEF ServerInv
<1> DEFINE next == posted[i] + 1
<1>1. posted[i] \in 0..MaxBatch /\ next \in 1..MaxBatch
    BY RoomForBatch, IngestAssumption DEF PostBatch, TypeInv
<1>2. [isu |-> i, batch |-> next, bad |-> 0] \in Batch
    BY <1>1, IngestAssumption DEF Batch
<1>3. /\ isu' = isu /\ stored' = stored /\ tx' = tx
      /\ posted' = [posted EXCEPT ![i] = next]
      /\ pc[r] = "free" /\ pc' = [pc EXCEPT ![r] = "accepted"]
      /\ arg' = [arg EXCEPT ![r] = [isu |-> i, batch |-> next, bad |-> 0]]
    BY DEF PostBatch, Accept
<1>4. TypeInv'
    BY <1>1, <1>2, <1>3 DEF TypeInv, PC
<1>5. /\ pc'[r] = "accepted" /\ arg'[r] = [isu |-> i, batch |-> next, bad |-> 0]
      /\ \A s \in Req \ {r} : pc'[s] = pc[s] /\ arg'[s] = arg[s]
      /\ posted'[i] = next
      /\ \A j \in Isu \ {i} : posted'[j] = posted[j]
    BY <1>3 DEF TypeInv
<1>6. \A j \in Isu : posted[j] <= posted'[j]
    BY <1>1, <1>5, IngestAssumption DEF TypeInv
<1>7. \A s \in Req : SlotInv(s)'
    <2>1. tx'[r] = {}
        BY <1>3 DEF SlotInv
    <2>2. arg'[r] \in Batch /\ arg'[r].bad = 0 /\ arg'[r].batch # 0
        BY <1>1, <1>2, <1>5
    <2>3. arg'[r].batch <= posted'[arg'[r].isu]
        BY <1>1, <1>5
    <2>4. SlotInv(r)'
        BY <1>5, <2>1, <2>2, <2>3 DEF SlotInv
    <2>5. \A s \in Req \ {r} : SlotInv(s)'
        BY <1>3, <1>4, <1>5, <1>6, SlotKept
    <2> QED
        BY <2>4, <2>5
<1>8. \A s \in Req \ {r} : pc[s] # "free" => arg[s].isu # i \/ arg[s].batch # next
    <2> SUFFICES ASSUME NEW s \in Req \ {r}, pc[s] # "free", arg[s].isu = i
                 PROVE  arg[s].batch # next
        OBVIOUS
    <2>0. SlotInv(s)
        OBVIOUS
    <2>1. arg[s].batch \in 0..MaxBatch
        BY <2>0 DEF SlotInv, Batch
    <2>2. arg[s].batch # 0 => arg[s].batch <= posted[i]
        BY <1>1, <2>0, <2>1, IngestAssumption DEF SlotInv
    <2> QED
        BY <1>1, <2>1, <2>2, IngestAssumption
<1>9. ApartInv'
    BY <1>5, <1>8 DEF ApartInv, Apart
<1>10. LogInv'
    <2>0. \A j \in Isu : posted[j] \in 0..MaxBatch /\ posted'[j] \in 0..MaxBatch
        BY <1>4 DEF TypeInv
    <2>1. \A j \in Isu : Known(j) \subseteq Known(j)'
        <3>1. \A j \in Isu : 1..posted[j] \subseteq 1..posted'[j]
            BY <1>6, <2>0, IngestAssumption
        <3> QED
            BY <3>1 DEF Known
    <2>2. \A row \in stored' : \E j \in isu' : row \in Known(j)'
        BY <1>3, <2>1 DEF LogInv, TypeInv
    <2>3. stored \cap BatchRows(i, next) = {}
        <3> SUFFICES ASSUME NEW row \in stored, row \in BatchRows(i, next)
                     PROVE  FALSE
            OBVIOUS
        <3>1. row[1] = i /\ row[2][1] = next
            BY DEF BatchRows
        <3>2. PICK j \in isu : row \in Known(j)
            BY DEF LogInv
        <3>3. row[1] = j /\ row[2][1] \in 1..posted[j]
            BY <3>2 DEF Known
        <3> QED
            BY <1>1, <3>1, <3>3
    <2>4. Unstored(r)'
        BY <1>3, <1>5, <2>3 DEF Unstored, RowsIn
    <2>5. \A s \in Req \ {r} : Unstored(s)'
        BY <1>3, <1>5 DEF LogInv, Unstored, RowsIn
    <2> QED
        BY <2>2, <2>4, <2>5 DEF LogInv
<1> QED
    BY <1>4, <1>7, <1>9, <1>10

\* Somebody posts what is in nobody's model.
LEMMA MalformedStep ==
    ASSUME ServerInv, NEW i \in Isu, NEW r \in Req, NEW bad \in {NoList} \cup (1..BatchSize),
           PostMalformed(i, r, bad)
    PROVE  ServerInv'
<1> USE DEF ServerInv
<1>1. [isu |-> i, batch |-> 0, bad |-> bad] \in Batch /\ bad # 0
    BY IngestAssumption DEF Batch, NoList
<1>2. /\ UNCHANGED <<isu, stored, posted, tx>>
      /\ pc[r] = "free" /\ pc' = [pc EXCEPT ![r] = "accepted"]
      /\ arg' = [arg EXCEPT ![r] = [isu |-> i, batch |-> 0, bad |-> bad]]
    BY DEF PostMalformed, Accept
<1>3. TypeInv'
    BY <1>1, <1>2 DEF TypeInv, PC
<1>4. /\ pc'[r] = "accepted" /\ arg'[r] = [isu |-> i, batch |-> 0, bad |-> bad]
      /\ \A s \in Req \ {r} : pc'[s] = pc[s] /\ tx'[s] = tx[s] /\ arg'[s] = arg[s]
    BY <1>2 DEF TypeInv
<1>5. tx'[r] = {}
    BY <1>2 DEF SlotInv
<1>6. SlotInv(r)' /\ Unstored(r)'
    BY <1>1, <1>4, <1>5 DEF SlotInv, Unstored
<1> QED
    BY <1>2, <1>3, <1>4, <1>6, OneSlot

\* A slot whose handler is gone keeps what its transaction has written, or is free.
LEMMA Abandoned ==
    ASSUME TypeInv, NEW r \in Req, SlotInv(r),
           isu' = isu, posted' = posted, tx'[r] = tx[r],
           pc'[r] = Abandon(pc[r]),
           arg'[r] = IF pc'[r] = "free" THEN NoArg ELSE arg[r]
    PROVE  /\ SlotInv(r)' /\ pc'[r] \in PC /\ arg'[r] \in Batch \cup {NoArg}
           /\ pc'[r] # "free" => pc[r] \notin {"free", "committed"}
           /\ pc'[r] = "free" => pc[r] \in {"free", "accepted", "committed"}
<1>1. pc[r] \in PC
    BY DEF TypeInv
<1>2. /\ pc'[r] \in {"orphanCommit", "orphan", "free"}
      /\ pc'[r] = "orphanCommit" => pc[r] \in {"commit", "orphanCommit"}
      /\ pc'[r] = "orphan" => pc[r] \in {"begin", "count", "insert", "orphan"}
      /\ pc'[r] = "free" => pc[r] \in {"free", "accepted", "committed"}
    BY <1>1 DEF Abandon, PC, Holding, InTransaction, Orphaned
<1>3. CASE pc'[r] = "free"
    BY <1>2, <1>3 DEF SlotInv, PC
<1>4. CASE pc'[r] # "free"
    <2>1. RowsIn(r)' = RowsIn(r) /\ arg'[r] = arg[r]
        BY <1>4 DEF RowsIn
    <2> QED
        BY <1>2, <1>4, <2>1 DEF SlotInv, TypeInv, PC, Orphaned
<1> QED
    BY <1>3, <1>4

\* Handlers are gone: one with its connection, or all with the process.
LEMMA AbandonStep == ASSUME ServerInv, NEW R \in SUBSET Req, AbandonAll(R) PROVE ServerInv'
<1> USE DEF ServerInv
<1>1. /\ isu' = isu /\ posted' = posted /\ stored' = stored /\ tx' = tx
      /\ pc' = [r \in Req |-> IF r \in R THEN Abandon(pc[r]) ELSE pc[r]]
      /\ arg' = [r \in Req |-> IF r \in R /\ Abandon(pc[r]) = "free" THEN NoArg ELSE arg[r]]
    BY DEF AbandonAll
<1>2. \A r \in R : /\ pc'[r] = Abandon(pc[r])
                   /\ arg'[r] = IF pc'[r] = "free" THEN NoArg ELSE arg[r]
    BY <1>1
<1>3. \A r \in Req \ R : pc'[r] = pc[r] /\ arg'[r] = arg[r]
    BY <1>1
<1>4. \A r \in R : /\ SlotInv(r)' /\ pc'[r] \in PC /\ arg'[r] \in Batch \cup {NoArg}
                   /\ pc'[r] # "free" => pc[r] \notin {"free", "committed"}
    BY <1>1, <1>2, Abandoned
<1>5. \A r \in Req : pc'[r] \in PC /\ arg'[r] \in Batch \cup {NoArg}
    BY <1>3, <1>4 DEF TypeInv
<1>6. TypeInv'
    BY <1>1, <1>5 DEF TypeInv
<1>7. \A r \in Req \ R : SlotInv(r)'
    <2>1. \A i \in Isu : posted[i] <= posted'[i]
        BY <1>1, IngestAssumption DEF TypeInv
    <2> QED
        BY <1>1, <1>3, <1>6, <2>1, SlotKept
<1>8. \A r \in Req : pc'[r] # "free" => pc[r] # "free" /\ arg'[r] = arg[r]
    BY <1>2, <1>3, <1>4
<1>9. ApartInv'
    BY <1>8 DEF ApartInv, Apart
<1>10. LogInv'
    <2>1. \A i : Known(i)' = Known(i)
        BY <1>1 DEF Known
    <2>2. \A r \in Req : Unstored(r)'
        BY <1>1, <1>2, <1>3, <1>4 DEF LogInv, Unstored, RowsIn
    <2> QED
        BY <1>1, <2>1, <2>2 DEF LogInv
<1> QED
    BY <1>4, <1>6, <1>7, <1>9, <1>10

\* MySQL rolls an abandoned transaction back.
LEMMA ReapStep == ASSUME ServerInv, NEW r \in Req, DbReaps(r) PROVE ServerInv'
<1> USE DEF ServerInv
<1>1. TypeInv'
    BY DEF DbReaps, TypeInv, PC
<1>2. /\ pc'[r] = "free" /\ tx'[r] = {} /\ arg'[r] = NoArg
      /\ \A s \in Req \ {r} : pc'[s] = pc[s] /\ tx'[s] = tx[s] /\ arg'[s] = arg[s]
    BY DEF DbReaps, TypeInv
<1>3. SlotInv(r)' /\ Unstored(r)'
    BY <1>2 DEF SlotInv, Unstored
<1> QED
    BY <1>1, <1>2, <1>3, OneSlot DEF DbReaps

Growing == isu \subseteq isu' /\ stored \subseteq stored'

\* Every step keeps the server's part of the invariant, and takes no isu and no
\* condition away; those of the server do nothing to the readers.
LEMMA ServerStep ==
    ASSUME ServerInv, Next
    PROVE  /\ ServerInv' /\ Growing
           /\ \/ UNCHANGED readers
              \/ Crash
              \/ \E u \in Reader : ReaderNext(u)
              \/ \E v \in Viewer : ViewerNext(v)
<1>1. ASSUME NEW i \in Isu, PosterNext(i)
      PROVE  ServerInv' /\ Growing /\ UNCHANGED readers
  <2>1. CASE Activate(i) \/ PosterTimeout(i)
    <3>1. UNCHANGED <<isu, stored, tx, pc, arg, posted, readers>>
        BY <2>1 DEF Activate, PosterTimeout, server
    <3> QED
        BY <3>1 DEF ServerInv, TypeInv, SlotInv, RowsIn, ApartInv, Apart, LogInv, Unstored,
                    Known, Growing
  <2>2. CASE CommitRegistration(i)
    <3>1. UNCHANGED <<stored, tx, pc, arg, posted, readers>> /\ isu' = isu \cup {i}
        BY <2>2 DEF CommitRegistration
    <3>2. TypeInv'
        BY <3>1 DEF ServerInv, TypeInv
    <3>3. \A r \in Req : SlotInv(r)'
        BY <3>1, <3>2, SlotKept, IngestAssumption DEF ServerInv, TypeInv
    <3>4. ApartInv' /\ LogInv'
        BY <3>1 DEF ServerInv, ApartInv, Apart, LogInv, Unstored, Known, RowsIn
    <3> QED
        BY <3>1, <3>2, <3>3, <3>4 DEF ServerInv, Growing
  <2>3. CASE \E r \in Req : PostBatch(i, r)
    BY <2>3, PostStep DEF PostBatch, Accept, Growing
  <2>4. CASE \E r \in Req, bad \in {NoList} \cup (1..BatchSize) : PostMalformed(i, r, bad)
    BY <2>4, MalformedStep DEF PostMalformed, Accept, Growing
  <2> QED
    BY <1>1, <2>1, <2>2, <2>3, <2>4 DEF PosterNext
<1>2. ASSUME NEW r \in Req, Handler(r)
      PROVE  ServerInv' /\ Growing /\ UNCHANGED readers
  <2>1. CASE \/ Drop(r) \/ RejectBody(r) \/ IsuNotFound(r) \/ RejectFormat(r)
             \/ AnswerAccepted(r) \/ StepFails(r)
    <3>1. Finish(r)
        BY <2>1 DEF Drop, RejectBody, IsuNotFound, RejectFormat, AnswerAccepted, StepFails
    <3> QED
        BY <3>1, FinishStep DEF Finish, Growing
  <2>2. CASE GetConnection(r) \/ BeginTransaction(r) \/ IsuFound(r) \/ SendCommit(r)
    BY <2>2, ProceedStep
    DEF GetConnection, BeginTransaction, IsuFound, SendCommit, Proceed, Growing
  <2>3. CASE InsertCondition(r)
    BY <2>3, InsertStep DEF InsertCondition, Growing
  <2>4. CASE DbCommits(r)
    BY <2>4, CommitStep DEF DbCommits, Growing
  <2>5. CASE GetConnectionRejects(r) \/ LoseConnection(r)
    BY <2>5, AbandonStep DEF GetConnectionRejects, LoseConnection, AbandonAll, Growing
  <2>6. CASE DbReaps(r)
    BY <2>6, ReapStep DEF DbReaps, Growing
  <2> QED
    BY <1>2, <2>1, <2>2, <2>3, <2>4, <2>5, <2>6 DEF Handler
<1>3. ASSUME (\E u \in Reader : ReaderNext(u)) \/ (\E v \in Viewer : ViewerNext(v))
      PROVE  ServerInv' /\ Growing
  <2>1. UNCHANGED server /\ UNCHANGED posted
      BY <1>3 DEF ReaderNext, StartRead, ReadSnapshot, FinishRead,
                  ViewerNext, StartTrend, ReadIsuList, ReadLatest, FinishTrend
  <2> QED
      BY <2>1 DEF server, ServerInv, TypeInv, SlotInv, RowsIn, ApartInv, Apart, LogInv,
                  Unstored, Known, Growing
<1>4. CASE Crash
  BY <1>4, AbandonStep DEF Crash, AbandonAll, Growing
<1> QED
  BY <1>1, <1>2, <1>3, <1>4 DEF Next

----------------------------------------------------------------------------
(* The readers and the viewers. *)

\* What is stored are rows of known isu and timestamps.
LEMMA StoredRows == ASSUME ServerInv PROVE stored \in SUBSET Row
<1> SUFFICES ASSUME NEW row \in stored PROVE row \in Row
    OBVIOUS
<1>1. PICK i \in isu : row \in Known(i)
    BY DEF ServerInv, LogInv
<1>2. i \in Isu /\ 1..posted[i] \subseteq 1..MaxBatch
    BY IngestAssumption DEF ServerInv, TypeInv
<1> QED
    BY <1>1, <1>2 DEF Known, Row, Timestamp

\* What is stored of an isu is in the benchmarker's model of it.
LEMMA StoredKnown ==
    ASSUME ServerInv, NEW i, NEW row \in stored, row[1] = i PROVE row \in Known(i)
<1>1. PICK j \in isu : row \in Known(j)
    BY DEF ServerInv, LogInv
<1> QED
    BY <1>1 DEF Known

\* Nothing is shown or asked for.
LEMMA ReadersInit == Init => ReaderInv /\ ViewerInv /\ alarms = {}
BY DEF Init, ReaderInv, ViewerInv, ViewerRecord, IdleReader, IdleViewer, Latest, Never

\* While conditions are only added, what readers hold stays true.
LEMMA ReaderKept ==
    ASSUME ReaderInv, Growing, UNCHANGED <<reader, seen>> PROVE ReaderInv'
<1>1. \A i : RowsOf(i, stored) \subseteq RowsOf(i, stored')
    BY DEF RowsOf, Growing
<1>2. SUBSET stored \subseteq SUBSET stored'
    BY DEF Growing
<1> QED
    BY <1>1, <1>2 DEF ReaderInv, Growing

\* And so does what viewers hold.
LEMMA ViewerKept ==
    ASSUME ViewerInv, Growing, UNCHANGED <<viewer, verified>> PROVE ViewerInv'
BY DEF ViewerInv, Growing

\* A user reads: the checks on the answer find nothing to complain about.
LEMMA ReaderStep ==
    ASSUME ServerInv, ReaderInv, NEW u \in Reader, ReaderNext(u), alarms = {}, Growing
    PROVE  ReaderInv' /\ alarms' = {} /\ UNCHANGED <<viewer, verified>>
<1> DEFINE State(r) == /\ r.state # "idle" => r.must \subseteq RowsOf(r.isu, stored)
                       /\ r.state = "reading" =>
                             r.must \subseteq r.page /\ r.page \subseteq RowsOf(r.isu, stored)
           ReaderType == [state : {"idle", "sent", "reading"}, isu : Isu \cup {NoIsu},
                          must : SUBSET stored, page : SUBSET stored]
<1>1. /\ reader \in [Reader -> ReaderType]
      /\ \A w \in Reader : State(reader[w])
      /\ seen \subseteq stored
    BY DEF ReaderInv
<1>2. ASSUME NEW r \in ReaderType, State(r), reader' = [reader EXCEPT ![u] = r],
             stored' = stored, seen' \subseteq stored
      PROVE  ReaderInv'
    <2>1. /\ reader' \in [Reader -> ReaderType]
          /\ \A w \in Reader : State(reader'[w])
        BY <1>1, <1>2
    <2> QED
        BY <1>2, <2>1 DEF ReaderInv
<1>3. CASE \E i \in Isu : StartRead(u, i)
    <2>1. PICK i \in Isu : StartRead(u, i)
        BY <1>3
    <2> DEFINE r == [state |-> "sent", isu |-> i, must |-> RowsOf(i, seen), page |-> {}]
    <2>2. r \in ReaderType /\ State(r)
        BY <1>1 DEF RowsOf
    <2>3. reader' = [reader EXCEPT ![u] = r]
        BY <2>1 DEF StartRead
    <2>4. /\ stored' = stored /\ seen' = seen
          /\ UNCHANGED <<viewer, verified, alarms>>
        BY <2>1 DEF StartRead, server
    <2> HIDE DEF r, State, ReaderType
    <2> QED
        BY <1>1, <1>2, <2>2, <2>3, <2>4
<1>4. CASE ReadSnapshot(u)
    <2> DEFINE r == [state |-> "reading", isu |-> reader[u].isu, must |-> reader[u].must,
                     page |-> RowsOf(reader[u].isu, stored)]
    <2>1. reader[u] \in ReaderType /\ reader[u].must \subseteq RowsOf(reader[u].isu, stored)
        BY <1>1, <1>4 DEF ReadSnapshot
    <2>2. r \in ReaderType /\ State(r)
        BY <2>1 DEF RowsOf
    <2>3. reader' = [reader EXCEPT ![u] = r]
        BY <1>4 DEF ReadSnapshot
    <2>4. /\ stored' = stored /\ seen' = seen
          /\ UNCHANGED <<viewer, verified, alarms>>
        BY <1>4 DEF ReadSnapshot, server
    <2> HIDE DEF r, State, ReaderType
    <2> QED
        BY <1>1, <1>2, <2>2, <2>3, <2>4
<1>5. CASE FinishRead(u)
    <2>1. /\ reader[u].must \subseteq reader[u].page
          /\ reader[u].page \subseteq RowsOf(reader[u].isu, stored)
        BY <1>1, <1>5 DEF FinishRead
    <2>2. reader[u].page \subseteq Known(reader[u].isu)
        BY <2>1, StoredKnown DEF RowsOf
    <2>3. alarms' = {} /\ seen' = seen \cup reader[u].page
        BY <1>5, <2>1, <2>2 DEF FinishRead
    <2>4. IdleReader \in ReaderType /\ State(IdleReader)
        BY DEF IdleReader
    <2>5. stored' = stored /\ seen' \subseteq stored
        BY <1>1, <1>5, <2>1, <2>3 DEF FinishRead, server, RowsOf
    <2>6. reader' = [reader EXCEPT ![u] = IdleReader] /\ UNCHANGED <<viewer, verified>>
        BY <1>5 DEF FinishRead
    <2> HIDE DEF State, ReaderType
    <2> QED
        BY <1>2, <2>3, <2>4, <2>5, <2>6
<1> QED
    BY <1>3, <1>4, <1>5 DEF ReaderNext

\* A viewer reads the trend: it finds no unknown condition, none older than
\* before and no fewer isu.
LEMMA ViewerStep ==
    ASSUME ServerInv, ViewerInv, NEW v \in Viewer, ViewerNext(v), alarms = {}
    PROVE  ViewerInv' /\ alarms' = {} /\ UNCHANGED <<reader, seen>>
<1> DEFINE Sound(w, known) ==
              \A i \in Isu :
                 /\ known[i] # Never => <<i, known[i]>> \in stored
                 /\ w.trend[i] # Never => <<i, w.trend[i]>> \in stored
                 /\ w.state = "reading" /\ known[i] # Never =>
                       \/ CharacterOf[i] \in w.characters
                       \/ i \in w.todo
                       \/ w.trend[i] # Never /\ ~Earlier(w.trend[i], known[i])
<1>1. /\ viewer \in [Viewer -> ViewerRecord] /\ verified \in [Viewer -> Latest]
      /\ \A x \in Viewer : Sound(viewer[x], verified[x])
    BY DEF ViewerInv
<1>2. ASSUME NEW w \in ViewerRecord, NEW known \in Latest, Sound(w, known),
             viewer' = [viewer EXCEPT ![v] = w],
             verified' = [verified EXCEPT ![v] = known],
             stored' = stored
      PROVE  ViewerInv'
    <2>1. viewer' \in [Viewer -> ViewerRecord] /\ verified' \in [Viewer -> Latest]
        BY <1>1, <1>2
    <2>2. \A x \in Viewer : Sound(viewer'[x], verified'[x])
        BY <1>1, <1>2
    <2> QED
        BY <1>2, <2>1, <2>2 DEF ViewerInv
<1>3. viewer[v] \in ViewerRecord /\ verified[v] \in Latest /\ Sound(viewer[v], verified[v])
    BY <1>1
<1>4. verified[v] = verified[v] /\ verified = [verified EXCEPT ![v] = verified[v]]
    BY <1>1
<1>5. [i \in Isu |-> Never] \in Latest
    BY DEF Latest
<1>6. \A i \in Isu : verified[v][i] # Never => i \in isu
    <2> SUFFICES ASSUME NEW i \in Isu, <<i, verified[v][i]>> \in stored PROVE i \in isu
        BY <1>3
    <2> QED
        BY DEF ServerInv, LogInv, Known
<1>7. CASE StartTrend(v)
    <2> DEFINE w == [state |-> "reading", characters |-> {CharacterOf[i] : i \in isu},
                     todo |-> {}, trend |-> [i \in Isu |-> Never]]
    <2>1. {CharacterOf[i] : i \in isu} \in SUBSET Character
        BY IngestAssumption DEF ServerInv, TypeInv
    <2>2. w \in ViewerRecord
        BY <1>5, <2>1 DEF ViewerRecord
    <2>3. Sound(w, verified[v])
        BY <1>3, <1>6
    <2>4. /\ viewer' = [viewer EXCEPT ![v] = w]
          /\ verified' = verified /\ stored' = stored
          /\ UNCHANGED <<reader, seen, alarms>>
        BY <1>7 DEF StartTrend, server
    <2> HIDE DEF w, Sound
    <2> QED
        BY <1>2, <1>3, <1>4, <2>2, <2>3, <2>4
<1>8. CASE \E c \in Character : ReadIsuList(v, c)
    <2>1. PICK c \in Character : ReadIsuList(v, c)
        BY <1>8
    <2> DEFINE w == [state |-> "reading", characters |-> viewer[v].characters \ {c},
                     todo |-> {i \in isu : CharacterOf[i] = c}, trend |-> viewer[v].trend]
    <2>2. w \in ViewerRecord
        BY <1>3 DEF ServerInv, TypeInv, ViewerRecord
    <2>3. Sound(w, verified[v])
        BY <1>3, <1>6, <2>1 DEF ReadIsuList
    <2>4. /\ viewer' = [viewer EXCEPT ![v] = w]
          /\ verified' = verified /\ stored' = stored
          /\ UNCHANGED <<reader, seen, alarms>>
        BY <2>1 DEF ReadIsuList, server
    <2> HIDE DEF w, Sound
    <2> QED
        BY <1>2, <1>3, <1>4, <2>2, <2>3, <2>4
<1>9. CASE \E i \in Isu : ReadLatest(v, i)
    <2>1. PICK i \in Isu : ReadLatest(v, i)
        BY <1>9
    <2> DEFINE w == [state |-> "reading", characters |-> viewer[v].characters,
                     todo |-> viewer[v].todo \ {i},
                     trend |-> [viewer[v].trend EXCEPT ![i] = LatestOf(i, stored)]]
               known == verified[v]
    <2>2. ASSUME RowsOf(i, stored) = {} PROVE w \in ViewerRecord /\ Sound(w, known)
        <3>0. \A row \in stored : row[1] # i
            BY <2>2 DEF RowsOf
        <3>1. LatestOf(i, stored) = Never /\ known[i] = Never
            <4>1. LatestOf(i, stored) = Never
                BY <2>2 DEF LatestOf
            <4>2. known[i] # Never => <<i, known[i]>> \in stored
                BY <1>3
            <4> QED
                BY <3>0, <4>1, <4>2
        <3>2. w \in ViewerRecord
            BY <1>3, <3>1 DEF ViewerRecord, Latest
        <3>3. w.trend[i] = Never /\ \A j \in Isu \ {i} : w.trend[j] = viewer[v].trend[j]
            BY <1>3, <3>1 DEF ViewerRecord, Latest
        <3>4. Sound(w, known)
            BY <1>3, <2>1, <3>1, <3>3 DEF ReadLatest
        <3> QED
            BY <3>2, <3>4
    <2>3. ASSUME RowsOf(i, stored) # {} PROVE w \in ViewerRecord /\ Sound(w, known)
        <3>1. /\ LatestOf(i, stored) \in Timestamp
              /\ <<i, LatestOf(i, stored)>> \in stored
              /\ \A s \in Timestamp : <<i, s>> \in stored => ~Earlier(LatestOf(i, stored), s)
            BY <2>3, StoredRows, LatestIsLatest
        <3>2. w \in ViewerRecord
            BY <1>3, <3>1 DEF ViewerRecord, Latest
        <3>3. /\ w.trend[i] = LatestOf(i, stored)
              /\ \A j \in Isu \ {i} : w.trend[j] = viewer[v].trend[j]
            BY <1>3 DEF ViewerRecord, Latest
        <3>4. LatestOf(i, stored) # Never
            BY <3>1, IngestAssumption DEF Timestamp, Never
        <3>5. known[i] # Never => known[i] \in Timestamp /\ <<i, known[i]>> \in stored
            BY <1>3 DEF Latest
        <3>6. Sound(w, known)
            BY <1>3, <2>1, <3>1, <3>3, <3>4, <3>5 DEF ReadLatest
        <3> QED
            BY <3>2, <3>6
    <2>4. /\ viewer' = [viewer EXCEPT ![v] = w]
          /\ verified' = verified /\ stored' = stored
          /\ UNCHANGED <<reader, seen, alarms>>
        BY <2>1 DEF ReadLatest, server
    <2>5. w \in ViewerRecord /\ Sound(w, known)
        BY <2>2, <2>3
    <2> HIDE DEF w, Sound
    <2> QED
        BY <1>2, <1>3, <1>4, <2>4, <2>5
<1>10. CASE FinishTrend(v)
    <2> DEFINE trend == viewer[v].trend
               present == {i \in Isu : trend[i] # Never}
               before == {i \in Isu : verified[v][i] # Never}
               known == [i \in Isu |-> IF trend[i] = Never THEN verified[v][i] ELSE trend[i]]
    <2>1. \A i \in Isu :
             /\ trend[i] \in Timestamp \cup {Never} /\ verified[v][i] \in Timestamp \cup {Never}
             /\ trend[i] # Never => <<i, trend[i]>> \in stored
             /\ verified[v][i] # Never =>
                   trend[i] # Never /\ ~Earlier(trend[i], verified[v][i])
        BY <1>3, <1>10 DEF FinishTrend, ViewerRecord, Latest
    <2>2. \A i \in present : <<i, trend[i]>> \in Known(i)
        BY <2>1, StoredKnown
    <2>3. ~ \E i \in present : Earlier(trend[i], verified[v][i])
        <3> SUFFICES ASSUME NEW i \in Isu, trend[i] \in Timestamp, verified[v][i] = Never
                     PROVE  ~Earlier(trend[i], verified[v][i])
            BY <2>1
        <3> QED
            BY DEF Timestamp, Never, Earlier
    <2>4. Cardinality(present) >= Cardinality(before)
        <3>1. before \in SUBSET present
            BY <2>1
        <3>2. IsFiniteSet(present)
            BY FS_Subset, IngestAssumption
        <3>3. Cardinality(before) <= Cardinality(present) /\ IsFiniteSet(before)
            BY <3>1, <3>2, FS_Subset
        <3> QED
            BY <3>2, <3>3, FS_CardinalityType
    <2>5. alarms' = {}
        BY <1>10, <2>2, <2>3, <2>4 DEF FinishTrend
    <2>6. known \in Latest
        BY <2>1 DEF Latest
    <2>7. Sound(IdleViewer, known) /\ IdleViewer \in ViewerRecord
        BY <1>3, <1>5, <2>1 DEF IdleViewer, ViewerRecord
    <2>8. /\ viewer' = [viewer EXCEPT ![v] = IdleViewer]
          /\ verified' = [verified EXCEPT ![v] = known] /\ stored' = stored
          /\ UNCHANGED <<reader, seen>>
        BY <1>10 DEF FinishTrend, server
    <2> HIDE DEF known, Sound
    <2> QED
        BY <1>2, <2>5, <2>6, <2>7, <2>8
<1> QED
    BY <1>7, <1>8, <1>9, <1>10 DEF ViewerNext

----------------------------------------------------------------------------
(* Theorems. *)

\* The invariant is inductive.
LEMMA InvStep == IngestInv /\ [Next]_vars => IngestInv'
<1> SUFFICES ASSUME IngestInv, [Next]_vars PROVE IngestInv'
    OBVIOUS
<1>1. CASE UNCHANGED vars
    BY <1>1
    DEF vars, server, readers, IngestInv, ServerInv, TypeInv, SlotInv, RowsIn, ApartInv,
        Apart, LogInv, Unstored, Known, ReaderInv, ViewerInv, ViewerRecord
<1>2. CASE Next
    <2>1. ServerInv' /\ Growing
        BY <1>2, ServerStep DEF IngestInv
    <2>2. CASE UNCHANGED readers
        BY <2>1, <2>2, ReaderKept, ViewerKept DEF readers, IngestInv
    <2>3. CASE Crash
        <3>1. /\ reader' = [u \in Reader |-> IdleReader]
              /\ viewer' = [v \in Viewer |-> IdleViewer]
              /\ UNCHANGED <<seen, verified, alarms>>
            BY <2>3 DEF Crash
        <3>2. ReaderInv'
            BY <2>1, <3>1 DEF IngestInv, ReaderInv, IdleReader, Growing
        <3>3. ViewerInv'
            BY <2>1, <3>1 DEF IngestInv, ViewerInv, ViewerRecord, IdleViewer, Latest, Growing
        <3> QED
            BY <2>1, <3>1, <3>2, <3>3 DEF IngestInv
    <2>4. CASE \E u \in Reader : ReaderNext(u)
        BY <2>1, <2>4, ReaderStep, ViewerKept DEF IngestInv
    <2>5. CASE \E v \in Viewer : ViewerNext(v)
        BY <2>1, <2>5, ViewerStep, ReaderKept DEF IngestInv
    <2> QED
        BY <1>2, <2>2, <2>3, <2>4, <2>5, ServerStep DEF IngestInv
<1> QED
    BY <1>1, <1>2

\* In every reachable state, whatever the numbers of isu, requests and faults,
\* the inductive invariant holds.
THEOREM IngestInvHolds == Spec => []IngestInv
<1>1. Init => IngestInv
    BY ServerInit, ReadersInit DEF IngestInv
<1> QED
    BY <1>1, InvStep, PTL DEF Spec

\* No checked answer lacks a condition that was shown before or shows one that
\* was never sent.
THEOREM ShownStaysHolds == Spec => []ShownStays
<1>1. IngestInv => ShownStays
    BY DEF IngestInv, ShownStays
<1> QED
    BY <1>1, IngestInvHolds, PTL

\* No trend is older than the one before it, or has fewer isu.
THEOREM TrendGoesForwardHolds == Spec => []TrendGoesForward
<1>1. IngestInv => TrendGoesForward
    BY DEF IngestInv, TrendGoesForward
<1> QED
    BY <1>1, IngestInvHolds, PTL

\* Every stored condition is of a registered isu.
THEOREM NoOrphanConditionHolds == Spec => []NoOrphanCondition
<1>1. IngestInv => NoOrphanCondition
    BY DEF IngestInv, ServerInv, LogInv, Known, NoOrphanCondition
<1> QED
    BY <1>1, IngestInvHolds, PTL

\* No batch is in two transactions, or in one and stored already.
THEOREM StoredOnceHolds == Spec => []StoredOnce
<1>1. ASSUME IngestInv, NEW r \in Req PROVE tx[r] \cap stored = {}
    <2> SUFFICES ASSUME NEW row \in tx[r], row \in stored PROVE FALSE
        OBVIOUS
    <2>1. /\ row \in RowsIn(r) /\ pc[r] \notin {"free", "committed"}
        BY <1>1 DEF IngestInv, ServerInv, SlotInv
    <2>2. PICK i \in isu : row \in Known(i)
        BY <1>1 DEF IngestInv, ServerInv, LogInv
    <2>3. arg[r].batch # 0
        BY <2>1, <2>2 DEF RowsIn, BatchRows, Known
    <2> QED
        BY <1>1, <2>1, <2>3 DEF IngestInv, ServerInv, LogInv, Unstored
<1>2. ASSUME IngestInv, NEW r \in Req, NEW q \in Req \ {r}
      PROVE  tx[r] \cap tx[q] \subseteq Isu \X ({0} \X (1..BatchSize))
    <2> SUFFICES ASSUME NEW row \in tx[r], row \in tx[q]
                 PROVE  row \in Isu \X ({0} \X (1..BatchSize))
        OBVIOUS
    <2>1. row \in RowsIn(r) /\ row \in RowsIn(q) /\ pc[r] # "free" /\ pc[q] # "free"
        BY <1>2 DEF IngestInv, ServerInv, SlotInv
    <2>2. arg[r].isu = arg[q].isu /\ arg[r].batch = arg[q].batch
        BY <2>1 DEF RowsIn, BatchRows
    <2>3. arg[r].batch = 0 /\ arg[r].isu \in Isu
        BY <1>2, <2>1, <2>2
        DEF IngestInv, ServerInv, ApartInv, Apart, SlotInv, Batch
    <2> QED
        BY <2>1, <2>3 DEF RowsIn, BatchRows
<1>3. IngestInv => StoredOnce
    BY <1>1, <1>2 DEF StoredOnce
<1> QED
    BY <1>3, IngestInvHolds, PTL

\* A COMMIT appends a batch that was sent to the log, a POST sends one, and every
\* other step is a stutter of the log.
LEMMA RefineStep == IngestInv /\ [Next]_vars => [Log!Next]_<<posted, stored>>
<1> SUFFICES ASSUME IngestInv, Next PROVE [Log!Next]_<<posted, stored>>
    BY DEF vars, server
<1>1. ASSUME NEW i \in Isu, PosterNext(i) PROVE [Log!Next]_<<posted, stored>>
    <2>1. CASE \E r \in Req : PostBatch(i, r)
        <3>1. Log!Post(i)
            BY <2>1, RoomForBatch DEF IngestInv, ServerInv, PostBatch, Accept, Log!Post
        <3> QED
            BY <3>1 DEF Log!Next
    <2>2. CASE ~ \E r \in Req : PostBatch(i, r)
        BY <1>1, <2>2
        DEF PosterNext, Activate, CommitRegistration, PostMalformed, Accept, PosterTimeout, server
    <2> QED
        BY <2>1, <2>2
<1>2. ASSUME NEW r \in Req, Handler(r) PROVE [Log!Next]_<<posted, stored>>
    <2>1. CASE DbCommits(r)
        <3>1. /\ arg[r] \in Batch /\ arg[r].isu \in Isu /\ arg[r].batch # 0
              /\ arg[r].batch <= posted[arg[r].isu] /\ tx[r] = RowsIn(r)
              /\ stored \cap RowsIn(r) = {}
            BY <2>1
            DEF DbCommits, IngestInv, ServerInv, SlotInv, TypeInv, LogInv, Unstored
        <3>2. arg[r].batch \in 1..posted[arg[r].isu] /\ arg[r].batch \in 1..MaxBatch
            BY <3>1, IngestAssumption DEF Batch, IngestInv, ServerInv, TypeInv
        <3>3. Log!Append(arg[r].isu, arg[r].batch)
            BY <2>1, <3>1, <3>2 DEF DbCommits, RowsIn, BatchRows, Log!Append, Log!Batch
        <3> QED
            BY <3>1, <3>2, <3>3 DEF Log!Next
    <2>2. CASE ~DbCommits(r)
        BY <1>2, <2>2
        DEF Handler, Drop, GetConnection, GetConnectionRejects, BeginTransaction, RejectBody,
            IsuNotFound, IsuFound, InsertCondition, RejectFormat, SendCommit, AnswerAccepted, StepFails,
            LoseConnection, DbReaps, Finish, Proceed, AbandonAll
    <2> QED
        BY <2>1, <2>2
<1>3. CASE \/ \E u \in Reader : ReaderNext(u)
           \/ \E v \in Viewer : ViewerNext(v)
           \/ Crash
    BY <1>3
    DEF ReaderNext, StartRead, ReadSnapshot, FinishRead, ViewerNext, StartTrend, ReadIsuList,
        ReadLatest, FinishTrend, Crash, AbandonAll, server
<1> QED
    BY <1>1, <1>2, <1>3 DEF Next

\* The conditions the endpoints present are a log of whole batches: the handler,
\* its retries, failures and restarts implement the abstract log.
THEOREM IngestImplementsLog == Spec => ImplementsLog
<1>1. Init => Log!Init
    BY DEF Init, Log!Init
<1> QED
    BY <1>1, RefineStep, IngestInvHolds, PTL DEF Spec, ImplementsLog, Log!Spec

============================================================================
