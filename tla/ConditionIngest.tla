-------------------------- MODULE ConditionIngest --------------------------
(***************************************************************************)
(* POST /api/condition/:jia_isu_uuid of webapp/nodejs/src/app.ts and the   *)
(* endpoints that read what it stores, with the benchmarker around them:   *)
(* one poster per activated isu (bench/scenario/posting.go) that waits     *)
(* 100 ms for an answer and posts on, users that read the conditions and   *)
(* graphs of an isu and viewers that read the trend, each checking every   *)
(* answer against what it knows (bench/scenario/verify.go).                *)
(*                                                                         *)
(* A timestamp is <<b, k>>: the k-th condition of the poster's batch b.    *)
(* The poster's clock only goes forward, so the lexicographic order is the *)
(* order of the timestamps.                                                *)
(***************************************************************************)
EXTENDS Integers, FiniteSets

CONSTANTS
    Isu,        \* isu the benchmarker owns
    Character,  \* the characters the JIA gives to isu
    CharacterOf,  \* the character of each isu, constant at the JIA
    Reader,     \* users that read conditions and graphs, one request at a time
    Viewer,     \* visitors that read the trend
    Req,        \* slots for POST /api/condition requests being served
    BatchSize,  \* conditions in one POST (at most PostContentNum = 10)
    MaxBatch,   \* bound on the batches all posters send together
    ConnLimit,  \* connectionLimit of the pool
    MaxFaults,  \* bound on crashes and errors of one behaviour
    NoIsu, NoReq

ASSUME IngestAssumption ==
    /\ IsFiniteSet(Isu)
    /\ CharacterOf \in [Isu -> Character]
    /\ IsFiniteSet(Req) /\ IsFiniteSet(Reader) /\ IsFiniteSet(Viewer)
    /\ BatchSize \in Nat \ {0}
    /\ MaxBatch \in Nat
    /\ ConnLimit \in Nat
    /\ MaxFaults \in Nat
    /\ NoIsu \notin Isu /\ NoReq \notin Req

VARIABLES
    isu,        \* committed rows of table isu
    activated,  \* isu the JIA runs a poster for
    posted,     \* batches each poster has put in the benchmarker's model
    poster,     \* the slot each poster waits for, or NoReq
    stored,     \* committed rows of table isu_condition
    tx,         \* rows each open transaction has inserted, not yet committed
    pc,         \* where the handler serving each slot stands
    arg,        \* the batch each slot carries
    reader,     \* what each user is doing
    seen,       \* conditions a user was shown: those whose ReadTime is set
    viewer,     \* what each viewer is doing
    verified,   \* verifiedConditionsInTrend: latest timestamp per isu
    alarms,     \* complaints the checks of the benchmarker have raised
    faults      \* crashes and errors so far

server == <<isu, activated, stored, tx, pc, arg>>
readers == <<reader, seen, viewer, verified, alarms>>
vars == <<server, posted, poster, readers, faults>>

----------------------------------------------------------------------------
Timestamp == (1..MaxBatch) \X (1..BatchSize)
Row == Isu \X Timestamp
BatchRows(i, b) == {i} \X ({b} \X (1..BatchSize))

Never == <<0, 0>>     \* the zero timestamp: no condition yet
Earlier(s, t) == s[1] < t[1] \/ (s[1] = t[1] /\ s[2] < t[2])

RowsOf(i, rows) == {row \in rows : row[1] = i}

\* Mutant: ORDER BY `timestamp` ASC LIMIT 1
EarliestOf(i, rows) ==
    IF RowsOf(i, rows) = {} THEN Never
    ELSE CHOOSE t \in Timestamp :
            /\ <<i, t>> \in rows
            /\ \A s \in Timestamp : <<i, s>> \in rows => ~Earlier(s, t)

\* ORDER BY `timestamp` DESC LIMIT 1
LatestOf(i, rows) ==
    IF RowsOf(i, rows) = {} THEN Never
    ELSE CHOOSE t \in Timestamp :
            /\ <<i, t>> \in rows
            /\ \A s \in Timestamp : <<i, s>> \in rows => ~Earlier(t, s)

\* The conditions in the benchmarker's model of isu i (isu.Conditions).
Known(i) == {i} \X ((1..posted[i]) \X (1..BatchSize))

InTransaction == {"begin", "count", "insert", "commit"}
Holding == InTransaction \cup {"committed"}
Orphaned == {"orphan", "orphanCommit"}
PC == {"free", "accepted"} \cup Holding \cup Orphaned

\* `bad` is the position of a condition in the wrong format, 0 if none;
\* NoList is a body that is no list of conditions.
NoList == -1
NoArg == [isu |-> NoIsu, batch |-> 0, bad |-> 0]
Batch == [isu : Isu, batch : 0..MaxBatch, bad : {NoList} \cup (0..BatchSize)]

IdleReader == [state |-> "idle", isu |-> NoIsu, must |-> {}, page |-> {}]
\* `characters` are those whose isu are yet to be listed, `todo` the isu of the
\* list at hand yet to be looked at, `trend` what was found.
IdleViewer == [state |-> "idle", characters |-> {}, todo |-> {},
               trend |-> [i \in Isu |-> Never]]

Fault == faults < MaxFaults /\ faults' = faults + 1

\* pool.getConnection() waits until one of the connections is free.
InUse == Cardinality({r \in Req : pc[r] \in Holding})
       + Cardinality({u \in Reader : reader[u].state = "reading"})
       + Cardinality({v \in Viewer : viewer[v].state = "reading"})
ConnectionFree == InUse < ConnLimit

----------------------------------------------------------------------------
Init ==
    /\ isu = {}
    /\ activated = {}
    /\ posted = [i \in Isu |-> 0]
    /\ poster = [i \in Isu |-> NoReq]
    /\ stored = {}
    /\ tx = [r \in Req |-> {}]
    /\ pc = [r \in Req |-> "free"]
    /\ arg = [r \in Req |-> NoArg]
    /\ reader = [u \in Reader |-> IdleReader]
    /\ seen = {}
    /\ viewer = [v \in Viewer |-> IdleViewer]
    /\ verified = [v \in Viewer |-> [i \in Isu |-> Never]]
    /\ alarms = {}
    /\ faults = 0

----------------------------------------------------------------------------
(* Registration, as module IsuRegistry promises it: the JIA starts to post *)
(* while the registering transaction is still open.                        *)

Activate(i) ==
    /\ i \notin activated
    /\ activated' = activated \cup {i}
    /\ UNCHANGED <<isu, stored, tx, pc, arg, posted, poster, readers, faults>>

CommitRegistration(i) ==
    /\ i \in activated \ isu
    /\ isu' = isu \cup {i}
    /\ UNCHANGED <<activated, stored, tx, pc, arg, posted, poster, readers, faults>>

----------------------------------------------------------------------------
(* The posters. *)

Accept(r, batch) ==
    /\ pc[r] = "free"
    /\ pc' = [pc EXCEPT ![r] = "accepted"]
    /\ arg' = [arg EXCEPT ![r] = batch]
    /\ UNCHANGED <<isu, activated, stored, tx>>

\* The batches the posters have put in the benchmarker's model.
Sent == {batch \in Isu \X (1..MaxBatch) : batch[2] <= posted[batch[1]]}

\* keepPosting: AddIsuConditions to the benchmarker's model, then the POST.
PostBatch(i, r) ==
    /\ i \in activated
    /\ poster[i] = NoReq
    /\ Cardinality(Sent) < MaxBatch
    /\ posted' = [posted EXCEPT ![i] = posted[i] + 1]
    /\ Accept(r, [isu |-> i, batch |-> posted[i] + 1, bad |-> 0])
    /\ poster' = [poster EXCEPT ![i] = r]
    /\ UNCHANGED <<readers, faults>>

\* Somebody posts what is no list, or conditions of which one has the wrong
\* format; they are in nobody's model.
PostMalformed(i, r, bad) ==
    /\ Accept(r, [isu |-> i, batch |-> 0, bad |-> bad])
    /\ Fault
    /\ UNCHANGED <<posted, poster, readers>>

\* postConditionTimeout: the poster goes on, the handler does not learn of it.
PosterTimeout(i) ==
    /\ poster[i] # NoReq
    /\ poster' = [poster EXCEPT ![i] = NoReq]
    /\ UNCHANGED <<server, posted, readers, faults>>

----------------------------------------------------------------------------
(* The handler. *)

\* Whatever the answer, keepPosting ignores it.
Answered(R) ==
    poster' = [i \in Isu |-> IF poster[i] \in R THEN NoReq ELSE poster[i]]

\* An answer without (or after rollback of) a transaction.
Finish(r) ==
    /\ pc' = [pc EXCEPT ![r] = "free"]
    /\ tx' = [tx EXCEPT ![r] = {}]
    /\ arg' = [arg EXCEPT ![r] = NoArg]
    /\ Answered({r})
    /\ UNCHANGED <<isu, activated, stored, posted, readers>>

Proceed(r, next) ==
    /\ pc' = [pc EXCEPT ![r] = next]
    /\ UNCHANGED <<isu, activated, stored, arg, posted, poster, readers, faults>>

\* dropProbability: 202 at once, nothing stored.
Drop(r) ==
    /\ pc[r] = "accepted"
    /\ Finish(r)
    /\ UNCHANGED faults

\* The pool's getConnection and the check of the body.
GetConnection(r) ==
    /\ pc[r] = "accepted"
    /\ ConnectionFree
    /\ arg[r].bad # NoList
    /\ Proceed(r, "begin")
    /\ UNCHANGED tx

BeginTransaction(r) ==
    /\ pc[r] = "begin"
    /\ Proceed(r, "count")
    /\ UNCHANGED tx

\* isValidPostIsuConditionRequest, asked with a connection in hand: 400.
RejectBody(r) ==
    /\ pc[r] = "accepted"
    /\ ConnectionFree
    /\ arg[r].bad = NoList
    /\ Finish(r)
    /\ UNCHANGED faults

\* SELECT COUNT(*) FROM `isu`: no row, rollback and 404.
IsuNotFound(r) ==
    /\ pc[r] = "count"
    /\ arg[r].isu \notin isu
    /\ Finish(r)
    /\ UNCHANGED faults

\* Mutant: the isu is not looked up.
IsuFoundUnchecked(r) ==
    /\ pc[r] = "count"
    /\ Proceed(r, "insert")
    /\ UNCHANGED tx

IsuFound(r) ==
    /\ pc[r] = "count"
    /\ arg[r].isu \in isu
    /\ Proceed(r, "insert")
    /\ UNCHANGED tx

\* Position of the condition the loop has come to.
NextIndex(r) == Cardinality(tx[r]) + 1

\* Mutant: no transaction, every INSERT commits by itself.
InsertConditionAutocommit(r) ==
    /\ pc[r] = "insert"
    /\ NextIndex(r) <= BatchSize
    /\ NextIndex(r) # arg[r].bad
    /\ LET row == <<arg[r].isu, <<arg[r].batch, NextIndex(r)>>>>
       IN  /\ stored' = stored \cup {row}
           /\ tx' = [tx EXCEPT ![r] = tx[r] \cup {row}]
    /\ UNCHANGED <<isu, activated, pc, arg, posted, poster, readers, faults>>

\* INSERT INTO `isu_condition`.
InsertCondition(r) ==
    /\ pc[r] = "insert"
    /\ NextIndex(r) <= BatchSize
    /\ NextIndex(r) # arg[r].bad
    /\ tx' = [tx EXCEPT ![r] =
                tx[r] \cup {<<arg[r].isu, <<arg[r].batch, NextIndex(r)>>>>}]
    /\ UNCHANGED <<isu, activated, stored, pc, arg, posted, poster, readers, faults>>

\* isValidConditionFormat fails in the middle of the batch: rollback, 400.
RejectFormat(r) ==
    /\ pc[r] = "insert"
    /\ NextIndex(r) = arg[r].bad
    /\ Finish(r)
    /\ UNCHANGED faults

\* The loop is over; COMMIT is sent.
SendCommit(r) ==
    /\ pc[r] = "insert"
    /\ NextIndex(r) > BatchSize
    /\ Proceed(r, "commit")
    /\ UNCHANGED tx

DbCommits(r) ==
    /\ pc[r] \in {"commit", "orphanCommit"}
    /\ stored' = stored \cup tx[r]
    /\ tx' = [tx EXCEPT ![r] = {}]
    /\ pc' = [pc EXCEPT ![r] = IF pc[r] = "commit" THEN "committed" ELSE "free"]
    /\ arg' = [arg EXCEPT ![r] = IF pc[r] = "commit" THEN arg[r] ELSE NoArg]
    /\ UNCHANGED <<isu, activated, posted, poster, readers, faults>>

\* 202, the connection released.
AnswerAccepted(r) ==
    /\ pc[r] = "committed"
    /\ Finish(r)
    /\ UNCHANGED faults

\* A statement fails, the connection alive: rollback, 500.
StepFails(r) ==
    /\ pc[r] \in InTransaction
    /\ Fault
    /\ Finish(r)

----------------------------------------------------------------------------
(* GET /api/condition/:jia_isu_uuid, GET /api/isu/:jia_isu_uuid/graph: the *)
(* rows of an isu in one consistent read.  The first selects them in one   *)
(* autocommitted statement; the second counts the isu and selects them in  *)
(* one transaction, whose snapshot is that of the count.                   *)

\* requestTimeUnix is read before the request is sent: what had a ReadTime
\* by then must be in the answer.
StartRead(u, i) ==
    /\ reader[u].state = "idle"
    /\ i \in isu
    /\ reader' = [reader EXCEPT ![u] =
            [state |-> "sent", isu |-> i, must |-> RowsOf(i, seen), page |-> {}]]
    /\ UNCHANGED <<server, posted, poster, seen, viewer, verified, alarms, faults>>

\* Mutant: READ UNCOMMITTED.
ReadSnapshotDirty(u) ==
    /\ reader[u].state = "sent"
    /\ ConnectionFree
    /\ reader' = [reader EXCEPT ![u] =
            [state |-> "reading", isu |-> reader[u].isu, must |-> reader[u].must,
             page |-> RowsOf(reader[u].isu, stored \cup UNION {tx[r] : r \in Req})]]
    /\ UNCHANGED <<server, posted, poster, seen, viewer, verified, alarms, faults>>

ReadSnapshot(u) ==
    /\ reader[u].state = "sent"
    /\ ConnectionFree
    /\ reader' = [reader EXCEPT ![u] =
            [state |-> "reading", isu |-> reader[u].isu, must |-> reader[u].must,
             page |-> RowsOf(reader[u].isu, stored)]]
    /\ UNCHANGED <<server, posted, poster, seen, viewer, verified, alarms, faults>>

\* verifyIsuConditions and verifyGraph on the answer.
FinishRead(u) ==
    /\ reader[u].state = "reading"
    /\ LET i == reader[u].isu
           page == reader[u].page
           complaints ==
               (IF page \subseteq Known(i) THEN {} ELSE {"unknown condition"})
               \cup (IF reader[u].must \subseteq page THEN {} ELSE {"lost condition"})
       IN  /\ alarms' = alarms \cup complaints
           /\ seen' = seen \cup page
    /\ reader' = [reader EXCEPT ![u] = IdleReader]
    /\ UNCHANGED <<server, posted, poster, viewer, verified, faults>>

----------------------------------------------------------------------------
(* GET /api/trend: no transaction; a statement for the characters, one per *)
(* character for its isu, and one per isu for its conditions.              *)

\* The characters of the isu committed when they are read.
StartTrend(v) ==
    /\ viewer[v].state = "idle"
    /\ ConnectionFree
    /\ viewer' = [viewer EXCEPT ![v] =
            [state |-> "reading", characters |-> {CharacterOf[i] : i \in isu},
             todo |-> {}, trend |-> [i \in Isu |-> Never]]]
    /\ UNCHANGED <<server, posted, poster, reader, seen, verified, alarms, faults>>

\* The isu of the next character: those committed by now.
ReadIsuList(v, c) ==
    /\ viewer[v].state = "reading"
    /\ c \in viewer[v].characters /\ viewer[v].todo = {}
    /\ viewer' = [viewer EXCEPT ![v] =
            [state |-> "reading", characters |-> viewer[v].characters \ {c},
             todo |-> {i \in isu : CharacterOf[i] = c}, trend |-> viewer[v].trend]]
    /\ UNCHANGED <<server, posted, poster, reader, seen, verified, alarms, faults>>

\* The latest condition of the next isu of the list.
ReadLatest(v, i) ==
    /\ viewer[v].state = "reading"
    /\ i \in viewer[v].todo
    /\ viewer' = [viewer EXCEPT ![v] =
            [state |-> "reading", characters |-> viewer[v].characters,
             todo |-> viewer[v].todo \ {i},
             trend |-> [viewer[v].trend EXCEPT ![i] = LatestOf(i, stored)]]]
    /\ UNCHANGED <<server, posted, poster, reader, seen, verified, alarms, faults>>

\* verifyTrend: every timestamp is one of the model, none is older than the
\* one verified before, and no fewer isu than before have one.
FinishTrend(v) ==
    /\ viewer[v].state = "reading"
    /\ viewer[v].characters = {} /\ viewer[v].todo = {}
    /\ LET trend == viewer[v].trend
           present == {i \in Isu : trend[i] # Never}
           before == {i \in Isu : verified[v][i] # Never}
           complaints ==
               (IF \A i \in present : <<i, trend[i]>> \in Known(i)
                THEN {} ELSE {"unknown condition"})
               \cup (IF \E i \in present : Earlier(trend[i], verified[v][i])
                     THEN {"trend went back"} ELSE {})
               \cup (IF Cardinality(present) >= Cardinality(before)
                     THEN {} ELSE {"isu missing"})
       IN  /\ alarms' = alarms \cup complaints
           /\ verified' = [verified EXCEPT ![v] =
                [i \in Isu |-> IF trend[i] = Never THEN verified[v][i] ELSE trend[i]]]
    /\ viewer' = [viewer EXCEPT ![v] = IdleViewer]
    /\ UNCHANGED <<server, posted, poster, reader, seen, faults>>

----------------------------------------------------------------------------
(* Failures below the handlers. *)

Abandon(p) ==
    CASE p = "commit" -> "orphanCommit"
      [] p \in InTransaction \ {"commit"} -> "orphan"
      [] p \in Orphaned -> p
      [] OTHER -> "free"

AbandonAll(R) ==
    /\ pc' = [r \in Req |-> IF r \in R THEN Abandon(pc[r]) ELSE pc[r]]
    /\ arg' = [r \in Req |->
                 IF r \in R /\ Abandon(pc[r]) = "free" THEN NoArg ELSE arg[r]]
    /\ Answered(R)
    /\ UNCHANGED <<isu, activated, stored, tx, posted>>

\* The handler's connection dies; its catch block's rollback rejects.
LoseConnection(r) ==
    /\ pc[r] \in Holding
    /\ Fault
    /\ AbandonAll({r})
    /\ UNCHANGED readers

\* getConnection rejects before the try: no answer is ever sent.
GetConnectionRejects(r) ==
    /\ pc[r] = "accepted"
    /\ Fault
    /\ AbandonAll({r})
    /\ UNCHANGED readers

\* The node process dies and is restarted: no pending answer will come.
Crash ==
    /\ Fault
    /\ AbandonAll(Req)
    /\ reader' = [u \in Reader |-> IdleReader]
    /\ viewer' = [v \in Viewer |-> IdleViewer]
    /\ UNCHANGED <<seen, verified, alarms>>

\* MySQL rolls back the transaction of a session that is gone.
DbReaps(r) ==
    /\ pc[r] \in Orphaned
    /\ pc' = [pc EXCEPT ![r] = "free"]
    /\ tx' = [tx EXCEPT ![r] = {}]
    /\ arg' = [arg EXCEPT ![r] = NoArg]
    /\ UNCHANGED <<isu, activated, stored, posted, poster, readers, faults>>

----------------------------------------------------------------------------
PosterNext(i) ==
    \/ Activate(i)
    \/ CommitRegistration(i)
    \/ \E r \in Req : PostBatch(i, r)
    \/ \E r \in Req, bad \in {NoList} \cup (1..BatchSize) : PostMalformed(i, r, bad)
    \/ PosterTimeout(i)

Handler(r) ==
    \/ Drop(r)
    \/ GetConnection(r)
    \/ BeginTransaction(r)
    \/ GetConnectionRejects(r)
    \/ RejectBody(r)
    \/ IsuNotFound(r)
    \/ IsuFound(r)
    \/ InsertCondition(r)
    \/ RejectFormat(r)
    \/ SendCommit(r)
    \/ DbCommits(r)
    \/ AnswerAccepted(r)
    \/ StepFails(r)
    \/ LoseConnection(r)
    \/ DbReaps(r)

ReaderNext(u) ==
    \/ \E i \in Isu : StartRead(u, i)
    \/ ReadSnapshot(u)
    \/ FinishRead(u)

ViewerNext(v) ==
    \/ StartTrend(v)
    \/ \E c \in Character : ReadIsuList(v, c)
    \/ \E i \in Isu : ReadLatest(v, i)
    \/ FinishTrend(v)

Next ==
    \/ \E i \in Isu : PosterNext(i)
    \/ \E r \in Req : Handler(r)
    \/ \E u \in Reader : ReaderNext(u)
    \/ \E v \in Viewer : ViewerNext(v)
    \/ Crash

Spec == Init /\ [][Next]_vars

----------------------------------------------------------------------------
(* Properties. *)

\* Rows, batches, transactions and the checks' memories keep their types; a
\* refused batch (number 0) is never stored.
TypeOK ==
    /\ isu \subseteq activated /\ activated \subseteq Isu
    /\ posted \in [Isu -> 0..MaxBatch]
    /\ poster \in [Isu -> Req \cup {NoReq}]
    /\ stored \subseteq Row
    /\ tx \in [Req -> SUBSET (Isu \X ((0..MaxBatch) \X (1..BatchSize)))]
    /\ pc \in [Req -> PC]
    /\ arg \in [Req -> Batch \cup {NoArg}]
    /\ reader \in [Reader -> [state : {"idle", "sent", "reading"},
                              isu : Isu \cup {NoIsu},
                              must : SUBSET Row, page : SUBSET Row]]
    /\ seen \subseteq Row
    /\ viewer \in [Viewer -> [state : {"idle", "reading"},
                              characters : SUBSET Character, todo : SUBSET Isu,
                              trend : [Isu -> Timestamp \cup {Never}]]]
    /\ verified \in [Viewer -> [Isu -> Timestamp \cup {Never}]]
    /\ alarms \subseteq {"unknown condition", "lost condition",
                         "trend went back", "isu missing"}
    /\ faults \in 0..MaxFaults

\* No answer shows a condition the isu's poster has not put in the model, and
\* a condition some answer has shown is in every answer to a later request,
\* by whichever endpoint, across batches that commit late and out of order,
\* failed handlers and restarts.
ShownStays == alarms \cap {"unknown condition", "lost condition"} = {}

\* The trend, read by many statements while batches commit, never shows a
\* viewer an older latest condition than before, nor fewer isu.
TrendGoesForward == alarms \cap {"trend went back", "isu missing"} = {}

\* A condition is only ever stored for an isu that is registered: a batch
\* that arrives while the registration is still open is refused.
NoOrphanCondition == \A row \in stored : row[1] \in isu

\* What an open transaction will commit is still to come: no batch is stored
\* twice and none is in two transactions, however late a timed-out request
\* is served.
StoredOnce ==
    \A r \in Req :
        /\ tx[r] \cap stored = {}
        /\ \A q \in Req \ {r} : tx[r] \cap tx[q] \subseteq Isu \X ({0} \X (1..BatchSize))

\* The log of conditions the endpoints present: whole batches, only added.
Log == INSTANCE ConditionLog
ImplementsLog == Log!Spec

============================================================================
