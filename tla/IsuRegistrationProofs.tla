----------------------- MODULE IsuRegistrationProofs -----------------------
(***************************************************************************)
(* Proofs about IsuRegistration, for any sets of users, isu and request    *)
(* slots, any connection limit and any number of faults.                   *)
(***************************************************************************)
EXTENDS IsuRegistration, FiniteSetTheorems, TLAPS

----------------------------------------------------------------------------
(* Type correctness. *)

\* The sizes of the pool: a connection more fits below the limit.
LEMMA PoolGrows ==
    ASSUME NEW S \in SUBSET Req, NEW r \in Req, Cardinality(S) < ConnLimit
    PROVE  Cardinality(S \cup {r}) <= ConnLimit
<1>1. IsFiniteSet(S)
    BY FS_Subset, ConfigAssumption
<1>2. Cardinality(S) \in Nat
    BY <1>1, FS_CardinalityType
<1>3. Cardinality(S \cup {r}) \in {Cardinality(S), Cardinality(S) + 1}
    BY <1>1, <1>2, FS_AddElement
<1> QED
    BY <1>2, <1>3, ConfigAssumption

\* Giving connections back leaves the pool within its limit.
LEMMA PoolShrinks ==
    ASSUME NEW S \in SUBSET Req, NEW T, Cardinality(S) <= ConnLimit
    PROVE  Cardinality(S \ T) <= ConnLimit
<1>1. IsFiniteSet(S)
    BY FS_Subset, ConfigAssumption
<1>2. IsFiniteSet(S \ T) /\ Cardinality(S \ T) <= Cardinality(S)
    BY <1>1, FS_Subset
<1>3. Cardinality(S \ T) \in Nat /\ Cardinality(S) \in Nat
    BY <1>1, <1>2, FS_CardinalityType
<1> QED
    BY <1>2, <1>3, ConfigAssumption

\* The tables are empty, every slot is free.
LEMMA TypeInit == Init => TypeOK
<1>1. Cardinality({}) = 0
    BY FS_EmptySet
<1> QED
    BY <1>1, ConfigAssumption
    DEF Init, TypeOK, Row, NoRow, NoArg, PC, IdleClient, ClientState

\* An answer frees the slot and its connection, within the types.
LEMMA TypeFinish ==
    ASSUME TypeOK, NEW r \in Req, NEW status, pc[r] # "free",
           arg[r].user \in User, arg[r].uuid \in Isu,
           Finish(r, status), faults' \in 0..MaxFaults
    PROVE  TypeOK'
<1>1. Cardinality(pool') <= ConnLimit
    BY PoolShrinks DEF TypeOK, Finish
<1>2. client' \in [User -> [state : ClientState, uuid : Isu \cup {NoIsu},
                            req : Req \cup {NoReq}]]
    BY DEF TypeOK, Finish, Deliver, Settled, ClientState
<1>3. answers' \subseteq Answer
    BY DEF TypeOK, Finish, Answer
<1> QED
    BY <1>1, <1>2, <1>3 DEF TypeOK, Finish, NoArg, PC

\* What a slot becomes when its process or connection is gone.
LEMMA AbandonFacts ==
    ASSUME NEW p \in PC
    PROVE  /\ Abandon(p) \in {"free"} \cup Orphaned
           /\ Abandon(p) = "orphanCommit" <=> p \in {"commit", "orphanCommit"}
           /\ Abandon(p) = "free" <=> p \notin InTransaction \cup Orphaned
BY DEF Abandon, PC, Holding, InTransaction, Orphaned, Authenticating

\* So does the loss of connections, of one or of all handlers.
LEMMA TypeAbandon ==
    ASSUME TypeOK, NEW R \in SUBSET Req, NEW late \in SUBSET InFlight(R),
           AbandonAll(R), activated' = activated \cup late, Fault,
           UNCHANGED <<user, isu, tx, client, answers>>
    PROVE  TypeOK'
<1>1. pc' \in [Req -> PC]
    BY AbandonFacts DEF TypeOK, AbandonAll, PC
<1>2. arg' \in [Req -> [user : User \cup {NoUser}, uuid : Isu \cup {NoIsu}]]
    BY DEF TypeOK, AbandonAll, NoArg
<1>3. pool' \subseteq Req /\ Cardinality(pool') <= ConnLimit
    BY PoolShrinks DEF TypeOK, AbandonAll
<1>4. activated' \subseteq KnownIsu
    BY DEF TypeOK, InFlight
<1>5. faults' \in 0..MaxFaults
    BY ConfigAssumption DEF TypeOK, Fault
<1> QED
    BY <1>1, <1>2, <1>3, <1>4, <1>5 DEF TypeOK

\* Each action keeps the types.
LEMMA TypeStep == ASSUME IndInv, Next PROVE TypeOK'
<1> USE DEF IndInv, TypeOK, ArgsInv
<1>1. ASSUME NEW u \in User, ClientNext(u) PROVE TypeOK'
  <2>1. ASSUME NEW i \in Isu, NEW r \in Req, StartRegister(u, i, r) PROVE TypeOK'
    BY <2>1 DEF StartRegister, Send, ClientState, PC
  <2>2. ASSUME NEW r \in Req, Retry(u, r) PROVE TypeOK'
    BY <2>2 DEF Retry, Send, ClientState, PC
  <2>3. ASSUME ShowError(u) PROVE TypeOK'
    BY <2>3 DEF ShowError, IdleClient, ClientState
  <2>4. ASSUME ClientTimeout(u) PROVE TypeOK'
    BY <2>4, ConfigAssumption DEF ClientTimeout, StopWaiting, Settled, Fault, ClientState
  <2>5. ASSUME ClientUnanswered(u) PROVE TypeOK'
    BY <2>5 DEF ClientUnanswered, StopWaiting, Settled, ClientState
  <2>6. ASSUME ConfirmFound(u) PROVE TypeOK'
    BY <2>6 DEF ConfirmFound, Settled, ClientState
  <2>7. ASSUME ConfirmNotFound(u) PROVE TypeOK'
    BY <2>7 DEF ConfirmNotFound, IdleClient, ClientState
  <2>8. ASSUME PostAuth(u) PROVE TypeOK'
    BY <2>8 DEF PostAuth
  <2> QED
    BY <1>1, <2>1, <2>2, <2>3, <2>4, <2>5, <2>6, <2>7, <2>8 DEF ClientNext
<1>2. ASSUME NEW r \in Req, Handler(r) PROVE TypeOK'
  <2>1. CASE GetConnection(r)
    BY <2>1, PoolGrows DEF GetConnection, PC, Holding, Authenticating
  <2>2. CASE GetConnectionRejects(r)
    BY <2>2, ConfigAssumption DEF GetConnectionRejects, Fault, PC, NoArg
  <2>3. CASE AuthFails(r)
    BY <2>3, TypeFinish, ConfigAssumption DEF AuthFails
  <2>4. CASE AuthSucceeds(r)
    BY <2>4 DEF AuthSucceeds, Proceed, PC, Holding, InTransaction
  <2>5. CASE Insert(r)
    BY <2>5 DEF Insert, Proceed, Row, PC, Holding, InTransaction
  <2>6. CASE InsertDuplicate(r)
    BY <2>6, TypeFinish, ConfigAssumption DEF InsertDuplicate
  <2>7. CASE RequestActivation(r)
    BY <2>7 DEF RequestActivation, Proceed, PC, Holding, InTransaction
  <2>8. CASE JiaActivates(r)
    BY <2>8 DEF JiaActivates, PC, Holding, InTransaction
  <2>9. CASE JiaRefuses(r)
    BY <2>9, TypeFinish, ConfigAssumption DEF JiaRefuses
  <2>10. CASE ReceiveCharacter(r)
    BY <2>10 DEF ReceiveCharacter, Proceed, PC, Holding, InTransaction
  <2>11. CASE UpdateCharacter(r)
    BY <2>11, ConfigAssumption DEF UpdateCharacter, Proceed, Row, PC, Holding, InTransaction, ProgressInv, LockInv, RowLocked
  <2>12. CASE DbCommits(r)
    BY <2>12 DEF DbCommits, PC, Holding, NoArg
  <2>13. CASE AnswerCreated(r)
    BY <2>13, TypeFinish, ConfigAssumption DEF AnswerCreated
  <2>14. CASE StepFails(r)
    BY <2>14, TypeFinish, ConfigAssumption DEF StepFails, Fault, Authenticating, InTransaction
  <2> QED
    BY <1>2, <2>1, <2>2, <2>3, <2>4, <2>5, <2>6, <2>7, <2>8, <2>9, <2>10, <2>11, <2>12, <2>13, <2>14 DEF Handler
<1>3. ASSUME NEW r \in Req, Failure(r) PROVE TypeOK'
  <2>1. CASE LoseConnection(r)
    BY <2>1, TypeAbandon DEF LoseConnection
  <2>2. CASE DbReaps(r)
    BY <2>2 DEF DbReaps, PC, NoArg
  <2> QED
    BY <1>3, <2>1, <2>2 DEF Failure
<1>4. CASE Crash
  BY <1>4, TypeAbandon DEF Crash
<1> QED
  BY <1>1, <1>2, <1>3, <1>4 DEF Next

\* A connection is in use exactly while its handler is between getConnection
\* and the finally block.
LEMMA LeakStep == ASSUME IndInv, Next PROVE NoConnectionLeak'
<1> USE DEF IndInv, TypeOK
<1>1. ASSUME NEW u \in User, ClientNext(u) PROVE NoConnectionLeak'
  <2>1. ASSUME NEW i \in Isu, NEW r \in Req, StartRegister(u, i, r) PROVE NoConnectionLeak'
    BY <2>1 DEF StartRegister, Send, NoConnectionLeak, Holding, InTransaction, Authenticating
  <2>2. ASSUME NEW r \in Req, Retry(u, r) PROVE NoConnectionLeak'
    BY <2>2 DEF Retry, Send, NoConnectionLeak, Holding, InTransaction, Authenticating
  <2>3. ASSUME ShowError(u) PROVE NoConnectionLeak'
    BY <2>3 DEF ShowError, NoConnectionLeak
  <2>4. ASSUME ClientTimeout(u) PROVE NoConnectionLeak'
    BY <2>4 DEF ClientTimeout, StopWaiting, NoConnectionLeak
  <2>5. ASSUME ClientUnanswered(u) PROVE NoConnectionLeak'
    BY <2>5 DEF ClientUnanswered, StopWaiting, NoConnectionLeak
  <2>6. ASSUME ConfirmFound(u) PROVE NoConnectionLeak'
    BY <2>6 DEF ConfirmFound, NoConnectionLeak
  <2>7. ASSUME ConfirmNotFound(u) PROVE NoConnectionLeak'
    BY <2>7 DEF ConfirmNotFound, NoConnectionLeak
  <2>8. ASSUME PostAuth(u) PROVE NoConnectionLeak'
    BY <2>8 DEF PostAuth, NoConnectionLeak
  <2> QED
    BY <1>1, <2>1, <2>2, <2>3, <2>4, <2>5, <2>6, <2>7, <2>8 DEF ClientNext
<1>2. ASSUME NEW r \in Req, Handler(r) PROVE NoConnectionLeak'
  <2>1. CASE GetConnection(r)
    BY <2>1, TypeStep DEF GetConnection, NoConnectionLeak, PC, Orphaned
  <2>2. CASE GetConnectionRejects(r)
    BY <2>2 DEF GetConnectionRejects, NoConnectionLeak, Holding, InTransaction, Authenticating
  <2>3. CASE AuthFails(r)
    BY <2>3 DEF AuthFails, Finish, NoConnectionLeak, Holding, InTransaction, Authenticating
  <2>4. CASE AuthSucceeds(r)
    BY <2>4, TypeStep DEF AuthSucceeds, Proceed, NoConnectionLeak, PC, Orphaned
  <2>5. CASE Insert(r)
    BY <2>5 DEF Insert, Proceed, NoConnectionLeak, Holding, InTransaction
  <2>6. CASE InsertDuplicate(r)
    BY <2>6 DEF InsertDuplicate, Finish, NoConnectionLeak, Holding, InTransaction, Authenticating
  <2>7. CASE RequestActivation(r)
    BY <2>7 DEF RequestActivation, Proceed, NoConnectionLeak, Holding, InTransaction
  <2>8. CASE JiaActivates(r)
    BY <2>8 DEF JiaActivates, NoConnectionLeak, Holding, InTransaction
  <2>9. CASE JiaRefuses(r)
    BY <2>9 DEF JiaRefuses, Finish, NoConnectionLeak, Holding, InTransaction, Authenticating
  <2>10. CASE ReceiveCharacter(r)
    BY <2>10 DEF ReceiveCharacter, Proceed, NoConnectionLeak, Holding, InTransaction
  <2>11. CASE UpdateCharacter(r)
    BY <2>11 DEF UpdateCharacter, Proceed, NoConnectionLeak, Holding, InTransaction
  <2>12. CASE DbCommits(r)
    BY <2>12 DEF DbCommits, NoConnectionLeak, Holding, InTransaction, Authenticating
  <2>13. CASE AnswerCreated(r)
    BY <2>13 DEF AnswerCreated, Finish, NoConnectionLeak, Holding, InTransaction, Authenticating
  <2>14. CASE StepFails(r)
    BY <2>14 DEF StepFails, Finish, Authenticating, InTransaction, NoConnectionLeak, Holding
  <2> QED
    BY <1>2, <2>1, <2>2, <2>3, <2>4, <2>5, <2>6, <2>7, <2>8, <2>9, <2>10, <2>11, <2>12, <2>13, <2>14 DEF Handler
<1>3. ASSUME NEW r \in Req, Failure(r) PROVE NoConnectionLeak'
  <2>1. CASE LoseConnection(r)
    BY <2>1, AbandonFacts DEF LoseConnection, AbandonAll, InTransaction, NoConnectionLeak, Holding, Authenticating, Orphaned
  <2>2. CASE DbReaps(r)
    BY <2>2 DEF DbReaps, Orphaned, NoConnectionLeak, Holding, InTransaction, Authenticating
  <2> QED
    BY <1>3, <2>1, <2>2 DEF Failure
<1>4. CASE Crash
  BY <1>4, AbandonFacts DEF Crash, AbandonAll, NoConnectionLeak, Holding, InTransaction, Authenticating, Orphaned
<1> QED
  BY <1>1, <1>2, <1>3, <1>4 DEF Next

\* Only its own request fills a slot.
LEMMA ArgsStep == ASSUME IndInv, Next PROVE ArgsInv'
<1> USE DEF IndInv, TypeOK, ArgsInv
<1>1. ASSUME NEW u \in User, ClientNext(u) PROVE ArgsInv'
  <2>1. ASSUME NEW i \in Isu, NEW r \in Req, StartRegister(u, i, r) PROVE ArgsInv'
    BY <2>1 DEF StartRegister, Send
  <2>2. ASSUME NEW r \in Req, Retry(u, r) PROVE ArgsInv'
    BY <2>2 DEF Retry, Send, ClientInv
  <2>3. ASSUME ShowError(u) PROVE ArgsInv'
    BY <2>3 DEF ShowError
  <2>4. ASSUME ClientTimeout(u) PROVE ArgsInv'
    BY <2>4 DEF ClientTimeout, StopWaiting
  <2>5. ASSUME ClientUnanswered(u) PROVE ArgsInv'
    BY <2>5 DEF ClientUnanswered, StopWaiting
  <2>6. ASSUME ConfirmFound(u) PROVE ArgsInv'
    BY <2>6 DEF ConfirmFound
  <2>7. ASSUME ConfirmNotFound(u) PROVE ArgsInv'
    BY <2>7 DEF ConfirmNotFound
  <2>8. ASSUME PostAuth(u) PROVE ArgsInv'
    BY <2>8 DEF PostAuth
  <2> QED
    BY <1>1, <2>1, <2>2, <2>3, <2>4, <2>5, <2>6, <2>7, <2>8 DEF ClientNext
<1>2. ASSUME NEW r \in Req, Handler(r) PROVE ArgsInv'
  <2>1. CASE GetConnection(r)
    BY <2>1 DEF GetConnection
  <2>2. CASE GetConnectionRejects(r)
    BY <2>2 DEF GetConnectionRejects
  <2>3. CASE AuthFails(r)
    BY <2>3 DEF AuthFails, Finish
  <2>4. CASE AuthSucceeds(r)
    BY <2>4 DEF AuthSucceeds, Proceed
  <2>5. CASE Insert(r)
    BY <2>5 DEF Insert, Proceed
  <2>6. CASE InsertDuplicate(r)
    BY <2>6 DEF InsertDuplicate, Finish
  <2>7. CASE RequestActivation(r)
    BY <2>7 DEF RequestActivation, Proceed
  <2>8. CASE JiaActivates(r)
    BY <2>8 DEF JiaActivates
  <2>9. CASE JiaRefuses(r)
    BY <2>9 DEF JiaRefuses, Finish
  <2>10. CASE ReceiveCharacter(r)
    BY <2>10 DEF ReceiveCharacter, Proceed
  <2>11. CASE UpdateCharacter(r)
    BY <2>11 DEF UpdateCharacter, Proceed
  <2>12. CASE DbCommits(r)
    BY <2>12 DEF DbCommits
  <2>13. CASE AnswerCreated(r)
    BY <2>13 DEF AnswerCreated, Finish
  <2>14. CASE StepFails(r)
    BY <2>14 DEF StepFails, Finish
  <2> QED
    BY <1>2, <2>1, <2>2, <2>3, <2>4, <2>5, <2>6, <2>7, <2>8, <2>9, <2>10, <2>11, <2>12, <2>13, <2>14 DEF Handler
<1>3. ASSUME NEW r \in Req, Failure(r) PROVE ArgsInv'
  <2>1. CASE LoseConnection(r)
    BY <2>1 DEF LoseConnection, AbandonAll, InTransaction
  <2>2. CASE DbReaps(r)
    BY <2>2 DEF DbReaps
  <2> QED
    BY <1>3, <2>1, <2>2 DEF Failure
<1>4. CASE Crash
  BY <1>4, AbandonFacts DEF Crash, AbandonAll, InTransaction, Orphaned
<1> QED
  BY <1>1, <1>2, <1>3, <1>4 DEF Next

\* Inserting takes the lock of a uuid nobody has; only its holder commits.
LEMMA LockStep == ASSUME IndInv, Next PROVE LockInv'
<1> USE DEF IndInv, TypeOK, ArgsInv
<1>1. ASSUME NEW u \in User, ClientNext(u) PROVE LockInv'
  <2>1. ASSUME NEW i \in Isu, NEW r \in Req, StartRegister(u, i, r) PROVE LockInv'
    BY <2>1 DEF StartRegister, Send, LockInv, LockedByOther, RowLocked
  <2>2. ASSUME NEW r \in Req, Retry(u, r) PROVE LockInv'
    BY <2>2 DEF Retry, Send, LockInv, LockedByOther, RowLocked
  <2>3. ASSUME ShowError(u) PROVE LockInv'
    BY <2>3 DEF ShowError, LockInv, LockedByOther
  <2>4. ASSUME ClientTimeout(u) PROVE LockInv'
    BY <2>4 DEF ClientTimeout, StopWaiting, LockInv, LockedByOther
  <2>5. ASSUME ClientUnanswered(u) PROVE LockInv'
    BY <2>5 DEF ClientUnanswered, StopWaiting, LockInv, LockedByOther
  <2>6. ASSUME ConfirmFound(u) PROVE LockInv'
    BY <2>6 DEF ConfirmFound, LockInv, LockedByOther
  <2>7. ASSUME ConfirmNotFound(u) PROVE LockInv'
    BY <2>7 DEF ConfirmNotFound, LockInv, LockedByOther
  <2>8. ASSUME PostAuth(u) PROVE LockInv'
    BY <2>8 DEF PostAuth, LockInv, LockedByOther
  <2> QED
    BY <1>1, <2>1, <2>2, <2>3, <2>4, <2>5, <2>6, <2>7, <2>8 DEF ClientNext
<1>2. ASSUME NEW r \in Req, Handler(r) PROVE LockInv'
  <2>1. CASE GetConnection(r)
    BY <2>1 DEF GetConnection, LockInv, LockedByOther, RowLocked
  <2>2. CASE GetConnectionRejects(r)
    BY <2>2 DEF GetConnectionRejects, LockInv, LockedByOther, RowLocked
  <2>3. CASE AuthFails(r)
    BY <2>3 DEF AuthFails, Finish, LockInv, LockedByOther, RowLocked
  <2>4. CASE AuthSucceeds(r)
    BY <2>4 DEF AuthSucceeds, Proceed, LockInv, LockedByOther, RowLocked
  <2>5. CASE Insert(r)
    BY <2>5 DEF Insert, Proceed, LockInv, LockedByOther, RowLocked
  <2>6. CASE InsertDuplicate(r)
    BY <2>6 DEF InsertDuplicate, Finish, LockInv, LockedByOther, RowLocked
  <2>7. CASE RequestActivation(r)
    BY <2>7 DEF RequestActivation, Proceed, LockInv, LockedByOther, RowLocked
  <2>8. CASE JiaActivates(r)
    BY <2>8 DEF JiaActivates, LockInv, LockedByOther, RowLocked
  <2>9. CASE JiaRefuses(r)
    BY <2>9 DEF JiaRefuses, Finish, LockInv, LockedByOther, RowLocked
  <2>10. CASE ReceiveCharacter(r)
    BY <2>10 DEF ReceiveCharacter, Proceed, LockInv, LockedByOther, RowLocked
  <2>11. CASE UpdateCharacter(r)
    BY <2>11, ConfigAssumption DEF UpdateCharacter, Proceed, LockInv, LockedByOther, RowLocked, NoRow
  <2>12. CASE DbCommits(r)
    BY <2>12 DEF DbCommits, LockInv, LockedByOther, RowLocked
  <2>13. CASE AnswerCreated(r)
    BY <2>13 DEF AnswerCreated, Finish, LockInv, LockedByOther, RowLocked
  <2>14. CASE StepFails(r)
    BY <2>14 DEF StepFails, Finish, LockInv, LockedByOther, RowLocked
  <2> QED
    BY <1>2, <2>1, <2>2, <2>3, <2>4, <2>5, <2>6, <2>7, <2>8, <2>9, <2>10, <2>11, <2>12, <2>13, <2>14 DEF Handler
<1>3. ASSUME NEW r \in Req, Failure(r) PROVE LockInv'
  <2>1. CASE LoseConnection(r)
    BY <2>1, AbandonFacts DEF LoseConnection, AbandonAll, LockInv, LockedByOther, RowLocked, Orphaned
  <2>2. CASE DbReaps(r)
    BY <2>2 DEF DbReaps, LockInv, LockedByOther, RowLocked
  <2> QED
    BY <1>3, <2>1, <2>2 DEF Failure
<1>4. CASE Crash
  <2>1. \A r \in Req : /\ pc'[r] = Abandon(pc[r])
                       /\ tx'[r] # NoRow => pc[r] \in RowLocked \cup {"orphan"}
    BY <1>4 DEF Crash, AbandonAll, LockInv
  <2>2. ASSUME NEW r \in Req
        PROVE  /\ pc'[r] = "orphanCommit" <=> pc[r] \in {"commit", "orphanCommit"}
               /\ pc'[r] \in {"free", "orphan", "orphanCommit"}
               /\ pc'[r] = "free" <=> pc[r] \notin InTransaction \cup Orphaned
    <3>1. pc[r] \in PC
      OBVIOUS
    <3> QED
      BY <2>1, <3>1 DEF Abandon, PC, Holding, InTransaction, Orphaned, Authenticating
  <2>3. \A r \in Req : pc[r] \in RowLocked \cup {"orphan"} => arg'[r] = arg[r]
    BY <1>4, <2>1, <2>2
    DEF Crash, AbandonAll, RowLocked, InTransaction, Orphaned
  <2>4. \A r \in Req : pc'[r] \in RowLocked => pc[r] \in RowLocked
    BY <2>2 DEF RowLocked
  <2>5. \A r \in Req : tx'[r] # NoRow => pc'[r] \in RowLocked \cup {"orphan"}
    <3> SUFFICES ASSUME NEW r \in Req, tx'[r] # NoRow
                 PROVE  pc'[r] \in RowLocked \cup {"orphan"}
      OBVIOUS
    <3>1. pc[r] \in InTransaction \cup Orphaned
      BY <2>1 DEF RowLocked, InTransaction, Orphaned
    <3> QED
      BY <2>2, <3>1 DEF RowLocked
  <2> QED
    BY <1>4, <2>1, <2>3, <2>4, <2>5 DEF Crash, LockInv, LockedByOther
<1> QED
  BY <1>1, <1>2, <1>3, <1>4 DEF Next

\* The handler does not get further than the JIA and MySQL have.
LEMMA ProgressStep == ASSUME IndInv, Next PROVE ProgressInv'
<1> USE DEF IndInv, TypeOK, ArgsInv
<1>1. ASSUME NEW u \in User, ClientNext(u) PROVE ProgressInv'
  <2>1. ASSUME NEW i \in Isu, NEW r \in Req, StartRegister(u, i, r) PROVE ProgressInv'
    BY <2>1 DEF StartRegister, Send, ProgressInv
  <2>2. ASSUME NEW r \in Req, Retry(u, r) PROVE ProgressInv'
    BY <2>2 DEF Retry, Send, ProgressInv
  <2>3. ASSUME ShowError(u) PROVE ProgressInv'
    BY <2>3 DEF ShowError, ProgressInv
  <2>4. ASSUME ClientTimeout(u) PROVE ProgressInv'
    BY <2>4 DEF ClientTimeout, StopWaiting, ProgressInv
  <2>5. ASSUME ClientUnanswered(u) PROVE ProgressInv'
    BY <2>5 DEF ClientUnanswered, StopWaiting, ProgressInv
  <2>6. ASSUME ConfirmFound(u) PROVE ProgressInv'
    BY <2>6 DEF ConfirmFound, ProgressInv
  <2>7. ASSUME ConfirmNotFound(u) PROVE ProgressInv'
    BY <2>7 DEF ConfirmNotFound, ProgressInv
  <2>8. ASSUME PostAuth(u) PROVE ProgressInv'
    BY <2>8 DEF PostAuth, ProgressInv
  <2> QED
    BY <1>1, <2>1, <2>2, <2>3, <2>4, <2>5, <2>6, <2>7, <2>8 DEF ClientNext
<1>2. ASSUME NEW r \in Req, Handler(r) PROVE ProgressInv'
  <2>1. CASE GetConnection(r)
    BY <2>1 DEF GetConnection, ProgressInv
  <2>2. CASE GetConnectionRejects(r)
    BY <2>2 DEF GetConnectionRejects, ProgressInv
  <2>3. CASE AuthFails(r)
    BY <2>3 DEF AuthFails, Finish, ProgressInv
  <2>4. CASE AuthSucceeds(r)
    BY <2>4 DEF AuthSucceeds, Proceed, ProgressInv
  <2>5. CASE Insert(r)
    BY <2>5 DEF Insert, Proceed, ProgressInv
  <2>6. CASE InsertDuplicate(r)
    BY <2>6 DEF InsertDuplicate, Finish, ProgressInv
  <2>7. CASE RequestActivation(r)
    BY <2>7 DEF RequestActivation, Proceed, ProgressInv
  <2>8. CASE JiaActivates(r)
    BY <2>8 DEF JiaActivates, ProgressInv
  <2>9. CASE JiaRefuses(r)
    BY <2>9 DEF JiaRefuses, Finish, ProgressInv
  <2>10. CASE ReceiveCharacter(r)
    BY <2>10 DEF ReceiveCharacter, Proceed, ProgressInv
  <2>11. CASE UpdateCharacter(r)
    BY <2>11 DEF UpdateCharacter, Proceed, ProgressInv
  <2>12. CASE DbCommits(r)
    BY <2>12, ConfigAssumption DEF DbCommits, ProgressInv, LockInv, NoRow
  <2>13. CASE AnswerCreated(r)
    BY <2>13 DEF AnswerCreated, Finish, ProgressInv
  <2>14. CASE StepFails(r)
    BY <2>14 DEF StepFails, Finish, ProgressInv
  <2> QED
    BY <1>2, <2>1, <2>2, <2>3, <2>4, <2>5, <2>6, <2>7, <2>8, <2>9, <2>10, <2>11, <2>12, <2>13, <2>14 DEF Handler
<1>3. ASSUME NEW r \in Req, Failure(r) PROVE ProgressInv'
  <2>1. CASE LoseConnection(r)
    BY <2>1, AbandonFacts DEF LoseConnection, AbandonAll, ProgressInv, Orphaned
  <2>2. CASE DbReaps(r)
    BY <2>2 DEF DbReaps, ProgressInv
  <2> QED
    BY <1>3, <2>1, <2>2 DEF Failure
<1>4. CASE Crash
  BY <1>4, AbandonFacts DEF Crash, AbandonAll, ProgressInv, Orphaned
<1> QED
  BY <1>1, <1>2, <1>3, <1>4 DEF Next

\* A row enters at COMMIT, after the activation and the UPDATE.
LEMMA RegisteredStep == ASSUME IndInv, Next PROVE RegisteredIsActivated'
<1> USE DEF IndInv
<1>1. ASSUME NEW u \in User, ClientNext(u) PROVE RegisteredIsActivated'
  <2>1. ASSUME NEW i \in Isu, NEW r \in Req, StartRegister(u, i, r) PROVE RegisteredIsActivated'
    BY <2>1 DEF StartRegister, Send, RegisteredIsActivated
  <2>2. ASSUME NEW r \in Req, Retry(u, r) PROVE RegisteredIsActivated'
    BY <2>2 DEF Retry, Send, RegisteredIsActivated
  <2>3. ASSUME ShowError(u) PROVE RegisteredIsActivated'
    BY <2>3 DEF ShowError, RegisteredIsActivated
  <2>4. ASSUME ClientTimeout(u) PROVE RegisteredIsActivated'
    BY <2>4 DEF ClientTimeout, StopWaiting, RegisteredIsActivated
  <2>5. ASSUME ClientUnanswered(u) PROVE RegisteredIsActivated'
    BY <2>5 DEF ClientUnanswered, StopWaiting, RegisteredIsActivated
  <2>6. ASSUME ConfirmFound(u) PROVE RegisteredIsActivated'
    BY <2>6 DEF ConfirmFound, RegisteredIsActivated
  <2>7. ASSUME ConfirmNotFound(u) PROVE RegisteredIsActivated'
    BY <2>7 DEF ConfirmNotFound, RegisteredIsActivated
  <2>8. ASSUME PostAuth(u) PROVE RegisteredIsActivated'
    BY <2>8 DEF PostAuth, RegisteredIsActivated
  <2> QED
    BY <1>1, <2>1, <2>2, <2>3, <2>4, <2>5, <2>6, <2>7, <2>8 DEF ClientNext
<1>2. ASSUME NEW r \in Req, Handler(r) PROVE RegisteredIsActivated'
  <2>1. CASE GetConnection(r)
    BY <2>1 DEF GetConnection, RegisteredIsActivated
  <2>2. CASE GetConnectionRejects(r)
    BY <2>2 DEF GetConnectionRejects, RegisteredIsActivated
  <2>3. CASE AuthFails(r)
    BY <2>3 DEF AuthFails, Finish, RegisteredIsActivated
  <2>4. CASE AuthSucceeds(r)
    BY <2>4 DEF AuthSucceeds, Proceed, RegisteredIsActivated
  <2>5. CASE Insert(r)
    BY <2>5 DEF Insert, Proceed, RegisteredIsActivated
  <2>6. CASE InsertDuplicate(r)
    BY <2>6 DEF InsertDuplicate, Finish, RegisteredIsActivated
  <2>7. CASE RequestActivation(r)
    BY <2>7 DEF RequestActivation, Proceed, RegisteredIsActivated
  <2>8. CASE JiaActivates(r)
    BY <2>8 DEF JiaActivates, RegisteredIsActivated
  <2>9. CASE JiaRefuses(r)
    BY <2>9 DEF JiaRefuses, Finish, RegisteredIsActivated
  <2>10. CASE ReceiveCharacter(r)
    BY <2>10 DEF ReceiveCharacter, Proceed, RegisteredIsActivated
  <2>11. CASE UpdateCharacter(r)
    BY <2>11 DEF UpdateCharacter, Proceed, RegisteredIsActivated
  <2>12. CASE DbCommits(r)
    BY <2>12 DEF DbCommits, RegisteredIsActivated, ProgressInv
  <2>13. CASE AnswerCreated(r)
    BY <2>13 DEF AnswerCreated, Finish, RegisteredIsActivated
  <2>14. CASE StepFails(r)
    BY <2>14 DEF StepFails, Finish, RegisteredIsActivated
  <2> QED
    BY <1>2, <2>1, <2>2, <2>3, <2>4, <2>5, <2>6, <2>7, <2>8, <2>9, <2>10, <2>11, <2>12, <2>13, <2>14 DEF Handler
<1>3. ASSUME NEW r \in Req, Failure(r) PROVE RegisteredIsActivated'
  <2>1. CASE LoseConnection(r)
    BY <2>1 DEF LoseConnection, RegisteredIsActivated
  <2>2. CASE DbReaps(r)
    BY <2>2 DEF DbReaps, RegisteredIsActivated
  <2> QED
    BY <1>3, <2>1, <2>2 DEF Failure
<1>4. CASE Crash
  BY <1>4 DEF Crash, RegisteredIsActivated
<1> QED
  BY <1>1, <1>2, <1>3, <1>4 DEF Next

\* No COMMIT hits a uuid that has a row, so 201 stays true.
LEMMA CreatedStep == ASSUME IndInv, Next PROVE CreatedIsDurable'
<1> USE DEF IndInv, TypeOK
<1>1. ASSUME NEW u \in User, ClientNext(u) PROVE CreatedIsDurable'
  <2>1. ASSUME NEW i \in Isu, NEW r \in Req, StartRegister(u, i, r) PROVE CreatedIsDurable'
    BY <2>1 DEF StartRegister, Send, CreatedIsDurable
  <2>2. ASSUME NEW r \in Req, Retry(u, r) PROVE CreatedIsDurable'
    BY <2>2 DEF Retry, Send, CreatedIsDurable
  <2>3. ASSUME ShowError(u) PROVE CreatedIsDurable'
    BY <2>3 DEF ShowError, CreatedIsDurable
  <2>4. ASSUME ClientTimeout(u) PROVE CreatedIsDurable'
    BY <2>4 DEF ClientTimeout, StopWaiting, CreatedIsDurable
  <2>5. ASSUME ClientUnanswered(u) PROVE CreatedIsDurable'
    BY <2>5 DEF ClientUnanswered, StopWaiting, CreatedIsDurable
  <2>6. ASSUME ConfirmFound(u) PROVE CreatedIsDurable'
    BY <2>6 DEF ConfirmFound, CreatedIsDurable
  <2>7. ASSUME ConfirmNotFound(u) PROVE CreatedIsDurable'
    BY <2>7 DEF ConfirmNotFound, CreatedIsDurable
  <2>8. ASSUME PostAuth(u) PROVE CreatedIsDurable'
    BY <2>8 DEF PostAuth, CreatedIsDurable
  <2> QED
    BY <1>1, <2>1, <2>2, <2>3, <2>4, <2>5, <2>6, <2>7, <2>8 DEF ClientNext
<1>2. ASSUME NEW r \in Req, Handler(r) PROVE CreatedIsDurable'
  <2>1. CASE GetConnection(r)
    BY <2>1 DEF GetConnection, CreatedIsDurable
  <2>2. CASE GetConnectionRejects(r)
    BY <2>2 DEF GetConnectionRejects, CreatedIsDurable
  <2>3. CASE AuthFails(r)
    BY <2>3 DEF AuthFails, Finish, CreatedIsDurable
  <2>4. CASE AuthSucceeds(r)
    BY <2>4 DEF AuthSucceeds, Proceed, CreatedIsDurable
  <2>5. CASE Insert(r)
    BY <2>5 DEF Insert, Proceed, CreatedIsDurable
  <2>6. CASE InsertDuplicate(r)
    BY <2>6 DEF InsertDuplicate, Finish, CreatedIsDurable
  <2>7. CASE RequestActivation(r)
    BY <2>7 DEF RequestActivation, Proceed, CreatedIsDurable
  <2>8. CASE JiaActivates(r)
    BY <2>8 DEF JiaActivates, CreatedIsDurable
  <2>9. CASE JiaRefuses(r)
    BY <2>9 DEF JiaRefuses, Finish, CreatedIsDurable
  <2>10. CASE ReceiveCharacter(r)
    BY <2>10 DEF ReceiveCharacter, Proceed, CreatedIsDurable
  <2>11. CASE UpdateCharacter(r)
    BY <2>11 DEF UpdateCharacter, Proceed, CreatedIsDurable
  <2>12. CASE DbCommits(r)
    BY <2>12, ConfigAssumption DEF DbCommits, CreatedIsDurable, ProgressInv, LockInv, NoRow
  <2>13. CASE AnswerCreated(r)
    BY <2>13 DEF AnswerCreated, Finish, CreatedIsDurable, ProgressInv
  <2>14. CASE StepFails(r)
    BY <2>14 DEF StepFails, Finish, CreatedIsDurable
  <2> QED
    BY <1>2, <2>1, <2>2, <2>3, <2>4, <2>5, <2>6, <2>7, <2>8, <2>9, <2>10, <2>11, <2>12, <2>13, <2>14 DEF Handler
<1>3. ASSUME NEW r \in Req, Failure(r) PROVE CreatedIsDurable'
  <2>1. CASE LoseConnection(r)
    BY <2>1 DEF LoseConnection, CreatedIsDurable
  <2>2. CASE DbReaps(r)
    BY <2>2 DEF DbReaps, CreatedIsDurable
  <2> QED
    BY <1>3, <2>1, <2>2 DEF Failure
<1>4. CASE Crash
  BY <1>4 DEF Crash, CreatedIsDurable
<1> QED
  BY <1>1, <1>2, <1>3, <1>4 DEF Next

\* Nor can the row behind a 409 go away.
LEMMA ConflictStep == ASSUME IndInv, Next PROVE ConflictIsReal'
<1> USE DEF IndInv, TypeOK, ArgsInv
<1>1. ASSUME NEW u \in User, ClientNext(u) PROVE ConflictIsReal'
  <2>1. ASSUME NEW i \in Isu, NEW r \in Req, StartRegister(u, i, r) PROVE ConflictIsReal'
    BY <2>1 DEF StartRegister, Send, ConflictIsReal
  <2>2. ASSUME NEW r \in Req, Retry(u, r) PROVE ConflictIsReal'
    BY <2>2 DEF Retry, Send, ConflictIsReal
  <2>3. ASSUME ShowError(u) PROVE ConflictIsReal'
    BY <2>3 DEF ShowError, ConflictIsReal
  <2>4. ASSUME ClientTimeout(u) PROVE ConflictIsReal'
    BY <2>4 DEF ClientTimeout, StopWaiting, ConflictIsReal
  <2>5. ASSUME ClientUnanswered(u) PROVE ConflictIsReal'
    BY <2>5 DEF ClientUnanswered, StopWaiting, ConflictIsReal
  <2>6. ASSUME ConfirmFound(u) PROVE ConflictIsReal'
    BY <2>6 DEF ConfirmFound, ConflictIsReal
  <2>7. ASSUME ConfirmNotFound(u) PROVE ConflictIsReal'
    BY <2>7 DEF ConfirmNotFound, ConflictIsReal
  <2>8. ASSUME PostAuth(u) PROVE ConflictIsReal'
    BY <2>8 DEF PostAuth, ConflictIsReal
  <2> QED
    BY <1>1, <2>1, <2>2, <2>3, <2>4, <2>5, <2>6, <2>7, <2>8 DEF ClientNext
<1>2. ASSUME NEW r \in Req, Handler(r) PROVE ConflictIsReal'
  <2>1. CASE GetConnection(r)
    BY <2>1 DEF GetConnection, ConflictIsReal
  <2>2. CASE GetConnectionRejects(r)
    BY <2>2 DEF GetConnectionRejects, ConflictIsReal
  <2>3. CASE AuthFails(r)
    BY <2>3 DEF AuthFails, Finish, ConflictIsReal
  <2>4. CASE AuthSucceeds(r)
    BY <2>4 DEF AuthSucceeds, Proceed, ConflictIsReal
  <2>5. CASE Insert(r)
    BY <2>5 DEF Insert, Proceed, ConflictIsReal
  <2>6. CASE InsertDuplicate(r)
    BY <2>6, ConfigAssumption DEF InsertDuplicate, Finish, ConflictIsReal, Row
  <2>7. CASE RequestActivation(r)
    BY <2>7 DEF RequestActivation, Proceed, ConflictIsReal
  <2>8. CASE JiaActivates(r)
    BY <2>8 DEF JiaActivates, ConflictIsReal
  <2>9. CASE JiaRefuses(r)
    BY <2>9 DEF JiaRefuses, Finish, ConflictIsReal
  <2>10. CASE ReceiveCharacter(r)
    BY <2>10 DEF ReceiveCharacter, Proceed, ConflictIsReal
  <2>11. CASE UpdateCharacter(r)
    BY <2>11 DEF UpdateCharacter, Proceed, ConflictIsReal
  <2>12. CASE DbCommits(r)
    BY <2>12, ConfigAssumption DEF DbCommits, ConflictIsReal, LockInv, RowLocked
  <2>13. CASE AnswerCreated(r)
    BY <2>13 DEF AnswerCreated, Finish, ConflictIsReal
  <2>14. CASE StepFails(r)
    BY <2>14 DEF StepFails, Finish, ConflictIsReal
  <2> QED
    BY <1>2, <2>1, <2>2, <2>3, <2>4, <2>5, <2>6, <2>7, <2>8, <2>9, <2>10, <2>11, <2>12, <2>13, <2>14 DEF Handler
<1>3. ASSUME NEW r \in Req, Failure(r) PROVE ConflictIsReal'
  <2>1. CASE LoseConnection(r)
    BY <2>1 DEF LoseConnection, ConflictIsReal
  <2>2. CASE DbReaps(r)
    BY <2>2 DEF DbReaps, ConflictIsReal
  <2> QED
    BY <1>3, <2>1, <2>2 DEF Failure
<1>4. CASE Crash
  BY <1>4 DEF Crash, ConflictIsReal
<1> QED
  BY <1>1, <1>2, <1>3, <1>4 DEF Next

\* An answer settles the client that waits for it and leaves the others alone:
\* the slot it frees serves nobody any more.
LEMMA ClientFinish ==
    ASSUME IndInv, NEW r \in Req, NEW status, Finish(r, status)
    PROVE  ClientInv'
<1> USE DEF IndInv, TypeOK
<1>1. ASSUME NEW u \in User, client'[u] # client[u]
      PROVE  /\ client[u].state # "idle" /\ client'[u].uuid = client[u].uuid
             /\ client'[u].state # "posting"
    BY <1>1 DEF Finish, Deliver, Settled
<1>2. ASSUME NEW u \in User, client'[u] = client[u], client[u].state = "posting",
             Served(u)'
      PROVE  Served(u) /\ arg'[client[u].req] = arg[client[u].req]
    BY <1>2 DEF Finish, Served, ClientInv, Holding, InTransaction, Authenticating
<1>3. \A i \in Isu : isu'[i] # NoRow => i \in Wants[isu'[i].jia_user_id]
    BY DEF Finish, ClientInv
<1> QED
    BY <1>1, <1>2, <1>3 DEF ClientInv

\* A slot that serves somebody else does not concern a waiting client.
LEMMA ClientStep == ASSUME IndInv, Next PROVE ClientInv'
<1> USE DEF IndInv, TypeOK, ArgsInv
<1>1. ASSUME NEW u \in User, ClientNext(u) PROVE ClientInv'
  <2>1. ASSUME NEW i \in Isu, NEW r \in Req, StartRegister(u, i, r) PROVE ClientInv'
    BY <2>1 DEF StartRegister, Send, ClientInv, Served
  <2>2. ASSUME NEW r \in Req, Retry(u, r) PROVE ClientInv'
    BY <2>2 DEF Retry, Send, ClientInv, Served
  <2>3. ASSUME ShowError(u) PROVE ClientInv'
    BY <2>3 DEF ShowError, IdleClient, ClientInv, Served
  <2>4. ASSUME ClientTimeout(u) PROVE ClientInv'
    BY <2>4 DEF ClientTimeout, StopWaiting, Settled, ClientInv, Served
  <2>5. ASSUME ClientUnanswered(u) PROVE ClientInv'
    BY <2>5 DEF ClientUnanswered, StopWaiting, Settled, ClientInv, Served
  <2>6. ASSUME ConfirmFound(u) PROVE ClientInv'
    BY <2>6 DEF ConfirmFound, Settled, ClientInv, Served
  <2>7. ASSUME ConfirmNotFound(u) PROVE ClientInv'
    BY <2>7 DEF ConfirmNotFound, IdleClient, ClientInv, Served
  <2>8. ASSUME PostAuth(u) PROVE ClientInv'
    BY <2>8 DEF PostAuth, ClientInv, Served
  <2> QED
    BY <1>1, <2>1, <2>2, <2>3, <2>4, <2>5, <2>6, <2>7, <2>8 DEF ClientNext
<1>2. ASSUME NEW r \in Req, Handler(r) PROVE ClientInv'
  <2>1. CASE GetConnection(r)
    BY <2>1 DEF GetConnection, ClientInv, Served
  <2>2. CASE GetConnectionRejects(r)
    BY <2>2, ConfigAssumption DEF GetConnectionRejects, NoArg, ClientInv, Served
  <2>3. CASE AuthFails(r)
    BY <2>3, ClientFinish DEF AuthFails
  <2>4. CASE AuthSucceeds(r)
    BY <2>4 DEF AuthSucceeds, Proceed, ClientInv, Served, Holding, Authenticating
  <2>5. CASE Insert(r)
    BY <2>5 DEF Insert, Proceed, ClientInv, Served, Holding, InTransaction
  <2>6. CASE InsertDuplicate(r)
    BY <2>6, ClientFinish DEF InsertDuplicate
  <2>7. CASE RequestActivation(r)
    BY <2>7 DEF RequestActivation, Proceed, ClientInv, Served, Holding, InTransaction
  <2>8. CASE JiaActivates(r)
    BY <2>8 DEF JiaActivates, ClientInv, Served, Holding, InTransaction
  <2>9. CASE JiaRefuses(r)
    BY <2>9, ClientFinish DEF JiaRefuses
  <2>10. CASE ReceiveCharacter(r)
    BY <2>10 DEF ReceiveCharacter, Proceed, ClientInv, Served, Holding, InTransaction
  <2>11. CASE UpdateCharacter(r)
    BY <2>11 DEF UpdateCharacter, Proceed, ClientInv, Served, Holding, InTransaction
  <2>12. CASE DbCommits(r)
    BY <2>12, ConfigAssumption DEF DbCommits, NoArg, ClientInv, Served, LockInv, Holding, InTransaction
  <2>13. CASE AnswerCreated(r)
    BY <2>13, ClientFinish DEF AnswerCreated
  <2>14. CASE StepFails(r)
    BY <2>14, ClientFinish DEF StepFails
  <2> QED
    BY <1>2, <2>1, <2>2, <2>3, <2>4, <2>5, <2>6, <2>7, <2>8, <2>9, <2>10, <2>11, <2>12, <2>13, <2>14 DEF Handler
<1>3. ASSUME NEW r \in Req, Failure(r) PROVE ClientInv'
  <2>1. CASE LoseConnection(r)
    BY <2>1 DEF LoseConnection, AbandonAll, InTransaction, ClientInv, Served, Holding, Authenticating
  <2>2. CASE DbReaps(r)
    BY <2>2, ConfigAssumption DEF DbReaps, NoArg, ClientInv, Served
  <2> QED
    BY <1>3, <2>1, <2>2 DEF Failure
<1>4. CASE Crash
  BY <1>4, AbandonFacts DEF Crash, AbandonAll, ClientInv, Served, Holding, InTransaction, Authenticating, Orphaned
<1> QED
  BY <1>1, <1>2, <1>3, <1>4 DEF Next

\* Only the benchmarker's own user wants its isu: the row behind its 409 is its own.
LEMMA BenchStep == ASSUME IndInv, Next PROVE BenchConflictIsMine'
<1> USE DEF IndInv, TypeOK, ArgsInv
<1>1. ASSUME NEW u \in User, ClientNext(u) PROVE BenchConflictIsMine'
  <2>1. ASSUME NEW i \in Isu, NEW r \in Req, StartRegister(u, i, r) PROVE BenchConflictIsMine'
    BY <2>1 DEF StartRegister, Send, BenchConflictIsMine
  <2>2. ASSUME NEW r \in Req, Retry(u, r) PROVE BenchConflictIsMine'
    BY <2>2 DEF Retry, Send, BenchConflictIsMine
  <2>3. ASSUME ShowError(u) PROVE BenchConflictIsMine'
    BY <2>3 DEF ShowError, BenchConflictIsMine
  <2>4. ASSUME ClientTimeout(u) PROVE BenchConflictIsMine'
    BY <2>4 DEF ClientTimeout, StopWaiting, Settled, BenchConflictIsMine
  <2>5. ASSUME ClientUnanswered(u) PROVE BenchConflictIsMine'
    BY <2>5 DEF ClientUnanswered, StopWaiting, Settled, BenchConflictIsMine
  <2>6. ASSUME ConfirmFound(u) PROVE BenchConflictIsMine'
    BY <2>6 DEF ConfirmFound, Settled, BenchConflictIsMine
  <2>7. ASSUME ConfirmNotFound(u) PROVE BenchConflictIsMine'
    BY <2>7 DEF ConfirmNotFound, BenchConflictIsMine
  <2>8. ASSUME PostAuth(u) PROVE BenchConflictIsMine'
    BY <2>8 DEF PostAuth, BenchConflictIsMine
  <2> QED
    BY <1>1, <2>1, <2>2, <2>3, <2>4, <2>5, <2>6, <2>7, <2>8 DEF ClientNext
<1>2. ASSUME NEW r \in Req, Handler(r) PROVE BenchConflictIsMine'
  <2>1. CASE GetConnection(r)
    BY <2>1 DEF GetConnection, BenchConflictIsMine
  <2>2. CASE GetConnectionRejects(r)
    BY <2>2 DEF GetConnectionRejects, BenchConflictIsMine
  <2>3. CASE AuthFails(r)
    BY <2>3 DEF AuthFails, Finish, BenchConflictIsMine, Deliver, Settled
  <2>4. CASE AuthSucceeds(r)
    BY <2>4 DEF AuthSucceeds, Proceed, BenchConflictIsMine
  <2>5. CASE Insert(r)
    BY <2>5 DEF Insert, Proceed, BenchConflictIsMine
  <2>6. CASE InsertDuplicate(r)
    <3>1. isu[arg[r].uuid] \in Row /\ arg[r].uuid \in Isu /\ arg[r].user \in User
      BY <2>6, ConfigAssumption DEF InsertDuplicate
    <3>2. arg[r].user \in BenchUser => isu[arg[r].uuid].jia_user_id = arg[r].user
      BY <2>6, <3>1, BenchUuidAssumption DEF InsertDuplicate, ClientInv, Row
    <3>3. /\ isu' = isu
          /\ \A u \in User : client'[u] # client[u] =>
                /\ u = arg[r].user
                /\ Served(u)
                /\ client[u].state = "posting" /\ client[u].req = r
                /\ client'[u].uuid = client[u].uuid
      BY <2>6 DEF InsertDuplicate, Finish, Deliver, Settled, Served, Holding, InTransaction
    <3>4. \A u \in User : client'[u] # client[u] => client'[u].uuid = arg[r].uuid
      BY <3>3 DEF ClientInv
    <3> QED
      BY <3>2, <3>3, <3>4, ConfigAssumption DEF BenchConflictIsMine
  <2>7. CASE RequestActivation(r)
    BY <2>7 DEF RequestActivation, Proceed, BenchConflictIsMine
  <2>8. CASE JiaActivates(r)
    BY <2>8 DEF JiaActivates, BenchConflictIsMine
  <2>9. CASE JiaRefuses(r)
    BY <2>9, BenchUuidAssumption DEF JiaRefuses, Finish, BenchConflictIsMine, Deliver
  <2>10. CASE ReceiveCharacter(r)
    BY <2>10 DEF ReceiveCharacter, Proceed, BenchConflictIsMine
  <2>11. CASE UpdateCharacter(r)
    BY <2>11 DEF UpdateCharacter, Proceed, BenchConflictIsMine
  <2>12. CASE DbCommits(r)
    BY <2>12, ConfigAssumption, BenchUuidAssumption DEF DbCommits, BenchConflictIsMine, ClientInv, LockInv, RowLocked
  <2>13. CASE AnswerCreated(r)
    BY <2>13 DEF AnswerCreated, Finish, BenchConflictIsMine, ClientInv, Served, ProgressInv, Deliver, Settled, Holding
  <2>14. CASE StepFails(r)
    BY <2>14 DEF StepFails, Finish, BenchConflictIsMine, Deliver, Settled
  <2> QED
    BY <1>2, <2>1, <2>2, <2>3, <2>4, <2>5, <2>6, <2>7, <2>8, <2>9, <2>10, <2>11, <2>12, <2>13, <2>14 DEF Handler
<1>3. ASSUME NEW r \in Req, Failure(r) PROVE BenchConflictIsMine'
  <2>1. CASE LoseConnection(r)
    BY <2>1 DEF LoseConnection, BenchConflictIsMine
  <2>2. CASE DbReaps(r)
    BY <2>2 DEF DbReaps, BenchConflictIsMine
  <2> QED
    BY <1>3, <2>1, <2>2 DEF Failure
<1>4. CASE Crash
  BY <1>4 DEF Crash, BenchConflictIsMine
<1> QED
  BY <1>1, <1>2, <1>3, <1>4 DEF Next

----------------------------------------------------------------------------
(* The inductive invariant and what follows from it. *)

\* It holds before any request.
LEMMA IndInit == Init => IndInv
<1> SUFFICES ASSUME Init PROVE IndInv
    OBVIOUS
<1>1. TypeOK
    BY TypeInit
<1>2. NoConnectionLeak /\ ArgsInv /\ ProgressInv
    BY DEF Init, NoConnectionLeak, ArgsInv, ProgressInv, Holding, InTransaction,
           Authenticating
<1>3. LockInv
    BY DEF Init, LockInv, RowLocked
<1>4. ClientInv /\ BenchConflictIsMine
    BY ConfigAssumption DEF Init, ClientInv, BenchConflictIsMine, IdleClient
<1>5. RegisteredIsActivated /\ CreatedIsDurable /\ ConflictIsReal
    BY DEF Init, RegisteredIsActivated, CreatedIsDurable, ConflictIsReal
<1> QED
    BY <1>1, <1>2, <1>3, <1>4, <1>5 DEF IndInv

\* Each step keeps it: the lemmas above, one conjunct each.
LEMMA IndStep == IndInv /\ [Next]_vars => IndInv'
<1> SUFFICES ASSUME IndInv, [Next]_vars PROVE IndInv'
    OBVIOUS
<1>1. CASE Next
    BY <1>1, TypeStep, LeakStep, ArgsStep, LockStep, ProgressStep, ClientStep,
       RegisteredStep, CreatedStep, ConflictStep, BenchStep DEF IndInv
<1>2. CASE UNCHANGED vars
    BY <1>2
    DEF vars, IndInv, TypeOK, NoConnectionLeak, ArgsInv, LockInv, LockedByOther,
        ProgressInv, ClientInv, Served, RegisteredIsActivated, CreatedIsDurable,
        ConflictIsReal, BenchConflictIsMine
<1> QED
    BY <1>1, <1>2

\* IndInv holds throughout: the handlers of any number of requests, crashes
\* and retries stay within it.
THEOREM IndInvHolds == Spec => []IndInv
<1> QED
    BY IndInit, IndStep, PTL DEF Spec

\* The variables keep their types, and no more connections than the pool's
\* limit are ever in use.
THEOREM TypeCorrect == Spec => []TypeOK
<1>1. IndInv => TypeOK
    BY DEF IndInv
<1> QED
    BY <1>1, IndInvHolds, PTL

\* A visible isu is activated at the JIA and has its character.
THEOREM RegisteredIsActivatedHolds == Spec => []RegisteredIsActivated
<1>1. IndInv => RegisteredIsActivated
    BY DEF IndInv
<1> QED
    BY <1>1, IndInvHolds, PTL

\* 201 is told of a committed row of the caller's, which never goes away.
THEOREM CreatedIsDurableHolds == Spec => []CreatedIsDurable
<1>1. IndInv => CreatedIsDurable
    BY DEF IndInv
<1> QED
    BY <1>1, IndInvHolds, PTL

\* 409 is told of a committed row only.
THEOREM ConflictIsRealHolds == Spec => []ConflictIsReal
<1>1. IndInv => ConflictIsReal
    BY DEF IndInv
<1> QED
    BY <1>1, IndInvHolds, PTL

\* The benchmarker is right to take 409 for success.
THEOREM BenchConflictIsMineHolds == Spec => []BenchConflictIsMine
<1>1. IndInv => BenchConflictIsMine
    BY DEF IndInv
<1> QED
    BY <1>1, IndInvHolds, PTL

\* Connections in use are those of handlers between getConnection and finally.
THEOREM NoConnectionLeakHolds == Spec => []NoConnectionLeak
<1>1. IndInv => NoConnectionLeak
    BY DEF IndInv
<1> QED
    BY <1>1, IndInvHolds, PTL

----------------------------------------------------------------------------
(* Refinement of the registry. *)

Owner == [i \in Isu |-> isu[i].jia_user_id]

\* No isu has an owner, nobody was told anything.
LEMMA RefineInit == Init => Registry!Init
    BY DEF Init, Registry!Init, NoRow

\* COMMIT registers: the row it makes visible is the caller's, and nobody had
\* the uuid.
LEMMA CommitRegisters ==
    ASSUME IndInv, NEW r \in Req, DbCommits(r)
    PROVE  Registry!Next
<1> USE DEF IndInv, TypeOK, ArgsInv
<1>1. arg[r].user \in User /\ arg[r].uuid \in Isu
    BY ConfigAssumption DEF DbCommits
<1>2. tx[r].jia_user_id = arg[r].user
    BY DEF DbCommits, LockInv, RowLocked
<1>3. tx[r] # NoRow
    BY <1>1, <1>2, ConfigAssumption DEF NoRow
<1>4. isu[arg[r].uuid] = NoRow
    BY <1>3 DEF LockInv
<1>5. Owner[arg[r].uuid] = NoUser
    BY <1>1, <1>4 DEF Owner, NoRow
<1>6. Owner' = [Owner EXCEPT ![arg[r].uuid] = arg[r].user]
    BY <1>1, <1>2 DEF Owner, DbCommits
<1>7. Registry!Register(arg[r].user, arg[r].uuid)
    BY <1>5, <1>6 DEF Registry!Register, Owner, DbCommits
<1> QED
    BY <1>1, <1>7 DEF Registry!Next, Registry!Register

\* 201 tells the owner.
LEMMA AnswerCreatedTells ==
    ASSUME IndInv, NEW r \in Req, AnswerCreated(r)
    PROVE  Registry!Next
<1> USE DEF IndInv, ArgsInv
<1>1. arg[r].user \in User /\ arg[r].uuid \in Isu
    BY ConfigAssumption DEF AnswerCreated
<1>2. isu[arg[r].uuid].jia_user_id = arg[r].user
    BY DEF AnswerCreated, ProgressInv
<1>3. Registry!TellCreated(arg[r].user, arg[r].uuid)
    BY <1>1, <1>2 DEF Registry!TellCreated, AnswerCreated, Finish
<1> QED
    BY <1>1, <1>3 DEF Registry!Next

\* 409 tells of an owner.
LEMMA InsertDuplicateTells ==
    ASSUME IndInv, NEW r \in Req, InsertDuplicate(r)
    PROVE  Registry!Next
<1> USE DEF IndInv, TypeOK, ArgsInv
<1>1. arg[r].user \in User /\ arg[r].uuid \in Isu
    BY ConfigAssumption DEF InsertDuplicate
<1>2. isu[arg[r].uuid].jia_user_id # NoUser
    BY <1>1, ConfigAssumption DEF InsertDuplicate, Row
<1>3. Registry!TellConflict(arg[r].user, arg[r].uuid)
    BY <1>1, <1>2 DEF Registry!TellConflict, InsertDuplicate, Finish
<1> QED
    BY <1>1, <1>3 DEF Registry!Next

\* Of all steps only these three change the owners or the answers.
LEMMA RefineStep == IndInv /\ [Next]_vars => [Registry!Next]_(Registry!regVars)
<1> SUFFICES ASSUME IndInv, [Next]_vars
             PROVE  [Registry!Next]_(Registry!regVars)
    OBVIOUS
<1>1. ASSUME UNCHANGED <<isu, answers>>
      PROVE  UNCHANGED Registry!regVars
    BY <1>1 DEF Registry!regVars
<1>2. ASSUME NEW u \in User, ClientNext(u)
      PROVE  UNCHANGED <<isu, answers>>
    BY <1>2 DEF ClientNext, StartRegister, Retry, Send, ShowError, ClientTimeout,
        ClientUnanswered, StopWaiting, ConfirmFound, ConfirmNotFound, PostAuth
<1>3. ASSUME NEW r \in Req, Handler(r), ~DbCommits(r), ~AnswerCreated(r),
             ~InsertDuplicate(r)
      PROVE  UNCHANGED <<isu, answers>>
    BY <1>3 DEF Handler, GetConnection, GetConnectionRejects, AuthFails, AuthSucceeds,
        Insert, RequestActivation, JiaActivates, JiaRefuses, ReceiveCharacter,
        UpdateCharacter, StepFails, Finish, Proceed
<1>4. ASSUME NEW r \in Req, Failure(r)
      PROVE  UNCHANGED <<isu, answers>>
    BY <1>4 DEF Failure, LoseConnection, DbReaps
<1>5. ASSUME Crash
      PROVE  UNCHANGED <<isu, answers>>
    BY <1>5 DEF Crash
<1>6. ASSUME NEW r \in Req, Handler(r)
      PROVE  [Registry!Next]_(Registry!regVars)
    BY <1>1, <1>3, <1>6, CommitRegisters, AnswerCreatedTells, InsertDuplicateTells
<1>7. ASSUME UNCHANGED vars
      PROVE  UNCHANGED <<isu, answers>>
    BY <1>7 DEF vars
<1> QED
    BY <1>1, <1>2, <1>4, <1>5, <1>6, <1>7 DEF Next

\* POST /api/isu, with its transaction held across the call to the JIA, its
\* lock waits, retries and crashes, is an atomic registry to its callers.
THEOREM RegistrationImplementsRegistry == Spec => ImplementsRegistry
<1> QED
    BY RefineInit, RefineStep, IndInvHolds, PTL
    DEF Spec, ImplementsRegistry, Registry!Spec

============================================================================
