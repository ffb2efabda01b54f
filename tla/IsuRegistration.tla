-------------------------- MODULE IsuRegistration --------------------------
(***************************************************************************)
(* POST /api/isu of webapp/nodejs/src/app.ts: the handler that inserts an  *)
(* isu inside a transaction, activates it at the JIA over HTTP while that  *)
(* transaction is open, writes the character the JIA answered and commits. *)
(* Around it: the mysql2 connection pool, the InnoDB unique key on         *)
(* isu.jia_isu_uuid, the JIA service, the crash of the node process, and   *)
(* the two clients that call it, the benchmarker's user (who repeats the   *)
(* request until it is answered 201 or 409) and the browser's Register     *)
(* page (who gives up on any other answer).                                *)
(*                                                                         *)
(* A member of Req is a slot for one request being served.  A suspension   *)
(* point (await) of the handler is a boundary between actions, unless      *)
(* nobody can tell: readFile and START TRANSACTION, which takes no lock    *)
(* and no snapshot, go with the look at the session before them, and the   *)
(* SELECT of the transaction's own row with the UPDATE before it.          *)
(***************************************************************************)
EXTENDS Integers, FiniteSets

CONSTANTS
    User,         \* jia_user_id values
    Isu,          \* jia_isu_uuid values a client may send
    KnownIsu,     \* those the JIA knows; it answers 404 to the others
    Character,    \* what the JIA answers as "character"
    CharacterOf,  \* the character of each known isu, constant at the JIA
    BenchUser,    \* users driven by the benchmarker; the others use a browser
    Wants,        \* [User -> SUBSET Isu]: the isu each user ever registers
    Req,          \* request slots
    ConnLimit,    \* connectionLimit of the pool
    MaxFaults,    \* bound on crashes, errors and timeouts of one behaviour
    NoUser, NoReq, NoIsu, NoCharacter

ASSUME ConfigAssumption ==
    /\ KnownIsu \subseteq Isu
    /\ CharacterOf \in [KnownIsu -> Character]
    /\ BenchUser \subseteq User
    /\ Wants \in [User -> SUBSET Isu]
    /\ IsFiniteSet(Req)
    /\ ConnLimit \in Nat
    /\ MaxFaults \in Nat
    /\ NoUser \notin User /\ NoReq \notin Req
    /\ NoIsu \notin Isu /\ NoCharacter \notin Character

\* NewRandomIsuRaw draws a fresh uuid for every isu the benchmarker creates,
\* and registers it at its JIA before it posts it: no other user sends it.
ASSUME BenchUuidAssumption ==
    \A b \in BenchUser : /\ Wants[b] \subseteq KnownIsu
                         /\ \A u \in User \ {b} : Wants[b] \cap Wants[u] = {}

VARIABLES
    user,       \* rows of table user
    isu,        \* committed rows of table isu
    tx,         \* the row each open transaction has inserted, not yet committed
    activated,  \* isu the JIA posts conditions for
    pc,         \* where the handler serving each slot stands
    arg,        \* user (of the session cookie) and uuid of each request
    pool,       \* slots that hold a connection of the pool
    client,     \* what each user is doing
    answers,    \* the definite answers (201, 409) sent so far
    faults      \* crashes, errors and timeouts so far

vars == <<user, isu, tx, activated, pc, arg, pool, client, answers, faults>>

----------------------------------------------------------------------------
Row == [jia_user_id : User, character : Character \cup {NoCharacter}]
NoRow == [jia_user_id |-> NoUser, character |-> NoCharacter]

\* Handler positions in which the request holds a connection.
Authenticating == {"auth"}
InTransaction == {"insert", "geturl", "activating", "answered", "update", "commit"}
Holding == Authenticating \cup InTransaction \cup {"committed"}
\* A connection whose process or socket died; MySQL has yet to notice.
Orphaned == {"orphan", "orphanCommit"}
PC == {"free", "accepted"} \cup Holding \cup Orphaned
\* Positions in which the transaction holds an uncommitted row (and its lock).
RowLocked == {"geturl", "activating", "answered", "update", "commit", "orphanCommit"}

NoArg == [user |-> NoUser, uuid |-> NoIsu]
Answer == User \X Isu \X {201, 409}

ClientState == {"idle", "posting", "failed", "confirming", "done"}
IdleClient == [state |-> "idle", uuid |-> NoIsu, req |-> NoReq]

\* The same errand of u, no request outstanding.
Settled(u, state) == [state |-> state, uuid |-> client[u].uuid, req |-> NoReq]

\* The unique index lets one transaction at a time hold a new entry for a uuid.
LockedByOther(r) ==
    \E o \in Req \ {r} : tx[o] # NoRow /\ arg[o].uuid = arg[r].uuid

Fault == faults < MaxFaults /\ faults' = faults + 1

----------------------------------------------------------------------------
Init ==
    /\ user = {}
    /\ isu = [i \in Isu |-> NoRow]
    /\ tx = [r \in Req |-> NoRow]
    /\ activated = {}
    /\ pc = [r \in Req |-> "free"]
    /\ arg = [r \in Req |-> NoArg]
    /\ pool = {}
    /\ client = [u \in User |-> IdleClient]
    /\ answers = {}
    /\ faults = 0

----------------------------------------------------------------------------
(* The clients. *)

\* The user asks a free slot to register i.  multer has parsed the upload.
Send(u, i, r) ==
    /\ pc[r] = "free"
    /\ pc' = [pc EXCEPT ![r] = "accepted"]
    /\ arg' = [arg EXCEPT ![r] = [user |-> u, uuid |-> i]]
    /\ client' = [client EXCEPT ![u] = [state |-> "posting", uuid |-> i, req |-> r]]
    /\ UNCHANGED <<user, isu, tx, activated, pool, answers, faults>>

\* The benchmarker registers each isu once; a browser's user may try again.
StartRegister(u, i, r) ==
    /\ \/ client[u].state = "idle"
       \/ client[u].state = "done" /\ u \notin BenchUser
    /\ i \in Wants[u]
    /\ Send(u, i, r)

\* postIsuInfinityRetry: the benchmarker repeats the same request.
Retry(u, r) ==
    /\ client[u].state = "failed"
    /\ u \in BenchUser
    /\ Send(u, client[u].uuid, r)

\* Register.tsx shows a toast and stays on the form.
ShowError(u) ==
    /\ client[u].state = "failed"
    /\ u \notin BenchUser
    /\ client' = [client EXCEPT ![u] = IdleClient]
    /\ UNCHANGED <<user, isu, tx, activated, pc, arg, pool, answers, faults>>

\* A handler is still going to answer u.
Served(u) ==
    /\ pc[client[u].req] \in {"accepted"} \cup Holding
    /\ arg[client[u].req].user = u

StopWaiting(u) ==
    /\ client[u].state = "posting"
    /\ client' = [client EXCEPT ![u] = Settled(u, "failed")]
    /\ UNCHANGED <<user, isu, tx, activated, pc, arg, pool, answers>>

\* The client stops waiting; the handler does not learn of it and goes on.
ClientTimeout(u) == StopWaiting(u) /\ Served(u) /\ Fault

\* No answer will come: the socket was reset, or the wait times out.
ClientUnanswered(u) == StopWaiting(u) /\ ~Served(u) /\ UNCHANGED faults

\* Mutant: 409 is an error like any other to the clients.
DeliverConflictAsError(r, status) ==
    LET u == arg[r].user IN
    client' =
        IF client[u].state = "posting" /\ client[u].req = r
        THEN [client EXCEPT ![u] =
                 Settled(u, IF status = 201 THEN "confirming" ELSE "failed")]
        ELSE client

\* An answer that arrives while its client still waits for it: both clients
\* take 201 and 409 alike as "registered" and go on to GET the isu.
Deliver(r, status) ==
    LET u == arg[r].user IN
    client' =
        IF client[u].state = "posting" /\ client[u].req = r
        THEN [client EXCEPT ![u] =
                 Settled(u, IF status \in {201, 409} THEN "confirming" ELSE "failed")]
        ELSE client

\* GET /api/isu/:jia_isu_uuid, which reads the caller's own committed row.
\* A browser leaves on 404 (IsuRoot); the benchmarker asks again.
ConfirmFound(u) ==
    /\ client[u].state = "confirming"
    /\ Cardinality(pool) < ConnLimit
    /\ u \in user
    /\ isu[client[u].uuid].jia_user_id = u
    /\ client' = [client EXCEPT ![u] = Settled(u, "done")]
    /\ UNCHANGED <<user, isu, tx, activated, pc, arg, pool, answers, faults>>

ConfirmNotFound(u) ==
    /\ client[u].state = "confirming"
    /\ Cardinality(pool) < ConnLimit
    /\ isu[client[u].uuid].jia_user_id # u
    /\ u \notin BenchUser
    /\ client' = [client EXCEPT ![u] = IdleClient]
    /\ UNCHANGED <<user, isu, tx, activated, pc, arg, pool, answers, faults>>

\* POST /api/auth: INSERT IGNORE, one statement on a connection of the pool.
PostAuth(u) ==
    /\ u \notin user
    /\ Cardinality(pool) < ConnLimit
    /\ user' = user \cup {u}
    /\ UNCHANGED <<isu, tx, activated, pc, arg, pool, client, answers, faults>>

----------------------------------------------------------------------------
(* The handler. *)

\* Mutant: a return that goes past the release.
FinishKeepsConnection(r, status) ==
    /\ pc' = [pc EXCEPT ![r] = "free"]
    /\ tx' = [tx EXCEPT ![r] = NoRow]
    /\ answers' = IF status \in {201, 409}
                  THEN answers \cup {<<arg[r].user, arg[r].uuid, status>>}
                  ELSE answers
    /\ Deliver(r, status)
    /\ arg' = [arg EXCEPT ![r] = NoArg]
    /\ UNCHANGED <<user, isu, activated, pool>>

\* Any answer that ends the request: the transaction (if any) is rolled back,
\* the answer is sent, and the finally block gives the connection back.
\* Only 201 and 409 say something about the row.
Finish(r, status) ==
    /\ pc' = [pc EXCEPT ![r] = "free"]
    /\ tx' = [tx EXCEPT ![r] = NoRow]
    /\ pool' = pool \ {r}
    /\ answers' = IF status \in {201, 409}
                  THEN answers \cup {<<arg[r].user, arg[r].uuid, status>>}
                  ELSE answers
    /\ Deliver(r, status)
    /\ arg' = [arg EXCEPT ![r] = NoArg]
    /\ UNCHANGED <<user, isu, activated>>

\* The handler goes on to its next await.
Proceed(r, next) ==
    /\ pc' = [pc EXCEPT ![r] = next]
    /\ UNCHANGED <<user, isu, activated, arg, pool, client, answers, faults>>

\* const db = await pool.getConnection()
GetConnection(r) ==
    /\ pc[r] = "accepted"
    /\ Cardinality(pool) < ConnLimit
    /\ pool' = pool \cup {r}
    /\ pc' = [pc EXCEPT ![r] = "auth"]
    /\ UNCHANGED <<user, isu, tx, activated, arg, client, answers, faults>>

\* It may reject; the await stands before the try, so no answer is ever sent.
GetConnectionRejects(r) ==
    /\ pc[r] = "accepted"
    /\ Fault
    /\ pc' = [pc EXCEPT ![r] = "free"]
    /\ arg' = [arg EXCEPT ![r] = NoArg]
    /\ UNCHANGED <<user, isu, tx, activated, pool, client, answers>>

\* getUserIdFromSession: 401 unless the cookie's user has a row.
AuthFails(r) ==
    /\ pc[r] = "auth"
    /\ arg[r].user \notin user
    /\ Finish(r, 401)
    /\ UNCHANGED faults

\* The icon is in memory and the transaction is begun.
AuthSucceeds(r) ==
    /\ pc[r] = "auth"
    /\ arg[r].user \in user
    /\ Proceed(r, "insert")
    /\ UNCHANGED tx

\* Mutant: no unique key, only a look at the committed rows.
InsertUnlocked(r) ==
    /\ pc[r] = "insert"
    /\ isu[arg[r].uuid] = NoRow
    /\ tx' = [tx EXCEPT ![r] = [jia_user_id |-> arg[r].user, character |-> NoCharacter]]
    /\ Proceed(r, "geturl")

\* INSERT: waits while another transaction holds the uuid's index entry.
Insert(r) ==
    /\ pc[r] = "insert"
    /\ ~LockedByOther(r)
    /\ isu[arg[r].uuid] = NoRow
    /\ tx' = [tx EXCEPT ![r] = [jia_user_id |-> arg[r].user, character |-> NoCharacter]]
    /\ Proceed(r, "geturl")

\* Mutant: 409 at once when another transaction is registering the uuid.
InsertDuplicateDirty(r) ==
    /\ pc[r] = "insert"
    /\ isu[arg[r].uuid] # NoRow \/ LockedByOther(r)
    /\ Finish(r, 409)
    /\ UNCHANGED faults

\* errno 1062: a committed row has the uuid; rollback and 409.
InsertDuplicate(r) ==
    /\ pc[r] = "insert"
    /\ ~LockedByOther(r)
    /\ isu[arg[r].uuid] # NoRow
    /\ Finish(r, 409)
    /\ UNCHANGED faults

\* Mutant: commits before it asks the JIA.
RequestActivationAfterCommit(r) ==
    /\ pc[r] = "geturl"
    /\ arg[r].uuid \in KnownIsu
    /\ Proceed(r, "update")
    /\ UNCHANGED tx

\* getJIAServiceUrl, then axios.post sends the activation.
RequestActivation(r) ==
    /\ pc[r] = "geturl"
    /\ Proceed(r, "activating")
    /\ UNCHANGED tx

\* The JIA serves the activation: it starts posting, once, for an isu it
\* knows and answers 202 each time.
JiaActivates(r) ==
    /\ pc[r] = "activating"
    /\ arg[r].uuid \in KnownIsu
    /\ activated' = activated \cup {arg[r].uuid}
    /\ pc' = [pc EXCEPT ![r] = "answered"]
    /\ UNCHANGED <<user, isu, tx, arg, pool, client, answers, faults>>

\* response.status !== 202: the JIA's status is passed on after a rollback.
JiaRefuses(r) ==
    /\ pc[r] = "activating"
    /\ arg[r].uuid \notin KnownIsu
    /\ Finish(r, 404)
    /\ UNCHANGED faults

\* The 202 arrives, with the isu's character.
ReceiveCharacter(r) ==
    /\ pc[r] = "answered"
    /\ Proceed(r, "update")
    /\ UNCHANGED tx

\* UPDATE `isu` SET `character`, and the SELECT of the row for the answer.
UpdateCharacter(r) ==
    /\ pc[r] = "update"
    /\ tx' = [tx EXCEPT ![r] = [jia_user_id |-> tx[r].jia_user_id,
                               character |-> CharacterOf[arg[r].uuid]]]
    /\ Proceed(r, "commit")

\* MySQL commits: the row becomes visible and its lock is gone.
DbCommits(r) ==
    /\ pc[r] \in {"commit", "orphanCommit"}
    /\ isu' = [isu EXCEPT ![arg[r].uuid] = tx[r]]
    /\ tx' = [tx EXCEPT ![r] = NoRow]
    /\ pc' = [pc EXCEPT ![r] = IF pc[r] = "commit" THEN "committed" ELSE "free"]
    /\ arg' = [arg EXCEPT ![r] = IF pc[r] = "commit" THEN arg[r] ELSE NoArg]
    /\ UNCHANGED <<user, activated, pool, client, answers, faults>>

\* The commit is acknowledged; 201.
AnswerCreated(r) ==
    /\ pc[r] = "committed"
    /\ Finish(r, 201)
    /\ UNCHANGED faults

\* A statement fails with its connection alive (a lock wait timeout, an InnoDB
\* deadlock, any error of MySQL), or readFile or axios rejects: rollback, 500.
\* An activation that failed at the node side may have reached the JIA.  From
\* "auth" it also stands for the upload multer refused: 400, nothing begun.
StepFails(r) ==
    /\ pc[r] \in Authenticating \cup InTransaction
    /\ Fault
    /\ Finish(r, 500)

----------------------------------------------------------------------------
(* Failures below the handler. *)

\* What becomes of a slot whose process or connection is gone.  An open
\* transaction stays in MySQL until it notices; a COMMIT that was sent may
\* still be executed.
Abandon(p) ==
    CASE p = "commit" -> "orphanCommit"
      [] p \in InTransaction \ {"commit"} -> "orphan"
      [] p \in Orphaned -> p
      [] OTHER -> "free"

AbandonAll(R) ==
    /\ pc' = [r \in Req |-> IF r \in R THEN Abandon(pc[r]) ELSE pc[r]]
    /\ arg' = [r \in Req |->
                 IF r \in R /\ Abandon(pc[r]) = "free" THEN NoArg ELSE arg[r]]
    /\ pool' = pool \ R

\* Activation requests the handlers in R have on their way may yet be served.
InFlight(R) ==
    {arg[r].uuid : r \in {q \in R : pc[q] = "activating"}} \cap KnownIsu

\* The connection dies: the statement rejects, db.rollback() in the catch
\* rejects too, and the finally block still releases.  No answer is sent
\* (on the node v14 of provisioning an unhandled rejection is only a warning).
LoseConnection(r) ==
    /\ pc[r] \in InTransaction \cup {"committed"}
    /\ Fault
    /\ AbandonAll({r})
    /\ \E late \in SUBSET InFlight({r}) : activated' = activated \cup late
    /\ UNCHANGED <<user, isu, tx, client, answers>>

\* The node process dies and systemd restarts it (Restart=always): the pool
\* is new and empty, every answer pending is lost.
Crash ==
    /\ Fault
    /\ AbandonAll(Req)
    /\ \E late \in SUBSET InFlight(Req) : activated' = activated \cup late
    /\ UNCHANGED <<user, isu, tx, client, answers>>

\* MySQL notices that a session is gone and rolls its transaction back.
DbReaps(r) ==
    /\ pc[r] \in Orphaned
    /\ pc' = [pc EXCEPT ![r] = "free"]
    /\ tx' = [tx EXCEPT ![r] = NoRow]
    /\ arg' = [arg EXCEPT ![r] = NoArg]
    /\ UNCHANGED <<user, isu, activated, pool, client, answers, faults>>

----------------------------------------------------------------------------
ClientNext(u) ==
    \/ \E i \in Isu, r \in Req : StartRegister(u, i, r)
    \/ \E r \in Req : Retry(u, r)
    \/ ShowError(u)
    \/ ClientTimeout(u)
    \/ ClientUnanswered(u)
    \/ ConfirmFound(u)
    \/ ConfirmNotFound(u)
    \/ PostAuth(u)

Handler(r) ==
    \/ GetConnection(r)
    \/ GetConnectionRejects(r)
    \/ AuthFails(r)
    \/ AuthSucceeds(r)
    \/ Insert(r)
    \/ InsertDuplicate(r)
    \/ RequestActivation(r)
    \/ JiaActivates(r)
    \/ JiaRefuses(r)
    \/ ReceiveCharacter(r)
    \/ UpdateCharacter(r)
    \/ DbCommits(r)
    \/ AnswerCreated(r)
    \/ StepFails(r)

Failure(r) ==
    \/ LoseConnection(r)
    \/ DbReaps(r)

Next ==
    \/ \E u \in User : ClientNext(u)
    \/ \E r \in Req : Handler(r)
    \/ \E r \in Req : Failure(r)
    \/ Crash

Spec == Init /\ [][Next]_vars

(***************************************************************************)
(* The node event loop, MySQL and the JIA go on with what they have begun. *)
(* A connection, an index lock and (for the benchmarker) a free slot are   *)
(* queued for in order, hence strong fairness on the steps that wait for   *)
(* one.  Browsers owe nothing.                                             *)
(***************************************************************************)
HandlerFairness(r) ==
    /\ SF_vars(GetConnection(r))
    /\ WF_vars(AuthFails(r) \/ AuthSucceeds(r))
    /\ SF_vars(Insert(r) \/ InsertDuplicate(r))
    /\ WF_vars(RequestActivation(r))
    /\ WF_vars(JiaActivates(r) \/ JiaRefuses(r))
    /\ WF_vars(ReceiveCharacter(r))
    /\ WF_vars(UpdateCharacter(r))
    /\ WF_vars(DbCommits(r) \/ DbReaps(r))
    /\ WF_vars(AnswerCreated(r))

ClientFairness(u) ==
    /\ SF_vars(PostAuth(u))
    /\ SF_vars(\E r \in Req : Retry(u, r))
    /\ WF_vars(ClientUnanswered(u))
    /\ SF_vars(ConfirmFound(u))

FairSpec ==
    /\ Spec
    /\ \A r \in Req : HandlerFairness(r)
    /\ \A u \in BenchUser : ClientFairness(u)

----------------------------------------------------------------------------
(* Properties. *)

\* The rows, the handlers and the clients keep their types, and the pool never
\* hands out more connections than its limit.
TypeOK ==
    /\ user \subseteq User
    /\ isu \in [Isu -> Row \cup {NoRow}]
    /\ tx \in [Req -> Row \cup {NoRow}]
    /\ activated \subseteq KnownIsu
    /\ pc \in [Req -> PC]
    /\ arg \in [Req -> [user : User \cup {NoUser}, uuid : Isu \cup {NoIsu}]]
    /\ pool \subseteq Req /\ Cardinality(pool) <= ConnLimit
    /\ client \in [User -> [state : ClientState, uuid : Isu \cup {NoIsu},
                            req : Req \cup {NoReq}]]
    /\ answers \subseteq Answer
    /\ faults \in 0..MaxFaults

\* An isu anyone can see is active at the JIA and has the character the JIA
\* gave it: the external call happens inside the transaction, before COMMIT.
RegisteredIsActivated ==
    \A i \in Isu : isu[i] # NoRow =>
        i \in activated /\ isu[i].character = CharacterOf[i]

\* Whoever was ever answered 201 owns the row, whatever crashed or was
\* retried since; hence no two users are ever answered 201 for one isu.
CreatedIsDurable ==
    \A u \in User, i \in Isu :
        <<u, i, 201>> \in answers => isu[i].jia_user_id = u

\* 409 is answered only of a row that is committed, never of one that the
\* other transaction may still roll back.
ConflictIsReal ==
    \A u \in User, i \in Isu :
        <<u, i, 409>> \in answers => isu[i].jia_user_id # NoUser

\* The benchmarker takes 409 for "an earlier attempt of mine went through":
\* true across its timeouts, crashes and attempts still running.
BenchConflictIsMine ==
    \A u \in BenchUser : client[u].state \in {"confirming", "done"} =>
        isu[client[u].uuid].jia_user_id = u

\* Every path out of the handler gives its connection back, and no path
\* gives it back early.
NoConnectionLeak ==
    pool = {r \in Req : pc[r] \in Holding}

\* Every request comes to an end, a JIA that answers and finitely many
\* faults given: a pool of connections held across an HTTP call, and locks
\* held across it, do not make the handlers wait for one another in a circle.
EveryRequestEnds ==
    \A r \in Req : pc[r] # "free" ~> pc[r] = "free"

\* The benchmarker's retries end with the isu registered and confirmed.
BenchRegisters ==
    \A u \in BenchUser : client[u].state = "posting" ~> client[u].state = "done"

\* The strengthening that makes the above inductive.
\* A request being served carries its caller and a uuid that caller wants.
ArgsInv ==
    \A r \in Req : pc[r] # "free" =>
        arg[r].user \in User /\ arg[r].uuid \in Wants[arg[r].user]

\* A transaction's row is its caller's own, and only it may take the uuid.
LockInv ==
    \A r \in Req :
        /\ pc[r] \in RowLocked => tx[r].jia_user_id = arg[r].user
        /\ tx[r] # NoRow =>
               /\ pc[r] \in RowLocked \cup {"orphan"}
               /\ isu[arg[r].uuid] = NoRow
               /\ ~LockedByOther(r)

\* How far the handler stands is how much of the registration is true.
ProgressInv ==
    \A r \in Req :
        /\ pc[r] \in {"answered", "update", "commit", "orphanCommit"} =>
               arg[r].uuid \in activated
        /\ pc[r] \in {"commit", "orphanCommit"} =>
               tx[r].character = CharacterOf[arg[r].uuid]
        /\ pc[r] = "committed" => isu[arg[r].uuid].jia_user_id = arg[r].user

\* A client waits for an answer about the isu it asked for, and only who
\* wants an isu owns it.
ClientInv ==
    /\ \A u \in User :
          /\ client[u].state # "idle" => client[u].uuid \in Wants[u]
          /\ client[u].state = "posting" =>
                /\ client[u].req \in Req
                /\ Served(u) => arg[client[u].req].uuid = client[u].uuid
    /\ \A i \in Isu : isu[i] # NoRow => i \in Wants[isu[i].jia_user_id]

IndInv ==
    /\ TypeOK
    /\ NoConnectionLeak
    /\ ArgsInv
    /\ LockInv
    /\ ProgressInv
    /\ ClientInv
    /\ RegisteredIsActivated
    /\ CreatedIsDurable
    /\ ConflictIsReal
    /\ BenchConflictIsMine

\* The abstract registry a caller may think of: an isu is taken at COMMIT.
Registry == INSTANCE IsuRegistry
    WITH owner <- [i \in Isu |-> isu[i].jia_user_id], answers <- answers

\* The transaction, the lock and the crashes are invisible: each step of the
\* handler is one step of the registry or none.
ImplementsRegistry == Registry!Spec

============================================================================
