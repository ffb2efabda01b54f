----------------------------- MODULE Initialize -----------------------------
(***************************************************************************)
(* POST /initialize of webapp/nodejs/src/app.ts: the script that drops,    *)
(* creates and fills the tables (webapp/sql), the row of the configuration *)
(* written after it, and the requests of an earlier run that are still     *)
(* being served meanwhile.                                                 *)
(*                                                                         *)
(* MySQL: a statement of a transaction takes a metadata lock on its table  *)
(* that is held to the end of the transaction; DROP TABLE waits for these  *)
(* locks, and nobody takes a new one while it waits.  The mysql client     *)
(* ends at the first statement that fails.                                 *)
(***************************************************************************)
EXTENDS Integers, Sequences

CONSTANTS
    Req,      \* slots for requests being served
    Url       \* URLs of the JIA service that are asked for

ASSUME UrlAssumption == Url \cap {"none", "default"} = {}

VARIABLES
    exists,     \* tables that exist
    rows,       \* whose rows each table has: of the initial data, of a run
    url,        \* the row jia_service_url of isu_association_config
    handler,    \* of POST /initialize
    step,       \* the statement init.sh has come to
    requested,  \* the URL asked for by the latest POST /initialize
    answer,     \* the status it was answered with
    pc,         \* where the handler serving each slot stands
    jia         \* the URL each registration calls

tables == <<exists, rows, url>>
init == <<handler, step, requested, answer>>
vars == <<tables, init, pc, jia>>

----------------------------------------------------------------------------
Table == {"isu_association_config", "isu_condition", "isu", "user"}
NoUrl == "none"
DefaultUrl == "default"   \* defaultJIAServiceUrl

\* 0_Schema.sql, and 1_InitData.sql after it.
Script == <<
    <<"drop", "isu_association_config">>, <<"drop", "isu_condition">>,
    <<"drop", "isu">>, <<"drop", "user">>,
    <<"create", "isu">>, <<"create", "isu_condition">>,
    <<"create", "user">>, <<"create", "isu_association_config">>,
    <<"insert", "user">>, <<"insert", "isu">>, <<"insert", "isu_condition">> >>

\* Mutant: the COUNT of the isu is not in the transaction of the INSERTs.
LocksWithoutCount == [
    free        |-> {},
    counted     |-> {},
    inserted    |-> {"isu_condition"},
    registering |-> {"isu"},
    activating  |-> {"isu", "isu_association_config"}]

\* Metadata locks of the transaction of a request, by what it has done.
Locks == [
    free        |-> {},
    counted     |-> {"isu"},
    inserted    |-> {"isu", "isu_condition"},
    registering |-> {"isu"},
    activating  |-> {"isu", "isu_association_config"}]

IsLocked(t) == \E r \in Req : t \in Locks[pc[r]]

DropWaits(t) ==
    /\ handler = "script" /\ step <= Len(Script)
    /\ Script[step] = <<"drop", t>>
    /\ IsLocked(t)

----------------------------------------------------------------------------
Init ==
    /\ exists = Table
    /\ rows = [t \in Table |-> IF t = "isu_association_config" THEN {} ELSE {"initial"}]
    /\ url = NoUrl
    /\ handler = "idle"
    /\ step = 1
    /\ requested = NoUrl
    /\ answer = 0
    /\ pc = [r \in Req |-> "free"]
    /\ jia = [r \in Req |-> NoUrl]

----------------------------------------------------------------------------
(* POST /initialize. *)

\* A body without a URL is refused before anything is done.
Start(u) ==
    /\ handler = "idle"
    /\ handler' = "script"
    /\ step' = 1
    /\ requested' = u
    /\ answer' = 0
    /\ UNCHANGED <<tables, pc, jia>>

\* init.sh: DROP TABLE IF EXISTS, CREATE TABLE, INSERT.
RunStatement ==
    /\ handler = "script"
    /\ step <= Len(Script)
    /\ LET t == Script[step][2]
       IN  \/ /\ Script[step][1] = "drop"
              /\ ~IsLocked(t)
              /\ exists' = exists \ {t}
              /\ rows' = [rows EXCEPT ![t] = {}]
              /\ url' = IF t = "isu_association_config" THEN NoUrl ELSE url
           \/ /\ Script[step][1] = "create"
              /\ exists' = exists \cup {t}
              /\ UNCHANGED <<rows, url>>
           \/ /\ Script[step][1] = "insert"
              /\ rows' = [rows EXCEPT ![t] = @ \cup {"initial"}]
              /\ UNCHANGED <<exists, url>>
    /\ step' = step + 1
    /\ UNCHANGED <<handler, requested, answer, pc, jia>>

\* cmd.on("exit") with code 0.
ScriptEnds ==
    /\ handler = "script"
    /\ step > Len(Script)
    /\ handler' = "config"
    /\ UNCHANGED <<tables, step, requested, answer, pc, jia>>


\* cmd.on("exit") with another code, or killed: the promise is resolved all
\* the same.
ScriptFails ==
    /\ handler = "script"
    /\ handler' = "config"
    /\ UNCHANGED <<tables, step, requested, answer, pc, jia>>

\* cmd.on("error"): the script cannot be started.
SpawnFails ==
    /\ handler = "script"
    /\ step = 1
    /\ handler' = "idle"
    /\ answer' = 500
    /\ UNCHANGED <<tables, step, requested, pc, jia>>

\* pool.getConnection rejects between the two try blocks: no answer is sent.
GetConnectionRejects ==
    /\ handler = "config"
    /\ handler' = "idle"
    /\ UNCHANGED <<tables, step, requested, answer, pc, jia>>

\* Mutant: INSERT IGNORE, which leaves a row that is there.
WriteConfigIgnore ==
    /\ handler = "config"
    /\ "isu_association_config" \in exists
    /\ url' = IF url = NoUrl THEN requested ELSE url
    /\ handler' = "idle"
    /\ answer' = 200
    /\ UNCHANGED <<exists, rows, step, requested, pc, jia>>

\* INSERT ... ON DUPLICATE KEY UPDATE, and 200.
WriteConfig ==
    /\ handler = "config"
    /\ "isu_association_config" \in exists
    /\ url' = requested
    /\ handler' = "idle"
    /\ answer' = 200
    /\ UNCHANGED <<exists, rows, step, requested, pc, jia>>

\* The table is missing, or the statement fails.
WriteConfigFails ==
    /\ handler = "config"
    /\ handler' = "idle"
    /\ answer' = 500
    /\ UNCHANGED <<tables, step, requested, pc, jia>>

----------------------------------------------------------------------------
(* POST /api/condition for an isu of a run. *)

\* A statement that fails: rollback, the locks are gone.
Rollback(r) ==
    /\ pc' = [pc EXCEPT ![r] = "free"]
    /\ jia' = [jia EXCEPT ![r] = NoUrl]
    /\ UNCHANGED <<tables, init>>

\* No table or no row: 500 or 404, and nothing has changed.
CountIsu(r) ==
    /\ pc[r] = "free"
    /\ ~DropWaits("isu")
    /\ "run" \in rows["isu"]
    /\ pc' = [pc EXCEPT ![r] = "counted"]
    /\ UNCHANGED <<tables, init, jia>>

InsertCondition(r) ==
    /\ pc[r] = "counted"
    /\ ~DropWaits("isu_condition")
    /\ IF "isu_condition" \in exists
       THEN pc' = [pc EXCEPT ![r] = "inserted"] /\ UNCHANGED <<tables, init, jia>>
       ELSE Rollback(r)

CommitCondition(r) ==
    /\ pc[r] = "inserted"
    /\ rows' = [rows EXCEPT !["isu_condition"] = @ \cup {"run"}]
    /\ pc' = [pc EXCEPT ![r] = "free"]
    /\ UNCHANGED <<exists, url, init, jia>>

----------------------------------------------------------------------------
(* POST /api/isu. *)

InsertIsu(r) ==
    /\ pc[r] = "free"
    /\ "isu" \in exists /\ ~DropWaits("isu")
    /\ pc' = [pc EXCEPT ![r] = "registering"]
    /\ UNCHANGED <<tables, init, jia>>

\* getJIAServiceUrl, in the same transaction.
GetJIAServiceUrl(r) ==
    /\ pc[r] = "registering"
    /\ ~DropWaits("isu_association_config")
    /\ IF "isu_association_config" \in exists
       THEN /\ pc' = [pc EXCEPT ![r] = "activating"]
            /\ jia' = [jia EXCEPT ![r] = IF url = NoUrl THEN DefaultUrl ELSE url]
            /\ UNCHANGED <<tables, init>>
       ELSE Rollback(r)

CommitIsu(r) ==
    /\ pc[r] = "activating"
    /\ rows' = [rows EXCEPT !["isu"] = @ \cup {"run"}]
    /\ pc' = [pc EXCEPT ![r] = "free"]
    /\ jia' = [jia EXCEPT ![r] = NoUrl]
    /\ UNCHANGED <<exists, url, init>>

\* An error of the database or the JIA: rollback.
RequestFails(r) ==
    /\ pc[r] \in {"counted", "inserted", "registering", "activating"}
    /\ Rollback(r)

----------------------------------------------------------------------------
InitializeStep ==
    \/ RunStatement
    \/ ScriptEnds
    \/ ScriptFails
    \/ SpawnFails
    \/ GetConnectionRejects
    \/ WriteConfig
    \/ WriteConfigFails

RequestEnds(r) ==
    \/ InsertCondition(r) \/ CommitCondition(r)
    \/ GetJIAServiceUrl(r) \/ CommitIsu(r) \/ RequestFails(r)

Next ==
    \/ \E u \in Url : Start(u)
    \/ InitializeStep
    \/ \E r \in Req : CountIsu(r) \/ InsertIsu(r) \/ RequestEnds(r)

Spec == Init /\ [][Next]_vars

\* The script and the handlers go on, and a request that waits for nothing
\* but the database and the JIA ends.
FairSpec ==
    /\ Spec
    /\ WF_vars(InitializeStep)
    /\ \A r \in Req : WF_vars(RequestEnds(r))

----------------------------------------------------------------------------
(* Properties. *)

Urls == Url \cup {NoUrl}

\* Tables that do not exist have no rows; the handlers stand where they may.
TypeOK ==
    /\ exists \subseteq Table
    /\ rows \in [Table -> SUBSET {"initial", "run"}]
    /\ \A t \in Table \ exists : rows[t] = {}
    /\ url \in Urls /\ requested \in Urls
    /\ "isu_association_config" \notin exists => url = NoUrl
    /\ handler \in {"idle", "script", "config"}
    /\ step \in 1..(Len(Script) + 1)
    /\ answer \in {0, 200, 500}
    /\ pc \in [Req -> {"free", "counted", "inserted", "registering", "activating"}]
    /\ jia \in [Req -> Urls \cup {DefaultUrl}]

\* However requests and the script interleave, and wherever the script
\* breaks off, no condition of a run is left without the isu of that run.
NoConditionWithoutIsu ==
    "run" \in rows["isu_condition"] => "run" \in rows["isu"]

\* Between two initializations a registration calls the JIA service that the
\* last one asked for, if it was answered 200, whatever its script did.
ActivatesAtRequestedUrl ==
    [][\A r \in Req :
           pc'[r] = "activating" /\ pc[r] # "activating"
               /\ handler = "idle" /\ answer = 200
               => jia'[r] = requested]_vars


============================================================================
