-------------------------- MODULE InitializeProofs --------------------------
(***************************************************************************)
(* Theorems about module Initialize, for any number of requests and URLs:  *)
(* no interleaving of the script with requests of an earlier run leaves a  *)
(* condition without its isu, and a registration calls the JIA service     *)
(* that the last answered initialization asked for.                        *)
(*                                                                         *)
(* The first rests on the order of the DROPs and on the metadata locks:    *)
(* between DROP isu_condition and DROP isu nobody can add a condition      *)
(* (BetweenDrops), and DROP isu waits for every request that has counted   *)
(* the isu (CountedInv).                                                   *)
(***************************************************************************)
EXTENDS Initialize, TLAPS

Stand == {"free", "counted", "inserted", "registering", "activating"}

TypeInv ==
    /\ exists \subseteq Table
    /\ rows \in [Table -> SUBSET {"initial", "run"}]
    /\ url \in Urls /\ requested \in Urls
    /\ handler \in {"idle", "script", "config"}
    /\ step \in Nat \ {0}
    /\ pc \in [Req -> Stand]
    /\ jia \in [Req -> Urls \cup {DefaultUrl}]

HasRun(t) == "run" \in rows[t]

\* A request that has counted the isu holds the lock that keeps it.
CountedInv == \A r \in Req : pc[r] \in {"counted", "inserted"} => HasRun("isu")

\* The statement before DROP isu has dropped the conditions.
BetweenDrops ==
    handler = "script" /\ step = 3 =>
        /\ "isu_condition" \notin exists
        /\ ~HasRun("isu_condition")
        /\ \A r \in Req : pc[r] # "inserted"

RowsInv == CountedInv /\ BetweenDrops /\ NoConditionWithoutIsu

\* The answer 200 is given in the step that writes the URL.
UrlInv ==
    /\ handler # "idle" => answer = 0 /\ requested \in Url
    /\ handler = "idle" /\ answer = 200 => url = requested /\ requested \in Url

InitializeInv == TypeInv /\ RowsInv /\ UrlInv

----------------------------------------------------------------------------
\* What the script does to the rows of the runs.
LEMMA ScriptStatements ==
    /\ Len(Script) = 11
    /\ Script[2] = <<"drop", "isu_condition">>
    /\ \A i \in 1..11 :
           /\ Script[i][1] \in {"drop", "create", "insert"}
           /\ Script[i][2] \in Table
           /\ Script[i][1] = "drop" /\ Script[i][2] = "isu" => i = 3
BY DEF Script, Table

LEMMA InitializeInit == Init => InitializeInv
<1> SUFFICES ASSUME Init PROVE InitializeInv
    OBVIOUS
<1>1. TypeInv
    BY DEF Init, TypeInv, Stand, Table, Urls
<1>2. \A t \in Table : ~HasRun(t)
    BY DEF Init, HasRun
<1>3. RowsInv
    BY <1>2 DEF Init, RowsInv, CountedInv, BetweenDrops, NoConditionWithoutIsu, HasRun, Table
<1>4. UrlInv
    BY DEF Init, UrlInv
<1> QED
    BY <1>1, <1>3, <1>4 DEF InitializeInv

\* A statement of the script.
LEMMA StatementStep == ASSUME InitializeInv, RunStatement PROVE InitializeInv'
<1> USE DEF InitializeInv
<1> DEFINE t == Script[step][2]
           do == Script[step][1]
<1>1. /\ handler = "script" /\ handler' = "script" /\ step \in 1..11 /\ step' = step + 1
      /\ UNCHANGED <<requested, answer, pc, jia>>
    BY ScriptStatements DEF RunStatement, TypeInv
<1>2. \/ /\ do = "drop" /\ ~IsLocked(t)
         /\ exists' = exists \ {t} /\ rows' = [rows EXCEPT ![t] = {}]
      \/ do = "create" /\ exists' = exists \cup {t} /\ rows' = rows
      \/ /\ do = "insert"
         /\ exists' = exists /\ rows' = [rows EXCEPT ![t] = @ \cup {"initial"}]
    BY DEF RunStatement
<1>3. /\ t \in Table /\ do \in {"drop", "create", "insert"}
      /\ do = "drop" /\ t = "isu" => step = 3
      /\ step = 2 => t = "isu_condition" /\ do = "drop"
    BY <1>1, ScriptStatements
<1>4. {"isu", "isu_condition"} \subseteq Table
    BY DEF Table
<1> HIDE DEF t, do
<1>5. TypeInv'
    BY <1>1, <1>2, <1>3 DEF TypeInv, RunStatement, Urls, t
<1>6. \A u \in Table : HasRun(u)' <=> HasRun(u) /\ ~(do = "drop" /\ u = t)
    <2>1. CASE do = "drop"
        BY <1>2, <1>3, <2>1 DEF TypeInv, HasRun
    <2>2. CASE do = "create"
        BY <1>2, <2>2 DEF HasRun
    <2>3. CASE do = "insert"
        BY <1>2, <1>3, <2>3 DEF TypeInv, HasRun
    <2> QED
        BY <1>3, <2>1, <2>2, <2>3
<1>7. CountedInv'
    <2> SUFFICES ASSUME NEW r \in Req, pc[r] \in {"counted", "inserted"} PROVE HasRun("isu")'
        BY <1>1 DEF CountedInv
    <2>1. HasRun("isu")
        BY DEF RowsInv, CountedInv
    <2>2. "isu" \in Locks[pc[r]]
        BY DEF Locks
    <2>3. ~(do = "drop" /\ t = "isu")
        BY <1>2, <2>2 DEF IsLocked
    <2> QED
        BY <1>4, <1>6, <2>1, <2>3
<1>8. BetweenDrops'
    <2> SUFFICES ASSUME step = 2
                 PROVE  /\ "isu_condition" \notin exists'
                        /\ ~HasRun("isu_condition")'
                        /\ \A r \in Req : pc[r] # "inserted"
        BY <1>1 DEF BetweenDrops
    <2>1. t = "isu_condition" /\ do = "drop"
        BY <1>3
    <2>2. ASSUME NEW r \in Req PROVE pc[r] # "inserted"
        BY <1>2, <2>1 DEF IsLocked, Locks
    <2> QED
        BY <1>2, <1>4, <1>6, <2>1, <2>2
<1>9. NoConditionWithoutIsu'
    <2> SUFFICES ASSUME HasRun("isu_condition")' PROVE HasRun("isu")'
        BY DEF NoConditionWithoutIsu, HasRun
    <2>1. HasRun("isu_condition") /\ HasRun("isu")
        BY <1>4, <1>6 DEF RowsInv, NoConditionWithoutIsu, HasRun
    <2>2. step # 3
        BY <1>1, <2>1 DEF RowsInv, BetweenDrops
    <2> QED
        BY <1>3, <1>4, <1>6, <2>1, <2>2
<1>10. UrlInv'
    BY <1>1 DEF UrlInv
<1> QED
    BY <1>5, <1>7, <1>8, <1>9, <1>10 DEF RowsInv

\* The rest of POST /initialize leaves the rows alone.
LEMMA HandlerSteps ==
    ASSUME InitializeInv, (\E u \in Url : Start(u)) \/ (InitializeStep /\ ~RunStatement)
    PROVE  InitializeInv'
<1> USE DEF InitializeInv
<1>1. /\ UNCHANGED <<exists, rows, pc, jia>>
      /\ handler' \in {"idle", "script", "config"}
      /\ step' \in Nat \ {0} /\ (handler' = "script" => step' = 1)
    BY DEF InitializeStep, Start, ScriptEnds, ScriptFails, SpawnFails, GetConnectionRejects,
        WriteConfig, WriteConfigFails, TypeInv, tables
<1>2. TypeInv'
    <2>1. url' \in Urls /\ requested' \in Urls
        BY DEF InitializeStep, Start, ScriptEnds, ScriptFails, SpawnFails, GetConnectionRejects,
            WriteConfig, WriteConfigFails, TypeInv, Urls, tables
    <2> QED
        BY <1>1, <2>1 DEF TypeInv
<1>3. RowsInv'
    BY <1>1 DEF RowsInv, CountedInv, BetweenDrops, NoConditionWithoutIsu, HasRun
<1>4. UrlInv'
    BY DEF InitializeStep, Start, ScriptEnds, ScriptFails, SpawnFails, GetConnectionRejects,
        WriteConfig, WriteConfigFails, UrlInv, tables
<1> QED
    BY <1>2, <1>3, <1>4

\* What a step of a request does to the rows of the runs.
LEMMA RequestEffects ==
    ASSUME TypeInv, NEW r \in Req, CountIsu(r) \/ InsertIsu(r) \/ RequestEnds(r)
    PROVE  /\ UNCHANGED <<exists, url, handler, step, requested, answer>>
           /\ TypeInv'
           /\ \A q \in Req : q # r => pc'[q] = pc[q]
           /\ pc'[r] = "counted" => HasRun("isu")
           /\ pc'[r] = "inserted" => pc[r] = "counted" /\ "isu_condition" \in exists
           /\ HasRun("isu") => HasRun("isu")'
           /\ HasRun("isu_condition")' => HasRun("isu_condition") \/ pc[r] = "inserted"
<1> USE DEF TypeInv, HasRun, Stand
<1>1. UNCHANGED <<exists, url, handler, step, requested, answer>>
    BY DEF CountIsu, InsertIsu, RequestEnds, InsertCondition, CommitCondition, GetJIAServiceUrl,
        CommitIsu, RequestFails, Rollback, tables, init
<1>2. {"isu", "isu_condition"} \subseteq Table
    BY DEF Table
<1> DEFINE Stands(at) ==
        /\ rows' = rows /\ pc' = [pc EXCEPT ![r] = at]
        /\ \/ jia' = jia
           \/ \E u \in Urls \cup {DefaultUrl} : jia' = [jia EXCEPT ![r] = u]
        /\ at = "counted" => HasRun("isu")
        /\ at = "inserted" => pc[r] = "counted" /\ "isu_condition" \in exists
<1>3. ASSUME NEW at \in Stand, Stands(at)
      PROVE  /\ TypeInv'
             /\ \A q \in Req : q # r => pc'[q] = pc[q]
             /\ pc'[r] = at
             /\ HasRun("isu")' = HasRun("isu")
             /\ HasRun("isu_condition")' = HasRun("isu_condition")
    BY <1>1, <1>3
<1>4. CASE CountIsu(r)
    <2>1. Stands("counted")
        BY <1>4 DEF CountIsu, tables
    <2> QED
        BY <1>1, <1>3, <2>1
<1>5. CASE InsertIsu(r)
    <2>1. Stands("registering")
        BY <1>5 DEF InsertIsu, tables
    <2> QED
        BY <1>1, <1>3, <2>1
<1>6. CASE Rollback(r)
    <2>1. Stands("free")
        BY <1>6 DEF Rollback, tables, Urls
    <2> QED
        BY <1>1, <1>3, <2>1
<1>7. CASE InsertCondition(r) /\ ~Rollback(r)
    <2>1. Stands("inserted")
        BY <1>7 DEF InsertCondition, tables
    <2> QED
        BY <1>1, <1>3, <1>7, <2>1 DEF InsertCondition
<1>8. CASE CommitCondition(r)
    BY <1>1, <1>2, <1>8 DEF CommitCondition
<1>9. CASE GetJIAServiceUrl(r) /\ ~Rollback(r)
    <2>1. Stands("activating")
        BY <1>9 DEF GetJIAServiceUrl, tables, Urls
    <2> QED
        BY <1>1, <1>3, <2>1
<1>10. CASE CommitIsu(r)
    <2>1. \A t \in Table : HasRun(t)' <=> HasRun(t) \/ t = "isu"
        BY <1>2, <1>10 DEF CommitIsu
    <2> QED
        BY <1>1, <1>2, <1>10, <2>1 DEF CommitIsu, Urls
<1> QED
    BY <1>4, <1>5, <1>6, <1>7, <1>8, <1>9, <1>10 DEF RequestEnds, RequestFails

\* The requests of an earlier run.
LEMMA RequestSteps ==
    ASSUME InitializeInv, NEW r \in Req, CountIsu(r) \/ InsertIsu(r) \/ RequestEnds(r)
    PROVE  InitializeInv'
<1> USE DEF InitializeInv
<1>1. /\ UNCHANGED <<exists, url, handler, step, requested, answer>>
      /\ TypeInv'
      /\ \A q \in Req : q # r => pc'[q] = pc[q]
      /\ pc'[r] = "counted" => HasRun("isu")
      /\ pc'[r] = "inserted" => pc[r] = "counted" /\ "isu_condition" \in exists
      /\ HasRun("isu") => HasRun("isu")'
      /\ HasRun("isu_condition")' => HasRun("isu_condition") \/ pc[r] = "inserted"
    BY RequestEffects
<1>2. UrlInv'
    BY <1>1 DEF UrlInv
<1>3. CountedInv'
    BY <1>1 DEF RowsInv, CountedInv
<1>4. BetweenDrops'
    BY <1>1 DEF RowsInv, BetweenDrops
<1>5. NoConditionWithoutIsu'
    BY <1>1 DEF RowsInv, CountedInv, NoConditionWithoutIsu, HasRun
<1> QED
    BY <1>1, <1>2, <1>3, <1>4, <1>5 DEF RowsInv

----------------------------------------------------------------------------
(* Theorems. *)

\* The invariant is inductive.
LEMMA InitializeInvStep == InitializeInv /\ [Next]_vars => InitializeInv'
<1> SUFFICES ASSUME InitializeInv, [Next]_vars PROVE InitializeInv'
    OBVIOUS
<1>1. CASE UNCHANGED vars
    BY <1>1 DEF vars, tables, init, InitializeInv, TypeInv, RowsInv, CountedInv, BetweenDrops,
        NoConditionWithoutIsu, HasRun, UrlInv
<1>2. CASE Next
    BY <1>2, StatementStep, HandlerSteps, RequestSteps DEF Next
<1> QED
    BY <1>1, <1>2

\* The locks, the statement the script has come to and the rows of a run agree
\* in every reachable state.
THEOREM InitializeInvHolds == Spec => []InitializeInv
<1> QED
    BY InitializeInit, InitializeInvStep, PTL DEF Spec

\* No condition outlives its isu, wherever a script breaks off.
THEOREM NoConditionWithoutIsuHolds == Spec => []NoConditionWithoutIsu
<1>1. InitializeInv => NoConditionWithoutIsu
    BY DEF InitializeInv, RowsInv
<1> QED
    BY <1>1, InitializeInvHolds, PTL

\* A registration reads the URL that the last answered initialization wrote.
THEOREM ActivatesAtRequestedUrlHolds == Spec => ActivatesAtRequestedUrl
<1> DEFINE Activates == \A r \in Req :
                            pc'[r] = "activating" /\ pc[r] # "activating"
                                /\ handler = "idle" /\ answer = 200
                                => jia'[r] = requested
<1>1. InitializeInv /\ [Next]_vars => [Activates]_vars
    <2> SUFFICES ASSUME InitializeInv, Next, NEW r \in Req,
                        pc'[r] = "activating", pc[r] # "activating",
                        handler = "idle", answer = 200
                 PROVE  jia'[r] = requested
        BY DEF vars
    <2>1. PICK q \in Req : CountIsu(q) \/ InsertIsu(q) \/ RequestEnds(q)
        BY DEF Next, Start, InitializeStep, RunStatement, ScriptEnds, ScriptFails, SpawnFails,
            GetConnectionRejects, WriteConfig, WriteConfigFails
    <2>2. jia'[r] = IF url = NoUrl THEN DefaultUrl ELSE url
        BY <2>1 DEF InitializeInv, TypeInv, Stand, CountIsu, InsertIsu, RequestEnds, InsertCondition,
            CommitCondition, GetJIAServiceUrl, CommitIsu, RequestFails, Rollback
    <2>3. url = requested /\ requested # NoUrl
        BY UrlAssumption DEF InitializeInv, UrlInv, NoUrl
    <2> QED
        BY <2>2, <2>3
<1> QED
    BY <1>1, InitializeInvHolds, PTL DEF Spec, ActivatesAtRequestedUrl

============================================================================
