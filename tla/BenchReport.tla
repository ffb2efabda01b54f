---------------------------- MODULE BenchReport ----------------------------
(***************************************************************************)
(* How the benchmarker judges a run and reports it: the hook on errors     *)
(* that stops the run, the goroutine that reports every three seconds and  *)
(* main, which reports the result at the end (bench/main.go).              *)
(*                                                                         *)
(* b.Start belongs to isucandar: one context for all its steps, Load is    *)
(* skipped when Prepare was cancelled, a load function is not waited for   *)
(* once the context has ended, an error is in the list before its hook.    *)
(* An error of Validation would cost 50 points, but CheckError takes only  *)
(* errors of Load for deductions: there are none to count.                 *)
(***************************************************************************)
EXTENDS Integers

CONSTANTS
    FailErrorCount,    \* FAIL_ERROR_COUNT (100)
    TimeoutsPerPoint,  \* timeouts that cost one point (10)
    MaxErrors,         \* bound on the errors of each kind
    MaxScore           \* bound on the raw score

ASSUME ReportAssumption ==
    /\ FailErrorCount \in Nat
    /\ TimeoutsPerPoint \in Nat \ {0}
    /\ MaxErrors \in Nat /\ MaxScore \in Nat

Kind == {"critical", "timeout", "deduction"}
Sender == {"reporter", "main"}

VARIABLES
    noLoad,      \* the flag --no-load
    phase,       \* of b.Start
    cancelled,   \* the context of b.Start has ended
    stopped,     \* step.Cancel was called while b.Start ran
    timeUp,      \* LoadTimeout has passed
    errors,      \* result.Errors, by kind
    unhooked,    \* errors whose hook has not run yet
    errorCount,  \* the counter of the hook
    raw,         \* result.Score.Sum()
    load,        \* the goroutine that reports every three seconds
    waitGroup,   \* wg
    main,        \* the goroutine of main
    draft,       \* what a call of sendResult has read so far
    last         \* the last report sent

reportVars == <<noLoad, phase, cancelled, stopped, timeUp, errors, unhooked,
                errorCount, raw, load, waitGroup, main, draft, last>>

run == <<noLoad, phase, cancelled, stopped, timeUp>>
result == <<errors, unhooked, errorCount, raw>>

----------------------------------------------------------------------------
NoDraft == [state |-> "none", raw |-> 0, errors |-> [k \in Kind |-> 0]]
NoReport == [finish |-> FALSE, passed |-> TRUE, reason |-> "none"]

ReportInit ==
    /\ noLoad \in BOOLEAN
    /\ phase = "prepare"
    /\ cancelled = FALSE
    /\ stopped = FALSE
    /\ timeUp = FALSE
    /\ errors = [k \in Kind |-> 0]
    /\ unhooked = [k \in Kind |-> 0]
    /\ errorCount = 0
    /\ raw = 0
    /\ load = "none"
    /\ waitGroup = 0
    /\ main = "start"
    /\ draft = [s \in Sender |-> NoDraft]
    /\ last = NoReport

----------------------------------------------------------------------------
(* The scenarios. *)

\* The goroutines of a load that has ended may go on adding scores and errors.
LoadBegan == load # "none" /\ ~noLoad

AddScore ==
    /\ LoadBegan
    /\ raw < MaxScore
    /\ raw' = raw + 1
    /\ UNCHANGED <<run, errors, unhooked, errorCount, load, waitGroup, main, draft, last>>

\* CheckError: only an error of Load is a timeout or a deduction.
AddError(kind) ==
    /\ kind # "critical" => LoadBegan
    /\ errors[kind] < MaxErrors
    /\ errors' = [errors EXCEPT ![kind] = @ + 1]
    /\ unhooked' = [unhooked EXCEPT ![kind] = @ + 1]
    /\ UNCHANGED <<run, errorCount, raw, load, waitGroup, main, draft, last>>

\* The hook: a critical error or one deduction too many stops the run.
OnError(kind) ==
    /\ unhooked[kind] > 0
    /\ unhooked' = [unhooked EXCEPT ![kind] = @ - 1]
    /\ errorCount' = IF kind = "deduction" THEN errorCount + 1 ELSE errorCount
    /\ LET cancel == \/ kind = "critical"
                     \/ kind = "deduction" /\ errorCount' > FailErrorCount
       IN  /\ cancelled' = (cancelled \/ cancel)
           /\ stopped' = (stopped \/ (cancel /\ phase # "returned"))
    /\ UNCHANGED <<noLoad, phase, timeUp, errors, raw, load, waitGroup, main, draft, last>>

----------------------------------------------------------------------------
(* b.Start. *)

PrepareEnds ==
    /\ phase = "prepare"
    /\ IF cancelled
       THEN phase' = "returned" /\ UNCHANGED load
       ELSE phase' = "load" /\ load' = "spawned"
    /\ UNCHANGED <<noLoad, cancelled, stopped, timeUp, result, waitGroup, main, draft, last>>

TimePasses ==
    /\ phase = "load"
    /\ ~timeUp
    /\ timeUp' = TRUE
    /\ UNCHANGED <<noLoad, phase, cancelled, stopped, result, load, waitGroup, main, draft, last>>

\* Load is over when its functions have returned or the context has ended.
LoadEnds ==
    /\ phase = "load"
    /\ \/ cancelled
       \/ (noLoad \/ timeUp) /\ load = "done"
    /\ phase' = "returned"
    /\ cancelled' = TRUE
    /\ UNCHANGED <<noLoad, stopped, timeUp, result, load, waitGroup, main, draft, last>>

----------------------------------------------------------------------------
(* sendResult: the errors are read, then the score, then the report goes out. *)

StartReport(s) == draft' = [draft EXCEPT ![s] = [NoDraft EXCEPT !.state = "errors"]]

\* result.Errors.All()
ReadErrors(s) ==
    /\ draft[s].state = "errors"
    /\ draft' = [draft EXCEPT ![s] = [@ EXCEPT !.state = "score", !.errors = errors]]
    /\ UNCHANGED <<run, result, load, waitGroup, main, last>>

\* result.Score.Sum()
ReadScore(s) ==
    /\ draft[s].state = "score"
    /\ draft' = [draft EXCEPT ![s] = [@ EXCEPT !.state = "send", !.raw = raw]]
    /\ UNCHANGED <<run, result, load, waitGroup, main, last>>

\* Mutant: one deduction more is forgiven than the hook forgives.
JudgeLenient(d, finish) ==
    LET deduction == d.errors["deduction"] + d.errors["timeout"] \div TimeoutsPerPoint
        reason == IF d.errors["critical"] > 0 THEN "Critical error"
                  ELSE IF d.errors["deduction"] > FailErrorCount + 1
                  THEN "Error count"
                  ELSE IF ~noLoad /\ d.raw - deduction <= 0 THEN "Score"
                  ELSE "pass"
    IN  [finish |-> finish, passed |-> reason = "pass", reason |-> reason]

\* The first reason to fail is the one reported; timeouts only cost points.
Judge(d, finish) ==
    LET deduction == d.errors["deduction"] + d.errors["timeout"] \div TimeoutsPerPoint
        reason == IF d.errors["critical"] > 0 THEN "Critical error"
                  ELSE IF d.errors["deduction"] > FailErrorCount THEN "Error count"
                  ELSE IF ~noLoad /\ d.raw - deduction <= 0 THEN "Score"
                  ELSE "pass"
    IN  [finish |-> finish, passed |-> reason = "pass", reason |-> reason]

Report(s) ==
    /\ draft[s].state = "send"
    /\ last' = Judge(draft[s], s = "main")
    /\ draft' = [draft EXCEPT ![s] = NoDraft]

----------------------------------------------------------------------------
(* The goroutine that reports on the way. *)

\* wg.Add(1), and an early return when the context has ended.
LoadStarts ==
    /\ load = "spawned"
    /\ waitGroup' = waitGroup + 1
    /\ load' = IF noLoad THEN "leaving" ELSE "check"
    /\ UNCHANGED <<run, result, main, draft, last>>

LoadChecks ==
    /\ load = "check"
    /\ load' = IF cancelled THEN "leaving" ELSE "loop"
    /\ UNCHANGED <<run, result, waitGroup, main, draft, last>>

LoadReports ==
    /\ load = "loop"
    /\ load' = "sending"
    /\ StartReport("reporter")
    /\ UNCHANGED <<run, result, waitGroup, main, last>>

ReporterSends ==
    /\ load = "sending"
    /\ Report("reporter")
    /\ load' = "waiting"
    /\ UNCHANGED <<run, result, waitGroup, main>>

\* Mutant: waits for the timer only.
LoadWaitsTimer ==
    /\ load = "waiting"
    /\ load' = "loop"
    /\ UNCHANGED <<run, result, waitGroup, main, draft, last>>

\* select on the timer and on ctx.Done: either, when both are ready.
LoadWaits ==
    /\ load = "waiting"
    /\ \/ load' = "loop"
       \/ (cancelled \/ timeUp) /\ load' = "leaving"
    /\ UNCHANGED <<run, result, waitGroup, main, draft, last>>

\* defer wg.Done()
LoadReturns ==
    /\ load = "leaving"
    /\ load' = "done"
    /\ waitGroup' = waitGroup - 1
    /\ UNCHANGED <<run, result, main, draft, last>>

----------------------------------------------------------------------------
(* main. *)

\* Mutant: main does not wait for the reporter.
MainWaitsNot ==
    /\ main = "start"
    /\ phase = "returned"
    /\ main' = "sending"
    /\ StartReport("main")
    /\ UNCHANGED <<run, result, load, waitGroup, last>>

\* result := b.Start(ctx); wg.Wait()
MainWaits ==
    /\ main = "start"
    /\ phase = "returned"
    /\ waitGroup = 0
    /\ main' = "sending"
    /\ StartReport("main")
    /\ UNCHANGED <<run, result, load, waitGroup, last>>

MainSends ==
    /\ main = "sending"
    /\ Report("main")
    /\ main' = "sent"
    /\ UNCHANGED <<run, result, load, waitGroup>>

ReporterStep ==
    \/ LoadStarts
    \/ LoadChecks
    \/ LoadReports
    \/ ReadErrors("reporter")
    \/ ReadScore("reporter")
    \/ ReporterSends
    \/ LoadReturns

MainStep ==
    \/ MainWaits
    \/ ReadErrors("main")
    \/ ReadScore("main")
    \/ MainSends

BenchStep ==
    \/ PrepareEnds
    \/ TimePasses
    \/ LoadEnds

ReportNext ==
    \/ AddScore
    \/ \E kind \in Kind : AddError(kind) \/ OnError(kind)
    \/ BenchStep
    \/ ReporterStep
    \/ LoadWaits
    \/ MainStep

ReportSpec == ReportInit /\ [][ReportNext]_reportVars

\* Every goroutine runs on; the timer of LoadTimeout fires; and a select on
\* two ready cases does not choose the same one for ever.
ReportFairSpec ==
    /\ ReportSpec
    /\ WF_reportVars(BenchStep)
    /\ WF_reportVars(ReporterStep)
    /\ WF_reportVars(MainStep)
    /\ SF_reportVars(LoadWaits /\ load' = "leaving")
    /\ WF_reportVars(LoadWaits)

----------------------------------------------------------------------------
(* Properties. *)

\* The counters, the states of the goroutines and the drafts of sendResult keep
\* their types; wg is never negative, on which wg.Done would panic.
ReportTypeOK ==
    /\ noLoad \in BOOLEAN
    /\ phase \in {"prepare", "load", "returned"}
    /\ cancelled \in BOOLEAN /\ stopped \in BOOLEAN /\ timeUp \in BOOLEAN
    /\ errors \in [Kind -> 0..MaxErrors]
    /\ unhooked \in [Kind -> 0..MaxErrors]
    /\ errorCount \in 0..MaxErrors
    /\ raw \in 0..MaxScore
    /\ load \in {"none", "spawned", "check", "loop", "sending", "waiting",
                 "leaving", "done"}
    /\ waitGroup \in 0..1
    /\ main \in {"start", "sending", "sent"}
    /\ draft \in [Sender -> [state : {"none", "score", "errors", "send"},
                             raw : 0..MaxScore, errors : [Kind -> 0..MaxErrors]]]
    /\ last \in [finish : BOOLEAN, passed : BOOLEAN,
                 reason : {"none", "Critical error", "Error count", "Score", "pass"}]

\* No report on the way is sent after the final one, also when the run is
\* cancelled before the reporter has come as far as wg.Add.
FinalReportIsLast == [][last.finish => last' = last]_reportVars

\* A run that was stopped for its errors does not pass: the hook and the
\* final judgement, which count on their own, agree.
StoppedRunFails == stopped /\ last.finish => ~last.passed

\* Every run ends with a final report, also one that Prepare has cancelled
\* and that never starts the reporter.
FinalReportComes == <>last.finish

============================================================================
