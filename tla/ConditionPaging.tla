-------------------------- MODULE ConditionPaging --------------------------
(***************************************************************************)
(* How a benchmarker's user reads the new conditions of one isu and is     *)
(* paid for them: requestNewConditionScenario of bench/scenario/load.go    *)
(* pages backwards through GET /api/condition/:jia_isu_uuid, newest first, *)
(* until it meets a condition it had read, while the server commits new    *)
(* batches, some of them older than what the user was already shown.       *)
(*                                                                         *)
(* Timestamps are numbered 1, 2, ... in the order the poster draws them.   *)
(* The arrays of the benchmarker are sorted and without duplicates, so     *)
(* they are sets here; module ReadMarks checks the loops over the arrays   *)
(* against the operators on sets used below.                               *)
(***************************************************************************)
EXTENDS Integers, FiniteSets

CONSTANTS
    ConditionLimit,       \* conditions on a page and length of the marks (20)
    ConditionPagingStep,  \* pages between two scorings (1)
    MaxTimestamp,         \* bound on the conditions posted
    MaxFaults             \* bound on failed requests

ASSUME PagingAssumption ==
    /\ ConditionLimit \in Nat \ {0}
    /\ ConditionPagingStep \in Nat \ {0}
    /\ MaxTimestamp \in Nat
    /\ MaxFaults \in Nat

VARIABLES
    posted,  \* the newest timestamp the poster has drawn
    stored,  \* timestamps of the committed rows
    mark,    \* LastReadConditionTimestamps without its padding
    pass,    \* the pass in progress
    score,   \* how often each condition went into readConditionCount
    owed,    \* conditions a pass without error should have counted and did not
    alarm,   \* verifyIsuConditions has complained
    faults

vars == <<posted, stored, mark, pass, score, owed, alarm, faults>>

----------------------------------------------------------------------------
Timestamp == 1..MaxTimestamp

\* The newest n elements of S.
Newest(S, n) == {t \in S : Cardinality({s \in S : s > t}) < n}

\* Mutant: slice(0, limit - 1).
PageShort(end) == Newest({t \in stored : t < end}, ConditionLimit - 1)

\* getIsuConditions of app.ts: `timestamp` < end_time, newest first, at most
\* `limit`.  The three levels are asked for, so no row is filtered out.
Page(end) == Newest({t \in stored : t < end}, ConditionLimit)

\* isNewData
IsNew(t) == \A m \in mark : t > m

\* verifyIsuConditions against the marks: one that the request covers is on
\* the page, or older than everything on a full page.
Verify(page, end) ==
    \A m \in mark : m < end =>
        \/ m \in page
        \/ Cardinality(page) = ConditionLimit /\ \A t \in page : m < t

IdlePass == [state |-> "idle", end |-> 0, conditions |-> {}, first |-> {},
             pages |-> 0, due |-> {}]

\* readCondition; a second count of the same condition shows as 2.
Counted(S) ==
    [t \in Timestamp |-> IF t \in S /\ score[t] < 2 THEN score[t] + 1 ELSE score[t]]

----------------------------------------------------------------------------
Init ==
    /\ posted = 0
    /\ stored = {}
    /\ mark = {}
    /\ pass = IdlePass
    /\ score = [t \in Timestamp |-> 0]
    /\ owed = {}
    /\ alarm = FALSE
    /\ faults = 0

\* The poster adds a condition to the benchmarker's model and posts it.
Post ==
    /\ posted < MaxTimestamp
    /\ posted' = posted + 1
    /\ UNCHANGED <<stored, mark, pass, score, owed, alarm, faults>>

\* The server commits a condition that was posted, maybe long ago, maybe
\* never (module ConditionIngest).
Commit(t) ==
    /\ t <= posted
    /\ t \notin stored
    /\ stored' = stored \cup {t}
    /\ UNCHANGED <<posted, mark, pass, score, owed, alarm, faults>>

----------------------------------------------------------------------------
(* The user. *)

\* EndTime is the virtual time; the poster rounds up to its next interval
\* and its newest condition may carry a timestamp still to come.
StartPass(end) ==
    /\ pass.state = "idle"
    /\ end \in {posted, posted + 1}
    /\ \A m \in mark : m < end
    /\ pass' = [IdlePass EXCEPT !.state = "first", !.end = end, !.pages = 1,
                   !.due = {t \in stored : t < end /\ IsNew(t)}]
    /\ UNCHANGED <<posted, stored, mark, score, owed, alarm, faults>>

\* Mutant: on an error the marks are left as they were.
EndPassForgetsMarks(first, conditions, success) ==
    /\ pass' = IdlePass
    /\ mark' = IF success THEN Newest(mark \cup first, ConditionLimit) ELSE mark
    /\ score' = IF success THEN Counted(conditions) ELSE score
    /\ owed' = IF success
               THEN owed \cup {t \in pass.due : score'[t] = 0}
               ELSE owed

\* The marks become the newest of the old ones and the first page, whether
\* or not a later page failed; only a pass without error counts the rest.
EndPass(first, conditions, success) ==
    /\ pass' = IdlePass
    /\ mark' = Newest(mark \cup first, ConditionLimit)
    /\ score' = IF success THEN Counted(conditions) ELSE score
    /\ owed' = IF success
               THEN owed \cup {t \in pass.due : score'[t] = 0}
               ELSE owed

\* The walk over a page stops at the first condition read before; the pass
\* also ends when the page is not full.
LastPage(page, new) == new # page \/ Cardinality(page) < ConditionLimit

FirstPage ==
    /\ pass.state = "first"
    /\ LET page == Page(pass.end)
           new == {t \in page : IsNew(t)}
       IN  IF ~Verify(page, pass.end)
           THEN /\ alarm' = TRUE
                /\ EndPass({}, {}, FALSE)
           ELSE /\ UNCHANGED alarm
                /\ IF LastPage(page, new)
                   THEN EndPass(page, new, TRUE)
                   ELSE /\ pass' = [pass EXCEPT !.state = "more", !.first = page,
                                                !.conditions = new]
                        /\ UNCHANGED <<mark, score, owed>>
    /\ UNCHANGED <<posted, stored, faults>>

\* The oldest of the conditions gathered since the last scoring.
Oldest(S) == CHOOSE t \in S : \A s \in S : t <= s

\* Mutant: asks for what is older than the second before the last condition.
TurnPageOffByOne ==
    /\ pass.state = "more"
    /\ LET pages == pass.pages + 1
           pay == pages % ConditionPagingStep = 0
       IN  /\ pass' = [pass EXCEPT !.state = "asking", !.pages = pages,
                          !.end = Oldest(pass.conditions) - 1,
                          !.conditions = IF pay THEN {} ELSE pass.conditions]
           /\ score' = IF pay THEN Counted(pass.conditions) ELSE score
    /\ UNCHANGED <<posted, stored, mark, owed, alarm, faults>>

\* Mutant: the same request is sent again.
TurnPageKeepsEnd ==
    /\ pass.state = "more"
    /\ LET pay == (pass.pages + 1) % ConditionPagingStep = 0
       IN  /\ pass' = [pass EXCEPT !.state = "asking",
                          !.conditions = IF pay THEN {} ELSE pass.conditions]
           /\ score' = IF pay THEN Counted(pass.conditions) ELSE score
    /\ UNCHANGED <<posted, stored, mark, owed, alarm, faults>>

\* The next request ends where the last page did; every ConditionPagingStep
\* pages what was gathered is counted before it is sent.
TurnPage ==
    /\ pass.state = "more"
    /\ LET pages == pass.pages + 1
           pay == pages % ConditionPagingStep = 0
       IN  /\ pass' = [pass EXCEPT !.state = "asking", !.pages = pages,
                          !.end = Oldest(pass.conditions),
                          !.conditions = IF pay THEN {} ELSE pass.conditions]
           /\ score' = IF pay THEN Counted(pass.conditions) ELSE score
    /\ UNCHANGED <<posted, stored, mark, owed, alarm, faults>>

NextPage ==
    /\ pass.state = "asking"
    /\ LET page == Page(pass.end)
           new == {t \in page : IsNew(t)}
           conditions == pass.conditions \cup new
       IN  IF ~Verify(page, pass.end)
           THEN /\ alarm' = TRUE
                /\ EndPass(pass.first, {}, FALSE)
           ELSE /\ UNCHANGED alarm
                /\ IF LastPage(page, new)
                   THEN EndPass(pass.first, conditions, TRUE)
                   ELSE /\ pass' = [pass EXCEPT !.state = "more",
                                                !.conditions = conditions]
                        /\ UNCHANGED <<mark, score, owed>>
    /\ UNCHANGED <<posted, stored, faults>>

\* A request fails: a timeout, a status that is not 200, a connection reset.
PageFails ==
    /\ pass.state \in {"first", "asking"}
    /\ faults < MaxFaults
    /\ faults' = faults + 1
    /\ EndPass(pass.first, {}, FALSE)
    /\ UNCHANGED <<posted, stored, alarm>>

User ==
    \/ \E end \in 0..(MaxTimestamp + 1) : StartPass(end)
    \/ FirstPage
    \/ TurnPage
    \/ NextPage
    \/ PageFails

Next ==
    \/ Post
    \/ \E t \in Timestamp : Commit(t)
    \/ User

Spec == Init /\ [][Next]_vars

\* The user's goroutine runs on, and every request is answered or fails.
FairSpec == Spec /\ WF_vars(FirstPage \/ TurnPage \/ NextPage)

----------------------------------------------------------------------------
(* Properties. *)

\* The marks never outgrow the array that holds them; only posted conditions
\* are stored; the pass, the scores and the counts keep their types.
TypeOK ==
    /\ posted \in 0..MaxTimestamp
    /\ stored \subseteq 1..posted
    /\ mark \subseteq Timestamp /\ Cardinality(mark) <= ConditionLimit
    /\ pass \in [state : {"idle", "first", "more", "asking"},
                 end : 0..(MaxTimestamp + 1),
                 conditions : SUBSET Timestamp, first : SUBSET Timestamp,
                 pages : 0..(MaxTimestamp + 2), due : SUBSET Timestamp]
    /\ score \in [Timestamp -> 0..2]
    /\ owed \subseteq Timestamp
    /\ alarm \in BOOLEAN
    /\ faults \in 0..MaxFaults

\* The check of the marks never accuses a server that only adds rows, though
\* rows older than the marks appear at any time and passes break off.
NoFalseAlarm == ~alarm

\* A condition is worth points once: neither a pass repeated after an error
\* nor overlapping pages count it again.
CountedOnce == \A t \in Timestamp : score[t] <= 1

\* A pass without error counts every condition newer than the marks that was
\* stored when it began, whatever is committed while it turns pages.
NothingSkipped == owed = {}

\* A pass comes to an end: its cursor only goes back.
PassEnds == pass.state # "idle" ~> pass.state = "idle"

============================================================================
