--------------------------- MODULE GraphScenario ---------------------------
(***************************************************************************)
(* How a benchmarker's user looks at the daily graphs of one isu and is    *)
(* paid for them: requestGraphScenario of bench/scenario/load.go asks for  *)
(* a graph, walks back day by day, marks the newest day it takes to be     *)
(* completed, adds the score and reads the conditions of some hour of the  *)
(* oldest graph, while conditions go on arriving late and out of order.    *)
(*                                                                         *)
(* Time is counted in hours.  An isu's conditions are reduced to the hours *)
(* that have some: the grade of a graph (how many it has) is left out.     *)
(***************************************************************************)
EXTENDS Integers, FiniteSets, Sequences

CONSTANTS
    HoursPerDay,  \* 24
    PostTime,     \* the hour in which the isu was registered
    MaxTime,      \* bound on the clock
    MaxFaults     \* bound on failed requests

ASSUME GraphAssumption ==
    /\ HoursPerDay \in Nat \ {0, 1}
    /\ PostTime \in Nat /\ PostTime > 2 * HoursPerDay
    /\ MaxTime \in Nat /\ PostTime <= MaxTime
    /\ MaxFaults \in Nat

VARIABLES
    now,            \* the virtual time
    data,           \* the hours that have conditions in the database
    lastCompleted,  \* LastCompletedGraphTime, Never before the first
    pass,           \* the scenario in progress
    paid,           \* how often each day was paid as a completed graph
    paidToday,      \* the days that were paid as the graph of today
    faults

vars == <<now, data, lastCompleted, pass, paid, paidToday, faults>>

----------------------------------------------------------------------------
Never == -1
Hour == PostTime..MaxTime
HourOfDay == 0..(HoursPerDay - 1)
Day == 0..(MaxTime \div HoursPerDay)

\* trancateTimestampToDate
DayOf(hour) == hour \div HoursPerDay

\* GET /api/isu/:id/graph: the hours of the day that have conditions.
Graph(day) == {h \in HourOfDay : day * HoursPerDay + h \in data}

IdlePass == [state |-> "idle", now |-> 0, today |-> 0, day |-> 0,
             graphs |-> <<>>]

\* The days of the graphs gathered, newest first: graphs[i] is of day
\* today - (i - 1).
Behind(day) == pass.today - day + 1

----------------------------------------------------------------------------
Init ==
    /\ now = PostTime
    /\ data = {}
    /\ lastCompleted = Never
    /\ pass = IdlePass
    /\ paid = [d \in Day |-> 0]
    /\ paidToday = {}
    /\ faults = 0

Tick ==
    /\ now < MaxTime
    /\ now' = now + 1
    /\ UNCHANGED <<data, lastCompleted, pass, paid, paidToday, faults>>

\* A condition of an hour that has begun is committed, at once or later.
DataArrives(hour) ==
    /\ hour <= now
    /\ hour \notin data
    /\ data' = data \cup {hour}
    /\ UNCHANGED <<now, lastCompleted, pass, paid, paidToday, faults>>

----------------------------------------------------------------------------
(* The user. *)

\* virtualToday -= OneDay: the first graph is the one of yesterday.
StartPass ==
    /\ pass.state = "idle"
    /\ pass' = [IdlePass EXCEPT !.state = "first", !.now = now,
                   !.today = DayOf(now) - 1, !.day = DayOf(now) - 1]
    /\ UNCHANGED <<now, data, lastCompleted, paid, paidToday, faults>>

\* The first graph is always followed by a step back.
FirstGraph ==
    /\ pass.state = "first"
    /\ pass' = [pass EXCEPT !.state = "walk", !.day = pass.day - 1,
                            !.graphs = <<Graph(pass.day)>>]
    /\ UNCHANGED <<now, data, lastCompleted, paid, paidToday, faults>>

\* Mutant: the walk ends at the marked day only, never at the registration.
\* (It stays on the first day there is; the code would go on into the past.)
WalkBackForever ==
    /\ pass.state = "walk"
    /\ pass.day # lastCompleted
    /\ pass' = [pass EXCEPT !.day = IF pass.day = 0 THEN 0 ELSE pass.day - 1,
                   !.graphs = IF pass.day = 0 THEN @ ELSE Append(@, Graph(pass.day))]
    /\ UNCHANGED <<now, data, lastCompleted, paid, paidToday, faults>>

\* A day that is not the marked one is asked for; the walk ends below the
\* time of registration.
WalkBack ==
    /\ pass.state = "walk"
    /\ pass.day # lastCompleted
    /\ pass' = [pass EXCEPT
                   !.state = IF PostTime > pass.day * HoursPerDay
                             THEN "evaluate" ELSE "walk",
                   !.day = pass.day - 1,
                   !.graphs = Append(@, Graph(pass.day))]
    /\ UNCHANGED <<now, data, lastCompleted, paid, paidToday, faults>>

WalkMeetsMark ==
    /\ pass.state = "walk"
    /\ pass.day = lastCompleted
    /\ pass' = [pass EXCEPT !.state = "evaluate"]
    /\ UNCHANGED <<now, data, lastCompleted, paid, paidToday, faults>>

\* A graph cannot be had, or verifyGraph refuses it: nothing is kept.
WalkFails ==
    /\ pass.state \in {"first", "walk"}
    /\ pass.state = "walk" => pass.day # lastCompleted
    /\ faults < MaxFaults
    /\ faults' = faults + 1
    /\ pass' = IdlePass
    /\ UNCHANGED <<now, data, lastCompleted, paid, paidToday>>

\* The days of the graphs of this pass.
Walked == (pass.today - Len(pass.graphs) + 1)..pass.today
GraphOf(day) == pass.graphs[Behind(day)]

\* getNewLastCompletedGraphTime: the newest day with data at noon or later.
AfternoonDays == {d \in Walked :
                      \E h \in GraphOf(d) : h >= HoursPerDay \div 2}
Completed == {lastCompleted} \cup AfternoonDays
NewLastCompleted == CHOOSE d \in Completed : \A e \in Completed : e <= d

\* isTodayGraphOnly1Hour: the first hour of the first graph is not over.
OnlyFirstHour == pass.now < pass.today * HoursPerDay + 1

Twice(n) == IF n < 2 THEN n + 1 ELSE 2

\* Mutant: the graph of today is not paid.
EvaluateSkipsToday ==
    /\ pass.state = "evaluate"
    /\ lastCompleted' = NewLastCompleted
    /\ paid' = [d \in Day |->
                   IF d \in Walked /\ d # pass.today /\ d <= NewLastCompleted
                   THEN Twice(paid[d]) ELSE paid[d]]
    /\ pass' = [pass EXCEPT !.state = "conditions"]
    /\ UNCHANGED <<now, data, paidToday, faults>>

\* Mutant: the mark forgets the day it was at.
EvaluateUndoesMark ==
    /\ pass.state = "evaluate"
    /\ lastCompleted' = IF AfternoonDays = {} THEN Never
                        ELSE CHOOSE d \in AfternoonDays :
                                 \A e \in AfternoonDays : e <= d
    /\ paid' = [d \in Day |->
                   IF d \in Walked /\ d # pass.today /\ d <= lastCompleted'
                   THEN Twice(paid[d]) ELSE paid[d]]
    /\ paidToday' = paidToday \cup {pass.today}
    /\ pass' = [pass EXCEPT !.state = "conditions"]
    /\ UNCHANGED <<now, data, faults>>

\* The mark moves and the graphs are paid, before the conditions are read.
Evaluate ==
    /\ pass.state = "evaluate"
    /\ lastCompleted' = NewLastCompleted
    /\ paid' = [d \in Day |->
                   IF d \in Walked /\ d # pass.today /\ d <= NewLastCompleted
                   THEN Twice(paid[d]) ELSE paid[d]]
    /\ paidToday' = IF OnlyFirstHour THEN paidToday
                    ELSE paidToday \cup {pass.today}
    /\ pass' = [pass EXCEPT !.state = "conditions"]
    /\ UNCHANGED <<now, data, faults>>

ReadConditions ==
    /\ pass.state = "conditions"
    /\ pass' = IdlePass
    /\ UNCHANGED <<now, data, lastCompleted, paid, paidToday, faults>>

ReadConditionsFails ==
    /\ pass.state = "conditions"
    /\ faults < MaxFaults
    /\ faults' = faults + 1
    /\ pass' = IdlePass
    /\ UNCHANGED <<now, data, lastCompleted, paid, paidToday>>

UserStep ==
    \/ FirstGraph
    \/ WalkBack
    \/ WalkMeetsMark
    \/ Evaluate
    \/ ReadConditions
    \/ ReadConditionsFails
    \/ WalkFails

Next ==
    \/ Tick
    \/ \E hour \in Hour : DataArrives(hour)
    \/ StartPass
    \/ UserStep

Spec == Init /\ [][Next]_vars

\* The user's goroutine runs on, and every request is answered or fails.
FairSpec == Spec /\ WF_vars(UserStep)

----------------------------------------------------------------------------
(* Properties. *)

\* The clock, the graphs of a pass and the counts of payments keep their types.
TypeOK ==
    /\ now \in Hour
    /\ data \subseteq Hour
    /\ lastCompleted \in Day \cup {Never}
    /\ pass.state \in {"idle", "first", "walk", "evaluate", "conditions"}
    /\ pass.now \in {0} \cup Hour /\ pass.today \in Day
    /\ pass.day \in Day \cup {-1}
    /\ pass.graphs \in Seq(SUBSET HourOfDay) /\ Len(pass.graphs) <= Cardinality(Day)
    /\ paid \in [Day -> 0..2]
    /\ paidToday \subseteq Day
    /\ faults \in 0..MaxFaults

\* The mark jumps over no day: every day up to the mark since the isu was
\* registered was paid, as a completed graph or as the first of its pass,
\* whatever passes broke off.
MarkedDaysArePaid ==
    \A d \in DayOf(PostTime)..lastCompleted : paid[d] > 0 \/ d \in paidToday

\* A day is paid as completed once more only by a pass that finds the day it
\* starts from already marked.
PaidAgainOnlyFromMark ==
    [][\A d \in Day :
           paid[d] > 0 /\ paid'[d] > paid[d] => lastCompleted = pass.today]_vars

\* The walk into the past comes to an end, wherever the mark is.
PassEnds == pass.state # "idle" ~> pass.state = "idle"

============================================================================
