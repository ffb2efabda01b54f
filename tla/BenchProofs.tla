----------------------------- MODULE BenchProofs -----------------------------
(***************************************************************************)
(* Theorems about the benchmarker, modules GraphScenario, BenchReport and  *)
(* AnswerCheck.                                                            *)
(*                                                                         *)
(* GraphScenario, for days of any length and passes of any number of       *)
(* faults: the mark jumps over no day that was not paid, and a day is paid *)
(* again only from a mark that is where the pass began.  Both rest on      *)
(* where a walk can end (WalkInv): never beyond the mark it has not met,   *)
(* and short of the mark only below the time of registration; and on the   *)
(* mark being no newer than the first graph of any pass.                   *)
(*                                                                         *)
(* BenchReport, for any limits and any number of errors: the final report  *)
(* is the last one, and it fails a run that was stopped for its errors.    *)
(* Both need more than they say.  CountInv relates the counter of the hook *)
(* to the list of errors the judgement reads; EndInv says that once main   *)
(* is past wg.Wait a reporter that starts late finds the context ended and *)
(* sends nothing; VerdictInv that what main has read since contains every  *)
(* error a hook had stopped the run for.                                   *)
(*                                                                         *)
(* AnswerCheck, for any intervals and blurs that do not meet, any length   *)
(* of a batch, of a page and of the arrays, and any first step of the      *)
(* search: the arrays are sorted, the search ends at the bound, an honest  *)
(* answer is accepted, and what is accepted was posted and leaves out      *)
(* nothing that was read.  They hold together, as AnswerInv: SlotInv ties  *)
(* the arrays to the slots drawn, KnownInv says that rows and reads never  *)
(* get ahead of the arrays, PageInv what may still be said of an honest    *)
(* answer once more rows have come, SearchInv where the bound is while it  *)
(* is looked for, WalkedInv what the walk has left behind, and AheadInv    *)
(* that an honest answer is still ahead of it.                             *)
(***************************************************************************)
EXTENDS GraphScenario, BenchReport, AnswerCheck, WellFoundedInduction, TLAPS

(* The graph scenario. *)

Stages == {"idle", "first", "walk", "evaluate", "conditions"}
PassRecord == [state : Stages, now : Nat, today : Int, day : Int, graphs : Seq(SUBSET HourOfDay)]

TypeInv ==
    /\ now \in Hour
    /\ lastCompleted \in Int
    /\ pass \in PassRecord
    /\ paid \in [Day -> Nat]

\* The mark is in the past, and so is the first graph of a pass, by a whole day.
MarkInv ==
    /\ lastCompleted <= DayOf(now) - 1
    /\ pass.state # "idle" =>
           /\ lastCompleted <= pass.today
           /\ pass.today <= DayOf(now) - 1
           /\ pass.today * HoursPerDay + HoursPerDay <= pass.now

\* A walk goes back one day per graph, and ends at the mark or below the
\* time of registration.
WalkInv ==
    /\ pass.state = "first" => pass.day = pass.today /\ pass.graphs = <<>>
    /\ pass.state \in {"walk", "evaluate"} =>
           /\ pass.day = pass.today - Len(pass.graphs)
           /\ lastCompleted < pass.today => lastCompleted <= pass.day
    /\ pass.state = "evaluate" =>
           pass.day = lastCompleted \/ (pass.day + 1) * HoursPerDay < PostTime

\* Only marked days are paid as completed.
PaidInv == \A d \in Day : paid[d] > 0 => d <= lastCompleted

ScenarioInv == TypeInv /\ MarkInv /\ WalkInv /\ PaidInv /\ MarkedDaysArePaid

----------------------------------------------------------------------------
(* Days and numbers. *)

\* A set of integers with a bound has a greatest member.
LEMMA Greatest ==
    ASSUME NEW n \in Int, NEW S \in SUBSET Int, S # {}, \A x \in S : x <= n
    PROVE  \E m \in S : \A x \in S : x <= m
<1> DEFINE T == {n - x : x \in S}
           R == OpToRel(<, Nat)
<1>1. \A x \in S : n - x \in Nat
    OBVIOUS
<1>2. T \in SUBSET Nat /\ T # {}
    BY <1>1
<1>3. PICK d \in T : \A y \in T : ~(<<y, d>> \in R)
    <2> HIDE DEF T
    <2> QED
        BY <1>2, NatLessThanWellFounded, WFMin
<1>4. PICK m \in S : d = n - m
    OBVIOUS
<1>5. ASSUME NEW x \in S PROVE x <= m
    <2>1. n - x \in T /\ n - x \in Nat /\ d \in Nat
        BY <1>1, <1>2
    <2>2. ~(<<n - x, d>> \in R)
        BY <1>3, <2>1
    <2>3. ~(n - x < d)
        BY <2>1, <2>2 DEF OpToRel
    <2> HIDE DEF T
    <2>4. n \in Int /\ m \in Int /\ x \in Int
        OBVIOUS
    <2> QED
        BY <1>4, <2>3, <2>4
<1> QED
    BY <1>5

\* An hour belongs to the day it is in.
LEMMA DayOfHour ==
    ASSUME NEW h \in Nat
    PROVE  /\ DayOf(h) \in Nat
           /\ DayOf(h) * HoursPerDay <= h
           /\ h < (DayOf(h) + 1) * HoursPerDay
BY GraphAssumption DEF DayOf

\* Later days have later hours.
LEMMA DayOrder ==
    ASSUME NEW c \in Int, NEW d \in Int, c <= d
    PROVE  c * HoursPerDay <= d * HoursPerDay
<1>1. d - c \in Nat /\ HoursPerDay \in Nat
    BY GraphAssumption
<1>2. (d - c) * HoursPerDay \in Nat
    BY <1>1
<1>3. (d - c) * HoursPerDay = d * HoursPerDay - c * HoursPerDay
    BY <1>1
<1>4. c * HoursPerDay \in Int /\ d * HoursPerDay \in Int
    BY <1>1
<1> QED
    BY <1>2, <1>3, <1>4

\* A day that begins no later than an hour is no later than its day.
LEMMA DayBefore ==
    ASSUME NEW d \in Int, NEW h \in Nat, d * HoursPerDay <= h
    PROVE  d <= DayOf(h)
<1>1. CASE d <= DayOf(h)
    BY <1>1
<1>2. CASE ~(d <= DayOf(h))
    <2>1. DayOf(h) + 1 \in Int /\ DayOf(h) + 1 <= d
        BY <1>2, DayOfHour
    <2>2. (DayOf(h) + 1) * HoursPerDay <= d * HoursPerDay
        BY <2>1, DayOrder
    <2>3. HoursPerDay \in Nat
        BY GraphAssumption
    <2>4. (DayOf(h) + 1) * HoursPerDay \in Int /\ d * HoursPerDay \in Int
        BY <2>1, <2>3
    <2> QED
        BY <2>2, <2>4, DayOfHour
<1> QED
    BY <1>1, <1>2

LEMMA DayOfMonotone ==
    ASSUME NEW g \in Nat, NEW h \in Nat, g <= h
    PROVE  DayOf(g) <= DayOf(h)
<1>1. DayOf(g) \in Int /\ DayOf(g) * HoursPerDay <= g
    BY DayOfHour
<1>2. DayOf(g) * HoursPerDay \in Int
    BY <1>1, GraphAssumption
<1> QED
    BY <1>1, <1>2, DayBefore

\* Every hour of the clock has a day of its own, and the first is not day 0.
LEMMA ClockDays ==
    ASSUME NEW h \in Hour
    PROVE  /\ h \in Nat /\ DayOf(h) \in Day
           /\ 1 <= DayOf(PostTime) /\ DayOf(PostTime) <= DayOf(h)
<1>1. h \in Nat /\ PostTime \in Nat /\ MaxTime \in Nat /\ PostTime <= h /\ h <= MaxTime
    BY GraphAssumption DEF Hour
<1>2. 1 * HoursPerDay <= PostTime
    BY GraphAssumption
<1>3. 1 <= DayOf(PostTime)
    BY <1>1, <1>2, DayBefore
<1>4. DayOf(PostTime) <= DayOf(h) /\ DayOf(h) <= DayOf(MaxTime) /\ DayOf(h) \in Nat
    BY <1>1, DayOfMonotone, DayOfHour
<1> QED
    BY <1>1, <1>3, <1>4 DEF Day, DayOf

----------------------------------------------------------------------------
(* The steps. *)

LEMMA ScenarioInit == Init => ScenarioInv
<1> SUFFICES ASSUME Init PROVE ScenarioInv
    OBVIOUS
<1>1. PostTime \in Hour
    BY GraphAssumption DEF Hour
<1>2. 1 <= DayOf(PostTime) /\ DayOf(PostTime) \in Int
    BY <1>1, ClockDays DEF Day
<1>3. TypeInv
    BY <1>1 DEF Init, TypeInv, PassRecord, Stages, IdlePass, Never
<1>4. MarkInv /\ WalkInv /\ PaidInv
    BY <1>2 DEF Init, MarkInv, WalkInv, PaidInv, IdlePass, Never
<1>5. MarkedDaysArePaid
    BY <1>2 DEF Init, MarkedDaysArePaid, Never
<1> QED
    BY <1>3, <1>4, <1>5 DEF ScenarioInv

\* The clock goes on.
LEMMA TickStep == ASSUME ScenarioInv, Tick PROVE ScenarioInv'
<1> USE DEF ScenarioInv
<1>1. now \in Hour /\ now' = now + 1 /\ now' \in Hour
    BY GraphAssumption DEF Tick, TypeInv, Hour
<1>2. UNCHANGED <<lastCompleted, pass, paid, paidToday>>
    BY DEF Tick
<1>3. DayOf(now) <= DayOf(now') /\ DayOf(now) \in Int /\ DayOf(now') \in Int
    <2>1. now \in Nat /\ now' \in Nat /\ now <= now'
        BY <1>1, ClockDays
    <2> QED
        BY <2>1, DayOfMonotone, DayOfHour
<1>4. TypeInv'
    BY <1>1, <1>2 DEF TypeInv, PassRecord, Stages
<1>5. MarkInv'
    BY <1>2, <1>3 DEF MarkInv, TypeInv, PassRecord
<1>6. WalkInv' /\ PaidInv' /\ MarkedDaysArePaid'
    BY <1>2 DEF WalkInv, PaidInv, MarkedDaysArePaid
<1> QED
    BY <1>4, <1>5, <1>6

\* A pass that starts, breaks off or ends leaves what was paid and marked.
LEMMA PassSteps ==
    ASSUME ScenarioInv, StartPass \/ ReadConditions \/ ReadConditionsFails \/ WalkFails
    PROVE  ScenarioInv'
<1> USE DEF ScenarioInv
<1>1. UNCHANGED <<now, lastCompleted, paid, paidToday>>
    BY DEF StartPass, ReadConditions, ReadConditionsFails, WalkFails
<1>2. PaidInv' /\ MarkedDaysArePaid'
    BY <1>1 DEF PaidInv, MarkedDaysArePaid
<1>3. CASE pass' = IdlePass
    BY <1>1, <1>2, <1>3 DEF TypeInv, PassRecord, Stages, MarkInv, WalkInv, IdlePass
<1>4. CASE StartPass
    <2>1. pass' = [state |-> "first", now |-> now, today |-> DayOf(now) - 1,
                   day |-> DayOf(now) - 1, graphs |-> <<>>]
        BY <1>4 DEF StartPass, IdlePass
    <2>2. /\ now \in Nat /\ DayOf(now) \in Int
          /\ (DayOf(now) - 1) * HoursPerDay + HoursPerDay <= now
        <3>1. now \in Nat /\ DayOf(now) \in Int /\ DayOf(now) * HoursPerDay <= now
            BY ClockDays, DayOfHour DEF TypeInv, PassRecord, Stages
        <3>2. HoursPerDay \in Nat
            BY GraphAssumption
        <3>3. (DayOf(now) - 1) * HoursPerDay + HoursPerDay = DayOf(now) * HoursPerDay
            BY <3>1, <3>2
        <3> QED
            BY <3>1, <3>3
    <2>3. TypeInv'
        BY <1>1, <2>1, <2>2 DEF TypeInv, PassRecord, Stages
    <2>4. MarkInv' /\ WalkInv'
        BY <1>1, <2>1, <2>2 DEF TypeInv, PassRecord, Stages, MarkInv, WalkInv
    <2> QED
        BY <1>2, <2>3, <2>4
<1> QED
    BY <1>3, <1>4 DEF ReadConditions, ReadConditionsFails, WalkFails

\* One graph more, or the mark is met.
LEMMA WalkSteps ==
    ASSUME ScenarioInv, FirstGraph \/ WalkBack \/ WalkMeetsMark
    PROVE  ScenarioInv'
<1> USE DEF ScenarioInv
<1>1. UNCHANGED <<now, lastCompleted, paid, paidToday>>
    BY DEF FirstGraph, WalkBack, WalkMeetsMark
<1>2. PaidInv' /\ MarkedDaysArePaid'
    BY <1>1 DEF PaidInv, MarkedDaysArePaid
<1>3. \A d \in Int : Graph(d) \in SUBSET HourOfDay
    BY DEF Graph
<1>4. CASE FirstGraph
    <2>1. /\ pass.state = "first" /\ pass'.state = "walk"
          /\ pass'.day = pass.day - 1 /\ pass'.graphs = <<Graph(pass.day)>>
          /\ pass'.now = pass.now /\ pass'.today = pass.today
          /\ pass' \in PassRecord
        <3>1. pass.day \in Int /\ <<Graph(pass.day)>> \in Seq(SUBSET HourOfDay)
            BY <1>3 DEF TypeInv, PassRecord, Stages
        <3> DEFINE day == pass.day - 1
                   graphs == <<Graph(pass.day)>>
        <3>2. /\ pass.state = "first" /\ pass \in PassRecord
              /\ pass' = [pass EXCEPT !.state = "walk", !.day = day, !.graphs = graphs]
              /\ "walk" \in Stages /\ day \in Int /\ graphs \in Seq(SUBSET HourOfDay)
            BY <1>4, <3>1 DEF FirstGraph, TypeInv, Stages
        <3>3. /\ pass'.state = "walk" /\ pass'.day = day /\ pass'.graphs = graphs
              /\ pass'.now = pass.now /\ pass'.today = pass.today /\ pass' \in PassRecord
            <4> HIDE DEF day, graphs
            <4> QED
                BY <3>2 DEF PassRecord
        <3> QED
            BY <3>2, <3>3
    <2>2. Len(pass'.graphs) = 1
        BY <2>1
    <2> QED
        BY <1>1, <1>2, <2>1, <2>2 DEF TypeInv, PassRecord, Stages, MarkInv, WalkInv
<1>5. CASE WalkBack
    <2>1. /\ pass.state = "walk" /\ pass.day # lastCompleted
          /\ pass'.state = IF PostTime > pass.day * HoursPerDay THEN "evaluate" ELSE "walk"
          /\ pass'.day = pass.day - 1 /\ pass'.graphs = Append(pass.graphs, Graph(pass.day))
          /\ pass'.now = pass.now /\ pass'.today = pass.today
          /\ pass' \in PassRecord
        <3>1. pass.day \in Int /\ Append(pass.graphs, Graph(pass.day)) \in Seq(SUBSET HourOfDay)
            BY <1>3 DEF TypeInv, PassRecord, Stages
        <3> DEFINE stage == IF PostTime > pass.day * HoursPerDay THEN "evaluate" ELSE "walk"
                   day == pass.day - 1
                   graphs == Append(pass.graphs, Graph(pass.day))
        <3>2. /\ pass.state = "walk" /\ pass.day # lastCompleted /\ pass \in PassRecord
              /\ pass' = [pass EXCEPT !.state = stage, !.day = day, !.graphs = graphs]
              /\ stage \in Stages /\ day \in Int /\ graphs \in Seq(SUBSET HourOfDay)
            BY <1>5, <3>1 DEF WalkBack, TypeInv, Stages
        <3>3. /\ pass'.state = stage /\ pass'.day = day /\ pass'.graphs = graphs
              /\ pass'.now = pass.now /\ pass'.today = pass.today /\ pass' \in PassRecord
            <4> HIDE DEF stage, day, graphs
            <4> QED
                BY <3>2 DEF PassRecord
        <3> QED
            BY <3>2, <3>3
    <2>2. Len(pass'.graphs) = Len(pass.graphs) + 1
        BY <1>3, <2>1 DEF TypeInv, PassRecord, Stages
    <2>3. pass.day \in Int /\ Len(pass.graphs) \in Nat /\ pass.today \in Int
        BY DEF TypeInv, PassRecord, Stages
    <2>4. (pass'.day + 1) * HoursPerDay = pass.day * HoursPerDay
        BY <2>1, <2>3
    <2>5. TypeInv' /\ MarkInv'
        BY <1>1, <2>1 DEF TypeInv, PassRecord, Stages, MarkInv
    <2>6. WalkInv'
        BY <1>1, <2>1, <2>2, <2>3, <2>4, GraphAssumption DEF TypeInv, PassRecord, Stages, WalkInv
    <2> QED
        BY <1>2, <2>5, <2>6
<1>6. CASE WalkMeetsMark
    BY <1>1, <1>2, <1>6 DEF WalkMeetsMark, TypeInv, PassRecord, Stages, MarkInv, WalkInv
<1> QED
    BY <1>4, <1>5, <1>6

\* The days walked in a pass that is to be paid.
LEMMA WalkedDays ==
    ASSUME TypeInv, WalkInv, pass.state = "evaluate"
    PROVE  Walked = (pass.day + 1)..pass.today
<1>1. pass.day = pass.today - Len(pass.graphs) /\ Len(pass.graphs) \in Nat /\ pass.today \in Int
    BY DEF TypeInv, PassRecord, Stages, WalkInv
<1> QED
    BY <1>1 DEF Walked

\* The new mark is the newest of the old one and the days with an afternoon.
LEMMA NewMark ==
    ASSUME TypeInv, MarkInv, WalkInv, pass.state = "evaluate"
    PROVE  /\ NewLastCompleted \in Int
           /\ lastCompleted <= NewLastCompleted /\ NewLastCompleted <= pass.today
           /\ NewLastCompleted = lastCompleted \/ NewLastCompleted \in Walked
<1>1. pass.today \in Int /\ pass.day \in Int /\ lastCompleted \in Int
    BY DEF TypeInv, PassRecord, Stages
<1>2. Completed \in SUBSET Int /\ Completed # {} /\ \A d \in Completed : d <= pass.today
    BY <1>1, WalkedDays DEF Completed, AfternoonDays, MarkInv
<1>3. \E d \in Completed : \A e \in Completed : e <= d
    BY <1>1, <1>2, Greatest
<1>4. NewLastCompleted \in Completed /\ \A e \in Completed : e <= NewLastCompleted
    BY <1>3 DEF NewLastCompleted
<1> QED
    BY <1>2, <1>4 DEF Completed, AfternoonDays

\* The mark moves and the graphs are paid.
LEMMA EvaluateStep == ASSUME ScenarioInv, Evaluate PROVE ScenarioInv'
<1> USE DEF ScenarioInv
<1> DEFINE mark == NewLastCompleted
<1>1. /\ pass.state = "evaluate" /\ pass' = [pass EXCEPT !.state = "conditions"]
      /\ now' = now /\ lastCompleted' = mark
      /\ paid' = [d \in Day |-> IF d \in Walked /\ d # pass.today /\ d <= mark
                                THEN Twice(paid[d]) ELSE paid[d]]
      /\ paidToday' = IF OnlyFirstHour THEN paidToday ELSE paidToday \cup {pass.today}
    BY DEF Evaluate
<1>2. /\ mark \in Int /\ lastCompleted <= mark /\ mark <= pass.today
      /\ mark = lastCompleted \/ mark \in Walked
    BY <1>1, NewMark
<1>3. /\ pass.today \in Int /\ pass.day \in Int /\ pass.now \in Nat /\ lastCompleted \in Int
      /\ DayOf(now) \in Day /\ DayOf(PostTime) \in Int /\ now \in Hour
    BY GraphAssumption, ClockDays, DayOfHour DEF TypeInv, PassRecord, Stages
<1>4. Walked = (pass.day + 1)..pass.today
    BY <1>1, WalkedDays
<1>5. ~OnlyFirstHour
    <2>1. pass.today * HoursPerDay \in Int
        BY <1>3, GraphAssumption
    <2> QED
        BY <1>1, <1>3, <2>1, GraphAssumption DEF MarkInv, OnlyFirstHour
<1>6. \A n \in Nat : Twice(n) \in Nat /\ Twice(n) > 0
    BY DEF Twice
<1> HIDE DEF mark
<1>7. TypeInv'
    BY <1>1, <1>2, <1>3, <1>6 DEF TypeInv, PassRecord, Stages
<1>8. MarkInv'
    BY <1>1, <1>2, <1>3 DEF TypeInv, PassRecord, Stages, MarkInv, Day
<1>9. WalkInv'
    BY <1>1 DEF TypeInv, PassRecord, Stages, WalkInv
<1>10. PaidInv'
    BY <1>1, <1>2, <1>3 DEF TypeInv, PassRecord, Stages, PaidInv, Day
<1>11. MarkedDaysArePaid'
    <2> SUFFICES ASSUME NEW d \in DayOf(PostTime)..mark
                 PROVE  paid'[d] > 0 \/ d \in paidToday'
        BY <1>1 DEF MarkedDaysArePaid
    <2>1. d \in Day /\ d \in Int /\ d <= mark /\ DayOf(PostTime) <= d
        <3>1. 1 <= DayOf(PostTime) /\ DayOf(PostTime) <= DayOf(now)
            BY <1>3, ClockDays
        <3>2. Day = 0..DayOf(MaxTime) /\ DayOf(MaxTime) \in Nat
            BY GraphAssumption, DayOfHour DEF Day, DayOf
        <3> QED
            BY <1>1, <1>2, <1>3, <3>1, <3>2 DEF MarkInv
    <2>2. CASE d <= lastCompleted
        <3>1. paid[d] > 0 \/ d \in paidToday
            BY <1>3, <2>1, <2>2 DEF MarkedDaysArePaid
        <3> QED
            BY <1>1, <1>6, <2>1, <3>1 DEF TypeInv, PassRecord, Stages
    <2>3. CASE ~(d <= lastCompleted)
        <3>1. pass.day < d
            <4>1. CASE pass.day = lastCompleted
                BY <1>3, <2>1, <2>3, <4>1
            <4>2. CASE (pass.day + 1) * HoursPerDay < PostTime
                <5>1. (pass.day + 1) * HoursPerDay <= PostTime
                    BY <1>3, <4>2, GraphAssumption
                <5>2. pass.day + 1 <= DayOf(PostTime)
                    BY <1>3, <5>1, DayBefore, GraphAssumption
                <5> QED
                    BY <1>3, <2>1, <5>2
            <4> QED
                BY <1>1, <4>1, <4>2 DEF WalkInv
        <3>2. d \in Walked
            BY <1>2, <1>3, <1>4, <2>1, <3>1
        <3>3. CASE d = pass.today
            BY <1>1, <1>5, <3>3
        <3>4. CASE d # pass.today
            BY <1>1, <1>6, <2>1, <3>2, <3>4 DEF TypeInv, PassRecord, Stages
        <3> QED
            BY <3>3, <3>4
    <2> QED
        BY <2>2, <2>3
<1> QED
    BY <1>7, <1>8, <1>9, <1>10, <1>11

----------------------------------------------------------------------------
(* Theorems. *)

\* The invariant is inductive.
LEMMA ScenarioStep == ScenarioInv /\ [Next]_vars => ScenarioInv'
<1> SUFFICES ASSUME ScenarioInv, [Next]_vars PROVE ScenarioInv'
    OBVIOUS
<1>1. ASSUME UNCHANGED <<now, lastCompleted, pass, paid, paidToday>> PROVE ScenarioInv'
    BY <1>1 DEF ScenarioInv, TypeInv, MarkInv, WalkInv, PaidInv, MarkedDaysArePaid
<1>2. CASE UNCHANGED vars
    BY <1>1, <1>2 DEF vars
<1>3. ASSUME NEW hour \in Hour, DataArrives(hour) PROVE ScenarioInv'
    BY <1>1, <1>3 DEF DataArrives
<1>4. CASE Tick \/ StartPass \/ UserStep
    BY <1>4, TickStep, PassSteps, WalkSteps, EvaluateStep DEF UserStep
<1> QED
    BY <1>2, <1>3, <1>4 DEF Next

\* In every reachable state the mark, the walk and the payments agree.
THEOREM ScenarioInvHolds == Spec => []ScenarioInv
<1> QED
    BY ScenarioInit, ScenarioStep, PTL DEF Spec

\* The mark jumps over no day that was not paid, for days of any length.
THEOREM MarkedDaysArePaidHolds == Spec => []MarkedDaysArePaid
<1>1. ScenarioInv => MarkedDaysArePaid
    BY DEF ScenarioInv
<1> QED
    BY <1>1, ScenarioInvHolds, PTL

\* A day is paid as completed once more only from a mark at the first graph.
THEOREM PaidAgainOnlyFromMarkHolds == Spec => PaidAgainOnlyFromMark
<1> DEFINE FromMark == \A d \in Day :
                           paid[d] > 0 /\ paid'[d] > paid[d] => lastCompleted = pass.today
<1>1. ScenarioInv /\ [Next]_vars => [FromMark]_vars
    <2> SUFFICES ASSUME ScenarioInv, Next, NEW d \in Day, paid[d] > 0, paid'[d] > paid[d]
                 PROVE  lastCompleted = pass.today
        BY DEF vars
    <2> USE DEF ScenarioInv
    <2>1. paid[d] \in Nat /\ d \in Int /\ pass.today \in Int /\ pass.day \in Int
              /\ lastCompleted \in Int
        BY DEF TypeInv, PassRecord, Stages, Day
    <2>2. Evaluate
        BY <2>1 DEF Next, UserStep, Tick, DataArrives, StartPass, FirstGraph, WalkBack,
            WalkMeetsMark, WalkFails, ReadConditions, ReadConditionsFails
    <2>3. d \in Walked /\ pass.state = "evaluate"
        BY <2>1, <2>2 DEF Evaluate
    <2>4. pass.day < d
        BY <2>1, <2>3, WalkedDays
    <2>5. d <= lastCompleted
        BY DEF PaidInv
    <2> QED
        BY <2>1, <2>3, <2>4, <2>5 DEF MarkInv, WalkInv
<1> QED
    BY <1>1, ScenarioInvHolds, PTL DEF Spec, PaidAgainOnlyFromMark

----------------------------------------------------------------------------
(* The reports and the judgement. *)

Sending == {"loop", "sending", "waiting"}

ReportTypeInv ==
    /\ phase \in {"prepare", "load", "returned"}
    /\ cancelled \in BOOLEAN /\ stopped \in BOOLEAN
    /\ errors \in [Kind -> Nat] /\ unhooked \in [Kind -> Nat] /\ errorCount \in Nat
    /\ raw \in Nat
    /\ load \in {"none", "spawned", "check", "leaving", "done"} \cup Sending
    /\ waitGroup \in Nat
    /\ main \in {"start", "sending", "sent"}
    /\ draft \in [Sender -> [state : {"none", "score", "errors", "send"}, raw : Nat,
                             errors : [Kind -> Nat]]]

\* Every error was hooked or is still to be.
CountInv ==
    /\ errorCount + unhooked["deduction"] = errors["deduction"]
    /\ unhooked["critical"] <= errors["critical"]

\* Errors for which a hook stops a run.
Fatal(e) == e["critical"] > 0 \/ e["deduction"] > FailErrorCount

\* The goroutine that reports holds the wait group from wg.Add to wg.Done; main
\* is past wg.Wait only when b.Start has returned, with its context at an end.
EndInv ==
    /\ waitGroup = IF load \in {"none", "spawned", "done"} THEN 0 ELSE 1
    /\ phase = "prepare" => load = "none"
    /\ phase = "returned" => cancelled
    /\ main # "start" => phase = "returned" /\ load \notin Sending
    /\ last.finish => main = "sent"

\* What main reads after b.Start has returned tells why it was stopped.
VerdictInv ==
    /\ stopped => Fatal(errors)
    /\ stopped /\ draft["main"].state \in {"score", "send"} => Fatal(draft["main"].errors)
    /\ draft["main"].state # "none" => main = "sending"
    /\ stopped /\ last.finish => ~last.passed

ReportInv == ReportTypeInv /\ CountInv /\ EndInv /\ VerdictInv

----------------------------------------------------------------------------
LEMMA ReportInvInit == ReportInit => ReportInv
<1> SUFFICES ASSUME ReportInit PROVE ReportInv
    OBVIOUS
<1>1. ReportTypeInv
    BY DEF ReportInit, ReportTypeInv, NoDraft, Kind, Sender
<1> QED
    BY <1>1 DEF ReportInit, ReportInv, CountInv, EndInv, VerdictInv, NoDraft, NoReport, Kind, Sender

\* Errors that fail a run fail it, whatever else has happened.
LEMMA FatalFails ==
    ASSUME NEW d, Fatal(d.errors), NEW finish
    PROVE  ~Judge(d, finish).passed /\ Judge(d, finish).finish = finish
BY DEF Fatal, Judge

\* The scenarios and the hook.
LEMMA ErrorSteps ==
    ASSUME ReportInv, AddScore \/ \E kind \in Kind : AddError(kind) \/ OnError(kind)
    PROVE  ReportInv'
<1> USE DEF ReportInv
<1>1. CASE AddScore
    BY <1>1 DEF AddScore, run, ReportTypeInv, CountInv, EndInv, VerdictInv, Fatal
<1>2. ASSUME NEW kind \in Kind, AddError(kind) PROVE ReportInv'
    <2> USE <1>2 DEF AddError, run
    <2>1. /\ errors' \in [Kind -> Nat] /\ unhooked' \in [Kind -> Nat]
          /\ \A k \in Kind : errors'[k] = IF k = kind THEN errors[k] + 1 ELSE errors[k]
          /\ \A k \in Kind : unhooked'[k] = IF k = kind THEN unhooked[k] + 1 ELSE unhooked[k]
        BY DEF ReportTypeInv
    <2>2. "critical" \in Kind /\ "deduction" \in Kind
        BY DEF Kind
    <2> HIDE <1>2 DEF AddError
    <2>3. UNCHANGED <<phase, cancelled, stopped, errorCount, raw, load, waitGroup, main, draft, last>>
        BY <1>2 DEF AddError
    <2>4. ReportTypeInv'
        BY <2>1, <2>3 DEF ReportTypeInv
    <2>5. CountInv'
        BY <2>1, <2>2, <2>3 DEF ReportTypeInv, CountInv
    <2>6. EndInv'
        BY <2>3 DEF EndInv
    <2>7. Fatal(errors) => Fatal(errors')
        BY <2>1, <2>2, ReportAssumption DEF ReportTypeInv, Fatal
    <2>8. VerdictInv'
        BY <2>3, <2>7 DEF VerdictInv, Fatal
    <2> QED
        BY <2>4, <2>5, <2>6, <2>8
<1>3. ASSUME NEW kind \in Kind, OnError(kind) PROVE ReportInv'
    <2>1. /\ unhooked[kind] > 0
          /\ unhooked' \in [Kind -> Nat]
          /\ \A k \in Kind : unhooked'[k] = IF k = kind THEN unhooked[k] - 1 ELSE unhooked[k]
          /\ errorCount' = IF kind = "deduction" THEN errorCount + 1 ELSE errorCount
        BY <1>3 DEF OnError, ReportTypeInv
    <2>2. "critical" \in Kind /\ "deduction" \in Kind
        BY DEF Kind
    <2>3. /\ cancelled => cancelled'
          /\ stopped' =>
                \/ stopped
                \/ kind = "critical" /\ phase # "returned"
                \/ kind = "deduction" /\ errorCount' > FailErrorCount /\ phase # "returned"
          /\ cancelled' \in BOOLEAN /\ stopped' \in BOOLEAN
        BY <1>3 DEF OnError, ReportTypeInv
    <2>4. UNCHANGED <<noLoad, phase, errors, raw, load, waitGroup, main, draft, last>>
        BY <1>3 DEF OnError
    <2>5. errorCount' \in Nat
        BY <2>1 DEF ReportTypeInv
    <2>6. ReportTypeInv'
        BY <2>1, <2>3, <2>4, <2>5 DEF ReportTypeInv
    <2>7. CountInv'
        <3>1. /\ errorCount \in Nat
              /\ \A k \in Kind : unhooked[k] \in Nat /\ errors[k] \in Nat
            BY DEF ReportTypeInv
        <3>2. CASE kind = "deduction"
            BY <2>1, <2>2, <2>4, <3>1, <3>2 DEF CountInv
        <3>3. CASE kind # "deduction"
            BY <2>1, <2>2, <2>4, <3>1, <3>3 DEF CountInv
        <3> QED
            BY <3>2, <3>3
    <2>8. EndInv'
        BY <2>3, <2>4 DEF EndInv
    <2>9. stopped' => Fatal(errors)
        <3>1. kind = "critical" => errors["critical"] > 0
            BY <2>1, <2>2 DEF ReportTypeInv, CountInv
        <3>2. kind = "deduction" /\ errorCount' > FailErrorCount
                => errors["deduction"] > FailErrorCount
            BY <2>1, <2>2, ReportAssumption DEF ReportTypeInv, CountInv
        <3> QED
            BY <2>3, <3>1, <3>2 DEF VerdictInv, Fatal
    <2>10. phase = "returned" => stopped' = stopped
        BY <2>3, <1>3 DEF OnError, ReportTypeInv
    <2>11. VerdictInv'
        BY <2>4, <2>9, <2>10 DEF VerdictInv, EndInv, Fatal
    <2> QED
        BY <2>6, <2>7, <2>8, <2>11
<1> QED
    BY <1>1, <1>2, <1>3

\* b.Start.
LEMMA BenchSteps == ASSUME ReportInv, BenchStep PROVE ReportInv'
<1> USE DEF ReportInv, result
<1>1. CASE PrepareEnds
    <2>1. /\ phase = "prepare" /\ main = "start"
          /\ UNCHANGED <<noLoad, cancelled, stopped, timeUp, errors, unhooked, errorCount, raw,
                        waitGroup, main, draft, last>>
        BY <1>1 DEF PrepareEnds, ReportTypeInv, EndInv
    <2>2. \/ phase' = "returned" /\ cancelled /\ load' = load
          \/ phase' = "load" /\ load' = "spawned"
        BY <1>1 DEF PrepareEnds
    <2>3. ReportTypeInv'
        BY <2>1, <2>2 DEF ReportTypeInv
    <2>4. CountInv' /\ VerdictInv'
        BY <2>1 DEF CountInv, VerdictInv, Fatal
    <2>5. load = "none" /\ waitGroup = 0
        BY <2>1 DEF EndInv
    <2>6. EndInv'
        BY <2>1, <2>2, <2>5 DEF EndInv, Sending
    <2> QED
        BY <2>3, <2>4, <2>6
<1>2. CASE TimePasses
    BY <1>2 DEF TimePasses, ReportTypeInv, CountInv, EndInv, VerdictInv, Fatal
<1>3. CASE LoadEnds
    BY <1>3 DEF LoadEnds, ReportTypeInv, CountInv, EndInv, VerdictInv, Fatal
<1> QED
    BY <1>1, <1>2, <1>3 DEF BenchStep

\* The goroutine that reports on the way.
LEMMA ReporterSteps == ASSUME ReportInv, ReporterStep \/ LoadWaits PROVE ReportInv'
<1> USE DEF ReportInv, result, run
<1>1. CASE LoadStarts
    BY <1>1 DEF LoadStarts, ReportTypeInv, CountInv, EndInv, VerdictInv, Fatal, Sending
<1>2. CASE LoadChecks
    BY <1>2 DEF LoadChecks, ReportTypeInv, CountInv, EndInv, VerdictInv, Fatal, Sending
<1>3. CASE LoadReports
    BY <1>3 DEF LoadReports, StartReport, ReportTypeInv, CountInv, EndInv, VerdictInv, Fatal, Sending, Sender, NoDraft, Kind
<1>4. CASE ReadErrors("reporter")
    BY <1>4 DEF ReadErrors, ReportTypeInv, CountInv, EndInv, VerdictInv, Fatal, Sender
<1>5. CASE ReadScore("reporter")
    BY <1>5 DEF ReadScore, ReportTypeInv, CountInv, EndInv, VerdictInv, Fatal, Sender
<1>6. CASE ReporterSends
    BY <1>6 DEF ReporterSends, Report, Judge, ReportTypeInv, CountInv, EndInv, VerdictInv, Fatal, Sending, Sender, NoDraft, Kind
<1>7. CASE LoadReturns
    BY <1>7 DEF LoadReturns, ReportTypeInv, CountInv, EndInv, VerdictInv, Fatal, Sending
<1>8. CASE LoadWaits
    BY <1>8 DEF LoadWaits, ReportTypeInv, CountInv, EndInv, VerdictInv, Fatal, Sending
<1> QED
    BY <1>1, <1>2, <1>3, <1>4, <1>5, <1>6, <1>7, <1>8 DEF ReporterStep

\* main.
LEMMA MainSteps == ASSUME ReportInv, MainStep PROVE ReportInv'
<1> USE DEF ReportInv, result, run
<1>1. CASE MainWaits
    BY <1>1 DEF MainWaits, StartReport, ReportTypeInv, CountInv, EndInv, VerdictInv, Fatal, Sending, Sender, NoDraft, Kind
<1>2. CASE ReadErrors("main")
    BY <1>2 DEF ReadErrors, ReportTypeInv, CountInv, EndInv, VerdictInv, Fatal, Sender
<1>3. CASE ReadScore("main")
    BY <1>3 DEF ReadScore, ReportTypeInv, CountInv, EndInv, VerdictInv, Fatal, Sender
<1>4. CASE MainSends
    BY <1>4, FatalFails DEF MainSends, Report, ReportTypeInv, CountInv, EndInv, VerdictInv, Fatal, Sending, Sender, NoDraft, Kind
<1> QED
    BY <1>1, <1>2, <1>3, <1>4 DEF MainStep

----------------------------------------------------------------------------
(* Theorems. *)

\* The invariant is inductive.
LEMMA ReportStep == ReportInv /\ [ReportNext]_reportVars => ReportInv'
<1> SUFFICES ASSUME ReportInv, [ReportNext]_reportVars PROVE ReportInv'
    OBVIOUS
<1>1. CASE UNCHANGED reportVars
    BY <1>1 DEF reportVars, ReportInv, ReportTypeInv, CountInv, EndInv, VerdictInv, Fatal
<1>2. CASE ReportNext
    BY <1>2, ErrorSteps, BenchSteps, ReporterSteps, MainSteps DEF ReportNext
<1> QED
    BY <1>1, <1>2

\* In every reachable state the counter, the wait group and what main has read
\* agree as ReportInv says.
THEOREM ReportInvHolds == ReportSpec => []ReportInv
<1> QED
    BY ReportInvInit, ReportStep, PTL DEF ReportSpec

\* The hook that stops a run and the judgement agree, for any limit.
THEOREM StoppedRunFailsHolds == ReportSpec => []StoppedRunFails
<1>1. ReportInv => StoppedRunFails
    BY DEF ReportInv, VerdictInv, StoppedRunFails
<1> QED
    BY <1>1, ReportInvHolds, PTL

\* Nothing is reported after the final report, although the reporter joins the
\* wait group only in its own goroutine.
THEOREM FinalReportIsLastHolds == ReportSpec => FinalReportIsLast
<1>1. ReportInv /\ [ReportNext]_reportVars => [last.finish => last' = last]_reportVars
    <2> SUFFICES ASSUME ReportInv, ReportNext, last.finish PROVE last' = last
        BY DEF reportVars
    <2>1. main = "sent" /\ load \notin Sending
        BY DEF ReportInv, EndInv
    <2>2. ~ReporterSends /\ ~MainSends
        BY <2>1 DEF ReporterSends, MainSends, Sending
    <2> QED
        BY <2>2 DEF ReportNext, BenchStep, ReporterStep, MainStep, AddScore, AddError, OnError,
            PrepareEnds, TimePasses, LoadEnds, LoadStarts, LoadChecks, LoadReports, ReadErrors,
            ReadScore, LoadReturns, LoadWaits, MainWaits
<1> QED
    BY <1>1, ReportInvHolds, PTL DEF ReportSpec, FinalReportIsLast

----------------------------------------------------------------------------
(* The check of answers. *)

CheckStates == {"idle", "asked", "answered", "search", "gallop", "bisect",
                "walk", "accepted", "refused"}
Searching == check.state \in {"search", "gallop", "bisect"}
HasAnswer == check.state \notin {"idle", "asked"}

CheckRecord ==
    [state : CheckStates, kind : RequestKind, filter : SUBSET Level,
     start : Nat, end : Nat, due : SUBSET read, answer : Seq(Condition),
     index : [Level -> Nat], todo : SUBSET Level, level : Level,
     ok : Nat, ng : Nat, range : Nat, next : Nat \ {0}]

CheckTypeInv ==
    /\ honest \in BOOLEAN
    /\ draw \in [Slot -> Draw]
    /\ lastSlot \in 0..MaxSlot
    /\ arrays \in [Level -> Seq(Nat)]
    /\ poster \in [state : {"idle", "drawn", "lock", "add", "post"},
                   first : Nat, next : Nat]
    /\ inFlight \subseteq SUBSET Condition
    /\ stored \subseteq Condition
    /\ read \subseteq Condition
    /\ due \subseteq read
    /\ check \in CheckRecord

\* The slots up to here are in the arrays, if anywhere.
Frontier ==
    IF poster.state \in {"drawn", "lock", "add"} THEN poster.next - 1 ELSE lastSlot

PosterInv ==
    /\ poster.state # "idle" =>
           /\ 1 <= poster.first /\ poster.first <= lastSlot
           /\ poster.first <= poster.next
    /\ poster.state \in {"drawn", "lock"} => poster.next = poster.first
    /\ poster.state = "add" => poster.next <= lastSlot /\ ~Reading
    /\ poster.state = "post" => poster.next = lastSlot + 1

\* Every condition in the arrays is the one of a slot below the frontier.
SlotInv ==
    \A l \in Level :
        /\ Len(arrays[l]) <= Frontier
        /\ \A i \in DOMAIN arrays[l] :
               \E s \in 1..Frontier : ConditionOf(s) = [level |-> l, timestamp |-> arrays[l][i]]

\* Nothing is posted, stored or read that is not in the arrays.
KnownInv ==
    /\ poster.state \in {"add", "post"} =>
           \A s \in poster.first..(poster.next - 1) : ConditionOf(s) \in Known
    /\ \A batch \in inFlight : batch \subseteq Known
    /\ stored \subseteq Known
    /\ read \subseteq Known
    /\ honest => read \subseteq stored

RequestInv ==
    /\ check.kind # "conditions" => check.filter = Level /\ check.start = 0
    /\ HasAnswer =>
           /\ check.kind # "conditions" => Len(check.answer) <= 1
           /\ check.kind = "trend" /\ check.answer # <<>> =>
                  check.end = check.answer[1].timestamp
    /\ Reading => ~Malformed /\ ~NothingToCheck

\* What a correct server answered, once more rows may have come.
PageInv ==
    honest /\ HasAnswer =>
        /\ Len(check.answer) <= Limit
        /\ Descending(check.answer)
        /\ \A i \in DOMAIN check.answer :
               /\ check.answer[i] \in stored
               /\ check.answer[i].level \in check.filter
               /\ check.start <= check.answer[i].timestamp
        /\ check.kind = "conditions" =>
               /\ \A i \in DOMAIN check.answer : check.answer[i].timestamp < check.end
               /\ \A c \in check.due :
                      /\ c.level \in check.filter
                      /\ check.start <= c.timestamp
                      /\ c.timestamp < check.end
                      => \/ \E i \in DOMAIN check.answer : check.answer[i] = c
                         \/ /\ Len(check.answer) = Limit
                            /\ \A i \in DOMAIN check.answer :
                                   c.timestamp < check.answer[i].timestamp

\* Where the search of an array is: the bound is in (ng, ok].
SearchInv ==
    /\ \A l \in Level : check.index[l] <= Len(arrays[l])
    /\ check.state \notin {"walk", "accepted", "refused"} => check.next = 1
    /\ Searching =>
           /\ check.todo \subseteq check.filter
           /\ check.kind # "list"
           /\ \A l \in check.filter \ check.todo : \A i \in DOMAIN arrays[l] :
                  i <= check.index[l] <=> Before(arrays[l][i])
    /\ check.state \in {"gallop", "bisect"} =>
           /\ check.level \in check.todo
           /\ check.ng < check.ok /\ check.ok <= Len(arrays[check.level])
           /\ check.range > 0
           /\ Before(At(0))
           /\ \A n \in check.ok..(Len(arrays[check.level]) - 1) : ~Before(At(n))
           /\ check.state = "bisect" => Before(At(check.ng))

\* Where the walk is: what was matched, what was passed, what is left.
WalkedInv ==
    check.state = "walk" =>
        /\ check.next <= Len(check.answer) + 1
        /\ \A l \in check.filter : \A i \in 1..check.index[l] :
               /\ check.kind # "list" => Before(arrays[l][i])
               /\ check.next > 1 =>
                      arrays[l][i] < check.answer[check.next - 1].timestamp
        /\ check.kind = "conditions" =>
               \A l \in check.filter : \A i \in (check.index[l] + 1)..Len(arrays[l]) :
                   Before(arrays[l][i]) =>
                       LET c == [level |-> l, timestamp |-> arrays[l][i]]
                       IN  \/ c \notin check.due
                           \/ \E k \in 1..(check.next - 1) : check.answer[k] = c
        /\ \A k \in 1..(check.next - 1) :
               /\ check.answer[k] \in Known
               /\ check.answer[k].level \in check.filter
               /\ check.kind # "list" => Before(check.answer[k].timestamp)
               /\ \A j \in 1..(k - 1) :
                      check.answer[k].timestamp < check.answer[j].timestamp

\* What a correct server answered and the walk has not met is still ahead.
AheadInv ==
    honest /\ check.state = "walk" =>
        \A k \in check.next..Len(check.answer) :
            \E i \in 1..check.index[check.answer[k].level] :
                arrays[check.answer[k].level][i] = check.answer[k].timestamp

AnswerInv ==
    /\ CheckTypeInv /\ PosterInv /\ SlotInv /\ ArraysAscend /\ KnownInv
    /\ RequestInv /\ PageInv /\ SearchInv /\ WalkedInv /\ AheadInv
    /\ HonestIsAccepted /\ AcceptedWasPosted /\ ReadIsNotMissing

----------------------------------------------------------------------------
(* Arithmetic. *)

\* Conditions of different slots do not meet, however they are blurred.
LEMMA SlotsApart ==
    ASSUME NEW s \in Nat, NEW t \in Nat, s < t,
           NEW b \in (-PostIntervalBlurSecond)..PostIntervalBlurSecond,
           NEW c \in (-PostIntervalBlurSecond)..PostIntervalBlurSecond
    PROVE  s * PostIntervalSecond + b < t * PostIntervalSecond + c
<1> DEFINE P == PostIntervalSecond
<1>1. P \in Nat /\ PostIntervalBlurSecond \in Nat /\ 2 * PostIntervalBlurSecond < P
    BY CheckAssumption
<1>2. PICK d \in Nat : t = s + 1 + d
    <2>1. t - s - 1 \in Nat /\ t = s + 1 + (t - s - 1)
        OBVIOUS
    <2> QED
        BY <2>1
<1>3. t * P = s * P + P + d * P
    <2> HIDE DEF P
    <2> QED
        BY <1>1, <1>2
<1>4. d * P >= 0 /\ d * P \in Nat /\ s * P \in Nat
    <2> HIDE DEF P
    <2> QED
        BY <1>1, <1>2
<1>5. b - c <= 2 * PostIntervalBlurSecond
    BY <1>1
<1>6. t * P \in Nat
    BY <1>3, <1>4, <1>1
<1> HIDE DEF P
<1>7. s * P + b < t * P + c
    BY <1>1, <1>3, <1>4, <1>5, <1>6
<1> QED
    BY <1>7 DEF P

LEMMA ConditionOfType ==
    ASSUME draw \in [Slot -> Draw], NEW s \in Slot
    PROVE  /\ ConditionOf(s) \in Condition
           /\ ConditionOf(s).level = draw[s].level
           /\ ConditionOf(s).timestamp = s * PostIntervalSecond + draw[s].blur
           /\ draw[s].level \in Level
           /\ draw[s].blur \in (-PostIntervalBlurSecond)..PostIntervalBlurSecond
<1>1. draw[s] \in Draw /\ s \in Nat
    BY CheckAssumption DEF Slot
<1>2. /\ draw[s].level \in Level
      /\ draw[s].blur \in (-PostIntervalBlurSecond)..PostIntervalBlurSecond
    BY <1>1 DEF Draw
<1>3. 0 * PostIntervalSecond + 0 < s * PostIntervalSecond + draw[s].blur
         \/ ~(0 < s)
    BY <1>1, <1>2, SlotsApart, CheckAssumption
<1>4. 0 < s
    BY CheckAssumption DEF Slot
<1>5. 0 * PostIntervalSecond = 0 /\ s * PostIntervalSecond \in Nat
    BY <1>1, CheckAssumption
<1>6. s * PostIntervalSecond + draw[s].blur \in Nat
    BY <1>2, <1>3, <1>4, <1>5, CheckAssumption
<1> QED
    BY <1>2, <1>6 DEF ConditionOf, Condition

LEMMA SlotsAscend ==
    ASSUME draw \in [Slot -> Draw], NEW s \in Slot, NEW t \in Slot, s < t
    PROVE  ConditionOf(s).timestamp < ConditionOf(t).timestamp
<1>1. s \in Nat /\ t \in Nat
    BY CheckAssumption DEF Slot
<1> QED
    BY <1>1, SlotsApart, ConditionOfType

----------------------------------------------------------------------------
(* The beginning. *)

LEMMA AnswerInit ==
    ASSUME CheckInit
    PROVE  AnswerInv
<1> USE DEF CheckInit, IdlePoster, IdleCheck, Reading, HasAnswer, Searching
<1>1. CheckTypeInv
    <2>1. draw \in [Slot -> Draw] /\ lastSlot \in 0..MaxSlot
        BY CheckAssumption
    <2>2. Horizon \in Nat /\ SearchRange \in Nat
        BY CheckAssumption DEF Horizon
    <2> QED
        BY <2>1, <2>2 DEF CheckTypeInv, CheckRecord, CheckStates, RequestKind, Level
<1>2. PosterInv /\ SlotInv /\ ArraysAscend
    BY CheckAssumption DEF PosterInv, SlotInv, ArraysAscend, Frontier, Level
<1>3. KnownInv /\ RequestInv /\ PageInv
    BY DEF KnownInv, RequestInv, PageInv
<1>4. SearchInv /\ WalkedInv /\ AheadInv
    BY DEF SearchInv, WalkedInv, AheadInv, Level
<1> QED
    BY <1>1, <1>2, <1>3, <1>4
    DEF AnswerInv, HonestIsAccepted, AcceptedWasPosted, ReadIsNotMissing

----------------------------------------------------------------------------
(* The poster and the server. *)

\* What the poster and the server leave alone while no array is changed.
LEMMA CheckSideKept ==
    ASSUME AnswerInv, UNCHANGED <<honest, draw, arrays, read, check>>, stored \subseteq stored'
    PROVE  /\ RequestInv' /\ PageInv' /\ SearchInv' /\ WalkedInv' /\ AheadInv'
           /\ ArraysAscend'
           /\ HonestIsAccepted' /\ AcceptedWasPosted' /\ ReadIsNotMissing'
           /\ Known' = Known
<1> USE DEF AnswerInv
<1>1. Known' = Known
    BY DEF Known
<1>2. RequestInv'
    BY DEF RequestInv, Reading, HasAnswer, Malformed, NothingToCheck
<1>3. PageInv'
    BY DEF PageInv, HasAnswer, Limit, Descending
<1>4. SearchInv'
    BY DEF SearchInv, Searching, Before, At
<1>5. WalkedInv'
    BY <1>1 DEF WalkedInv, Before
<1>6. AheadInv'
    BY DEF AheadInv
<1>7. ArraysAscend' /\ HonestIsAccepted' /\ ReadIsNotMissing'
    BY DEF ArraysAscend, HonestIsAccepted, ReadIsNotMissing
<1>8. AcceptedWasPosted'
    BY <1>1 DEF AcceptedWasPosted, Descending
<1> QED
    BY <1>1, <1>2, <1>3, <1>4, <1>5, <1>6, <1>7, <1>8

LEMMA FrontierType ==
    ASSUME AnswerInv
    PROVE  Frontier \in Nat /\ Frontier <= lastSlot /\ lastSlot \in Nat
           /\ 1..Frontier \subseteq Slot
BY CheckAssumption DEF AnswerInv, CheckTypeInv, CheckRecord, PosterInv, Frontier, Slot

LEMMA CheckFields ==
    ASSUME AnswerInv
    PROVE  /\ check \in CheckRecord
           /\ check.state \in CheckStates /\ check.kind \in RequestKind
           /\ check.filter \subseteq Level /\ check.todo \subseteq Level
           /\ check.level \in Level
           /\ check.start \in Nat /\ check.end \in Nat
           /\ check.due \subseteq read
           /\ check.answer \in Seq(Condition)
           /\ check.index \in [Level -> Nat]
           /\ check.ok \in Nat /\ check.ng \in Nat /\ check.range \in Nat
           /\ check.next \in Nat \ {0}
BY DEF AnswerInv, CheckTypeInv, CheckRecord

LEMMA ArrayFacts ==
    ASSUME AnswerInv, NEW l \in Level
    PROVE  /\ arrays[l] \in Seq(Nat) /\ Len(arrays[l]) \in Nat
           /\ DOMAIN arrays[l] = 1..Len(arrays[l])
           /\ \A i \in 1..Len(arrays[l]) : arrays[l][i] \in Nat
           /\ check.index[l] \in Nat /\ check.index[l] <= Len(arrays[l])
           /\ Len(arrays[l]) <= MaxSlot
<1>1. arrays[l] \in Seq(Nat) /\ MaxSlot \in Nat /\ lastSlot \in 0..MaxSlot
    BY CheckAssumption DEF AnswerInv, CheckTypeInv
<1>2. check.index[l] \in Nat /\ check.index[l] <= Len(arrays[l])
    BY CheckFields DEF AnswerInv, SearchInv
<1>3. Len(arrays[l]) <= Frontier /\ Frontier \in Nat /\ Frontier <= lastSlot
    BY FrontierType DEF AnswerInv, SlotInv
<1> QED
    BY <1>1, <1>2, <1>3

LEMMA AnswerFacts ==
    ASSUME AnswerInv
    PROVE  /\ Len(check.answer) \in Nat
           /\ DOMAIN check.answer = 1..Len(check.answer)
           /\ check.answer # <<>> => Len(check.answer) > 0
           /\ \A k \in 1..Len(check.answer) :
                  /\ check.answer[k] \in Condition
                  /\ check.answer[k].level \in Level
                  /\ check.answer[k].timestamp \in Nat
                  /\ check.answer[k] = [level |-> check.answer[k].level,
                                        timestamp |-> check.answer[k].timestamp]
<1>1. check.answer \in Seq(Condition)
    BY CheckFields
<1>2. \A k \in 1..Len(check.answer) : check.answer[k] \in Condition
    BY <1>1
<1> QED
    BY <1>1, <1>2 DEF Condition

\* A frontier that moves on with nothing added keeps what is said of slots.
LEMMA SlotsKept ==
    ASSUME AnswerInv, UNCHANGED <<draw, arrays>>, Frontier' \in Nat, Frontier <= Frontier'
    PROVE  SlotInv'
<1>1. Frontier \in Nat
    BY FrontierType
<1> SUFFICES ASSUME NEW l \in Level
             PROVE  /\ Len(arrays[l]) <= Frontier'
                    /\ \A i \in DOMAIN arrays[l] :
                          \E s \in 1..(Frontier') :
                              ConditionOf(s) = [level |-> l, timestamp |-> arrays[l][i]]
    BY DEF SlotInv, ConditionOf
<1>2. Len(arrays[l]) \in Nat
    BY DEF AnswerInv, CheckTypeInv, CheckRecord
<1>3. Len(arrays[l]) <= Frontier'
    BY <1>1, <1>2 DEF AnswerInv, SlotInv
<1>4. ASSUME NEW i \in DOMAIN arrays[l]
      PROVE  \E s \in 1..(Frontier') :
                 ConditionOf(s) = [level |-> l, timestamp |-> arrays[l][i]]
    <2>1. PICK s \in 1..Frontier :
              ConditionOf(s) = [level |-> l, timestamp |-> arrays[l][i]]
        BY DEF AnswerInv, SlotInv
    <2>2. s \in 1..(Frontier')
        BY <1>1
    <2> QED
        BY <2>1, <2>2
<1> QED
    BY <1>3, <1>4

LEMMA DrawBatchKeeps ==
    ASSUME AnswerInv, NEW count \in Slot, DrawBatch(count)
    PROVE  AnswerInv'
<1> USE DEF DrawBatch
<1>1. /\ RequestInv' /\ PageInv' /\ SearchInv' /\ WalkedInv' /\ AheadInv'
      /\ ArraysAscend' /\ HonestIsAccepted' /\ AcceptedWasPosted' /\ ReadIsNotMissing'
      /\ Known' = Known
    BY CheckSideKept
<1> DEFINE first == lastSlot + count - AtMost(count, PostContentNum) + 1
<1>2. /\ first \in Nat /\ lastSlot' \in 0..MaxSlot
      /\ lastSlot + 1 <= first /\ first <= lastSlot'
    BY CheckAssumption DEF AnswerInv, CheckTypeInv, CheckRecord, Slot, AtMost
<1>3. poster' = [state |-> "drawn", first |-> first, next |-> first]
    OBVIOUS
<1> HIDE DEF first
<1>4. CheckTypeInv'
    BY <1>2, <1>3 DEF AnswerInv, CheckTypeInv, CheckRecord
<1>5. PosterInv'
    <2>1. lastSlot \in Nat
        BY FrontierType
    <2> QED
        BY <1>2, <1>3, <2>1 DEF PosterInv
<1>6. SlotInv'
    <2>1. lastSlot \in Nat /\ Frontier = lastSlot /\ Frontier' = first - 1
        BY FrontierType, <1>3 DEF Frontier
    <2> QED
        BY <1>2, <2>1, SlotsKept
<1>7. KnownInv'
    BY <1>1, <1>3 DEF AnswerInv, KnownInv
<1> QED
    BY <1>1, <1>4, <1>5, <1>6, <1>7 DEF AnswerInv

LEMMA CallLockKeeps ==
    ASSUME AnswerInv, CallLock
    PROVE  AnswerInv'
<1> USE DEF CallLock
<1>1. /\ RequestInv' /\ PageInv' /\ SearchInv' /\ WalkedInv' /\ AheadInv'
      /\ ArraysAscend' /\ HonestIsAccepted' /\ AcceptedWasPosted' /\ ReadIsNotMissing'
      /\ Known' = Known
    BY CheckSideKept
<1>2. CheckTypeInv' /\ PosterInv'
    BY DEF AnswerInv, CheckTypeInv, CheckRecord, PosterInv
<1>3. SlotInv'
    <2>1. Frontier' = Frontier
        BY DEF Frontier, AnswerInv, CheckTypeInv
    <2> QED
        BY <2>1, FrontierType, SlotsKept
<1>4. KnownInv'
    BY <1>1 DEF AnswerInv, KnownInv, CheckTypeInv
<1> QED
    BY <1>1, <1>2, <1>3, <1>4 DEF AnswerInv

LEMMA LockKeeps ==
    ASSUME AnswerInv, Lock
    PROVE  AnswerInv'
<1> USE DEF Lock
<1>1. /\ RequestInv' /\ PageInv' /\ SearchInv' /\ WalkedInv' /\ AheadInv'
      /\ ArraysAscend' /\ HonestIsAccepted' /\ AcceptedWasPosted' /\ ReadIsNotMissing'
      /\ Known' = Known
    BY CheckSideKept
<1>2. CheckTypeInv' /\ PosterInv'
    BY DEF AnswerInv, CheckTypeInv, CheckRecord, PosterInv, Reading
<1>3. SlotInv'
    <2>1. Frontier' = Frontier
        BY DEF Frontier, AnswerInv, CheckTypeInv
    <2> QED
        BY <2>1, FrontierType, SlotsKept
<1>4. KnownInv'
    <2>1. poster'.first..(poster'.next - 1) = {}
        BY DEF AnswerInv, CheckTypeInv, CheckRecord, PosterInv
    <2> QED
        BY <1>1, <2>1 DEF AnswerInv, KnownInv
<1> QED
    BY <1>1, <1>2, <1>3, <1>4 DEF AnswerInv

LEMMA PostKeeps ==
    ASSUME AnswerInv, Post
    PROVE  AnswerInv'
<1> USE DEF Post, IdlePoster
<1>1. /\ RequestInv' /\ PageInv' /\ SearchInv' /\ WalkedInv' /\ AheadInv'
      /\ ArraysAscend' /\ HonestIsAccepted' /\ AcceptedWasPosted' /\ ReadIsNotMissing'
      /\ Known' = Known
    BY CheckSideKept
<1> DEFINE batch == {ConditionOf(s) : s \in poster.first..lastSlot}
<1>2. batch \subseteq Known
    <2>1. lastSlot = poster.next - 1
        BY DEF AnswerInv, PosterInv, CheckTypeInv
    <2> QED
        BY <2>1 DEF AnswerInv, KnownInv
<1>3. batch \in SUBSET Condition
    BY <1>2 DEF Known
<1> HIDE DEF batch
<1>4. inFlight' = inFlight \cup {batch}
    BY DEF batch
<1>5. CheckTypeInv'
    BY <1>3, <1>4 DEF AnswerInv, CheckTypeInv, CheckRecord
<1>6. PosterInv'
    BY DEF AnswerInv, PosterInv
<1>7. SlotInv'
    <2>1. Frontier' = Frontier
        BY DEF Frontier, AnswerInv, CheckTypeInv
    <2> QED
        BY <2>1, FrontierType, SlotsKept
<1>8. KnownInv'
    BY <1>1, <1>2, <1>4 DEF AnswerInv, KnownInv
<1> QED
    BY <1>1, <1>5, <1>6, <1>7, <1>8 DEF AnswerInv

LEMMA StoreKeeps ==
    ASSUME AnswerInv, NEW batch \in inFlight, Store(batch)
    PROVE  AnswerInv'
<1> USE DEF Store
<1>1. /\ RequestInv' /\ PageInv' /\ SearchInv' /\ WalkedInv' /\ AheadInv'
      /\ ArraysAscend' /\ HonestIsAccepted' /\ AcceptedWasPosted' /\ ReadIsNotMissing'
      /\ Known' = Known
    BY CheckSideKept
<1>2. CheckTypeInv'
    BY DEF AnswerInv, CheckTypeInv, CheckRecord
<1>3. PosterInv'
    BY DEF AnswerInv, PosterInv, Reading
<1>4. SlotInv'
    <2>1. Frontier' = Frontier
        BY DEF Frontier
    <2> QED
        BY <2>1, FrontierType, SlotsKept
<1>5. KnownInv'
    BY <1>1 DEF AnswerInv, KnownInv, ConditionOf
<1> QED
    BY <1>1, <1>2, <1>3, <1>4, <1>5 DEF AnswerInv

LEMMA DelayPassesKeeps ==
    ASSUME AnswerInv, DelayPasses
    PROVE  AnswerInv'
<1> USE DEF DelayPasses, posterVars
<1>1. /\ RequestInv' /\ PageInv' /\ SearchInv' /\ WalkedInv' /\ AheadInv'
      /\ ArraysAscend' /\ HonestIsAccepted' /\ AcceptedWasPosted' /\ ReadIsNotMissing'
      /\ Known' = Known
    BY CheckSideKept
<1>2. CheckTypeInv'
    BY DEF AnswerInv, CheckTypeInv, CheckRecord
<1>3. PosterInv'
    BY DEF AnswerInv, PosterInv, Reading
<1>4. SlotInv'
    <2>1. Frontier' = Frontier
        BY DEF Frontier
    <2> QED
        BY <2>1, FrontierType, SlotsKept
<1>5. KnownInv'
    BY <1>1 DEF AnswerInv, KnownInv, ConditionOf
<1> QED
    BY <1>1, <1>2, <1>3, <1>4, <1>5 DEF AnswerInv

\* The array of the level grows by the condition, the others stay.
LEMMA AddGrows ==
    ASSUME AnswerInv, Add
    PROVE  /\ poster.next \in Slot /\ poster.next \in 1..lastSlot
           /\ Frontier = poster.next - 1 /\ Frontier' = poster.next
           /\ arrays' \in [Level -> Seq(Nat)]
           /\ \A l \in Level :
                  /\ Len(arrays[l]) <= Len(arrays'[l])
                  /\ \A i \in DOMAIN arrays[l] : arrays'[l][i] = arrays[l][i]
                  /\ \A i \in DOMAIN arrays'[l] :
                         \/ i \in DOMAIN arrays[l]
                         \/ /\ i = Len(arrays[l]) + 1
                            /\ ConditionOf(poster.next) = [level |-> l, timestamp |-> arrays'[l][i]]
                  /\ Len(arrays'[l]) <= Len(arrays[l]) + 1
           /\ ConditionOf(poster.next) \in Known'
           /\ Known \subseteq Known'
<1> USE DEF Add
<1> DEFINE n == poster.next
           c == ConditionOf(n)
<1>1. n \in Nat /\ n >= 1 /\ n <= lastSlot /\ lastSlot \in Nat /\ 1..lastSlot \subseteq Slot
    <2>1. poster.first \in Nat /\ n \in Nat /\ poster.state = "add"
        BY DEF AnswerInv, CheckTypeInv, CheckRecord
    <2>2. poster.first >= 1 /\ n >= poster.first /\ n <= lastSlot
        BY <2>1 DEF AnswerInv, PosterInv
    <2>3. lastSlot \in 0..MaxSlot /\ MaxSlot \in Nat
        BY CheckAssumption DEF AnswerInv, CheckTypeInv, CheckRecord
    <2> HIDE DEF n, Add
    <2> QED
        BY <2>1, <2>2, <2>3 DEF Slot
<1>2. n \in Slot /\ n \in 1..lastSlot
    BY <1>1
<1>3. c.level \in Level /\ c.timestamp \in Nat /\ c \in Condition
      /\ c = [level |-> c.level, timestamp |-> c.timestamp]
    BY <1>2, ConditionOfType DEF AnswerInv, CheckTypeInv, CheckRecord, Condition, ConditionOf
<1>4. Frontier = n - 1 /\ Frontier' = n
    <2>1. poster'.next = n + 1
          /\ poster'.state = IF n = lastSlot THEN "post" ELSE "add"
        BY DEF AnswerInv, CheckTypeInv, CheckRecord
    <2>2. lastSlot' = lastSlot
        OBVIOUS
    <2> QED
        BY <1>1, <2>1, <2>2 DEF Frontier
<1>5. arrays' = [arrays EXCEPT ![c.level] = Append(@, c.timestamp)]
    OBVIOUS
<1>6. arrays \in [Level -> Seq(Nat)]
    BY DEF AnswerInv, CheckTypeInv, CheckRecord
<1> HIDE DEF Add, n, c
<1>7. arrays' \in [Level -> Seq(Nat)]
    BY <1>3, <1>5, <1>6
<1>8. ASSUME NEW l \in Level
      PROVE  /\ Len(arrays[l]) <= Len(arrays'[l])
             /\ \A i \in DOMAIN arrays[l] : arrays'[l][i] = arrays[l][i]
             /\ \A i \in DOMAIN arrays'[l] :
                    \/ i \in DOMAIN arrays[l]
                    \/ /\ i = Len(arrays[l]) + 1
                       /\ c = [level |-> l, timestamp |-> arrays'[l][i]]
             /\ Len(arrays'[l]) <= Len(arrays[l]) + 1
    <2>1. CASE l = c.level
        <3>1. arrays'[l] = Append(arrays[l], c.timestamp) /\ arrays[l] \in Seq(Nat)
            BY <2>1, <1>3, <1>5, <1>6
        <3>2. /\ Len(arrays'[l]) = Len(arrays[l]) + 1
              /\ \A i \in 1..Len(arrays[l]) : arrays'[l][i] = arrays[l][i]
              /\ arrays'[l][Len(arrays[l]) + 1] = c.timestamp
              /\ DOMAIN arrays'[l] = 1..(Len(arrays[l]) + 1)
              /\ DOMAIN arrays[l] = 1..Len(arrays[l])
              /\ Len(arrays[l]) \in Nat
            BY <3>1, <1>3
        <3> QED
            BY <2>1, <3>2, <1>3
    <2>2. CASE l # c.level
        <3>1. arrays'[l] = arrays[l] /\ Len(arrays[l]) \in Nat
            BY <2>2, <1>5, <1>6
        <3> QED
            BY <3>1
    <2> QED
        BY <2>1, <2>2
<1>9. c \in Known'
    <2>1. /\ arrays'[c.level] = Append(arrays[c.level], c.timestamp)
          /\ arrays[c.level] \in Seq(Nat)
        BY <1>3, <1>5, <1>6
    <2>2. Len(arrays[c.level]) + 1 \in DOMAIN arrays'[c.level]
          /\ arrays'[c.level][Len(arrays[c.level]) + 1] = c.timestamp
        BY <2>1, <1>3
    <2> QED
        BY <1>3, <2>2 DEF Known
<1>10. Known \subseteq Known'
    <2> SUFFICES ASSUME NEW k \in Known
                 PROVE  k \in Known'
        OBVIOUS
    <2>1. k \in Condition /\ k.level \in Level
        BY DEF Known, Condition
    <2>2. PICK i \in DOMAIN arrays[k.level] : arrays[k.level][i] = k.timestamp
        BY DEF Known
    <2>3. i \in DOMAIN arrays'[k.level]
        BY <2>1, <1>6, <1>7, <1>8
    <2>4. arrays'[k.level][i] = k.timestamp
        BY <2>1, <2>2, <1>8
    <2> QED
        BY <2>1, <2>3, <2>4 DEF Known
<1> QED
    BY <1>2, <1>4, <1>7, <1>8, <1>9, <1>10 DEF n, c

LEMMA AddKeeps ==
    ASSUME AnswerInv, Add
    PROVE  AnswerInv'
<1> DEFINE n == poster.next
           c == ConditionOf(n)
<1>1. /\ n \in Slot /\ n \in 1..lastSlot
      /\ Frontier = n - 1 /\ Frontier' = n
      /\ arrays' \in [Level -> Seq(Nat)]
      /\ c \in Known' /\ Known \subseteq Known'
    BY AddGrows
<1>2. \A l \in Level :
          /\ Len(arrays[l]) <= Len(arrays'[l])
          /\ \A i \in DOMAIN arrays[l] : arrays'[l][i] = arrays[l][i]
          /\ \A i \in DOMAIN arrays'[l] :
                 \/ i \in DOMAIN arrays[l]
                 \/ /\ i = Len(arrays[l]) + 1
                    /\ c = [level |-> l, timestamp |-> arrays'[l][i]]
          /\ Len(arrays'[l]) <= Len(arrays[l]) + 1
    BY AddGrows
<1>3. /\ draw \in [Slot -> Draw] /\ n \in Nat
      /\ \A l \in Level : Len(arrays[l]) \in Nat /\ Len(arrays'[l]) \in Nat
                          /\ DOMAIN arrays[l] = 1..Len(arrays[l])
                          /\ DOMAIN arrays'[l] = 1..Len(arrays'[l])
    <2>1. draw \in [Slot -> Draw] /\ arrays \in [Level -> Seq(Nat)]
        BY DEF AnswerInv, CheckTypeInv, CheckRecord
    <2>2. n \in Nat
        BY <1>1, CheckAssumption DEF Slot
    <2> QED
        BY <1>1, <2>1, <2>2
<1>4. /\ poster.state = "add" /\ ~Reading
      /\ poster' = [poster EXCEPT !.next = n + 1,
                        !.state = IF n = lastSlot THEN "post" ELSE "add"]
      /\ UNCHANGED <<honest, draw, lastSlot, inFlight, stored, read, due, check>>
    BY DEF Add, AnswerInv, PosterInv
<1>5. \A s \in Slot : ConditionOf(s)' = ConditionOf(s)
    BY <1>4 DEF ConditionOf
<1> HIDE DEF n, c
<1>6. CheckTypeInv'
    <2>1. poster' \in [state : {"idle", "drawn", "lock", "add", "post"},
                       first : Nat, next : Nat]
        <3>1. poster \in [state : {"idle", "drawn", "lock", "add", "post"},
                          first : Nat, next : Nat]
            BY DEF AnswerInv, CheckTypeInv, CheckRecord
        <3>2. n + 1 \in Nat
            BY <1>3
        <3> QED
            BY <1>4, <3>1, <3>2
    <2> QED
        BY <1>1, <1>4, <2>1 DEF AnswerInv, CheckTypeInv, CheckRecord
<1>7. PosterInv'
    <2>1. /\ poster'.first = poster.first /\ poster'.next = n + 1
          /\ poster'.state = IF n = lastSlot THEN "post" ELSE "add"
          /\ poster.first \in Nat /\ lastSlot \in Nat
        BY <1>4, FrontierType DEF AnswerInv, CheckTypeInv, CheckRecord
    <2>2. 1 <= poster.first /\ poster.first <= lastSlot /\ poster.first <= n
        BY <1>4 DEF AnswerInv, PosterInv, n
    <2>3. ~Reading' /\ n <= lastSlot
        BY <1>1, <1>4 DEF Reading
    <2> QED
        BY <1>3, <1>4, <2>1, <2>2, <2>3 DEF PosterInv
<1>8. SlotInv'
    <2> SUFFICES ASSUME NEW l \in Level
                 PROVE  /\ Len(arrays'[l]) <= n
                        /\ \A i \in DOMAIN arrays'[l] :
                              \E s \in 1..n :
                                  ConditionOf(s)' = [level |-> l, timestamp |-> arrays'[l][i]]
        BY <1>1 DEF SlotInv
    <2>1. Len(arrays[l]) <= n - 1
        BY <1>1 DEF AnswerInv, SlotInv
    <2>2. Len(arrays'[l]) <= n
        BY <1>2, <1>3, <2>1
    <2>3. ASSUME NEW i \in DOMAIN arrays'[l]
          PROVE  \E s \in 1..n :
                     ConditionOf(s)' = [level |-> l, timestamp |-> arrays'[l][i]]
        <3>1. CASE i \in DOMAIN arrays[l]
            <4>1. PICK s \in 1..(n - 1) :
                      ConditionOf(s) = [level |-> l, timestamp |-> arrays[l][i]]
                BY <3>1, <1>1 DEF AnswerInv, SlotInv
            <4>2. s \in 1..n /\ s \in Slot
                BY <1>1, <1>3, FrontierType DEF Slot
            <4> QED
                BY <3>1, <4>1, <4>2, <1>2, <1>5
        <3>2. CASE i \notin DOMAIN arrays[l]
            <4>1. c = [level |-> l, timestamp |-> arrays'[l][i]] /\ n \in 1..n
                BY <3>2, <1>1, <1>2, <1>3
            <4> QED
                BY <4>1, <1>1, <1>5 DEF c
        <3> QED
            BY <3>1, <3>2
    <2> QED
        BY <2>2, <2>3
<1>9. ArraysAscend'
    <2>1. ASSUME NEW l \in Level, NEW i \in DOMAIN arrays[l],
                 NEW m \in Level, c.level = m
          PROVE  arrays[l][i] < c.timestamp
        <3>1. PICK s \in 1..(n - 1) :
                  ConditionOf(s) = [level |-> l, timestamp |-> arrays[l][i]]
            BY <1>1 DEF AnswerInv, SlotInv
        <3>2. s \in Slot /\ s < n
            BY <1>1, <1>3, FrontierType DEF Slot
        <3> QED
            BY <3>1, <3>2, <1>1, <1>3, SlotsAscend DEF c
    <2> SUFFICES ASSUME NEW l \in Level, NEW m \in Level,
                        NEW i \in DOMAIN arrays'[l], NEW j \in DOMAIN arrays'[m]
                 PROVE  /\ l = m /\ i < j => arrays'[l][i] < arrays'[m][j]
                        /\ l # m => arrays'[l][i] # arrays'[m][j]
        BY DEF ArraysAscend
    <2>6. arrays'[l][i] \in Nat /\ arrays'[m][j] \in Nat
        <3>1. arrays'[l] \in Seq(Nat) /\ arrays'[m] \in Seq(Nat)
            BY <1>1
        <3> QED
            BY <3>1
    <2>2. CASE i \in DOMAIN arrays[l] /\ j \in DOMAIN arrays[m]
        BY <2>2, <1>2 DEF AnswerInv, ArraysAscend
    <2>3. CASE i \in DOMAIN arrays[l] /\ j \notin DOMAIN arrays[m]
        <3>1. c = [level |-> m, timestamp |-> arrays'[m][j]]
            BY <2>3, <1>2
        <3>2. arrays[l][i] < arrays'[m][j]
            BY <3>1, <2>1, <2>3
        <3>3. arrays'[l][i] = arrays[l][i]
            BY <1>2, <2>3
        <3> QED
            BY <2>6, <3>2, <3>3
    <2>4. CASE i \notin DOMAIN arrays[l] /\ j \in DOMAIN arrays[m]
        <3>1. c = [level |-> l, timestamp |-> arrays'[l][i]] /\ i = Len(arrays[l]) + 1
            BY <2>4, <1>2
        <3>2. arrays[m][j] < arrays'[l][i]
            BY <3>1, <2>1, <2>4
        <3>3. arrays'[m][j] = arrays[m][j]
            BY <1>2, <2>4
        <3>4. l = m => ~(i < j)
            BY <3>1, <2>4, <1>3
        <3> QED
            BY <2>6, <3>2, <3>3, <3>4
    <2>5. CASE i \notin DOMAIN arrays[l] /\ j \notin DOMAIN arrays[m]
        <3>1. /\ c = [level |-> l, timestamp |-> arrays'[l][i]] /\ i = Len(arrays[l]) + 1
              /\ c = [level |-> m, timestamp |-> arrays'[m][j]] /\ j = Len(arrays[m]) + 1
            BY <2>5, <1>2
        <3>2. l = m /\ i = j
            BY <3>1
        <3> QED
            BY <3>2, <1>3
    <2> QED
        BY <2>2, <2>3, <2>4, <2>5
<1>10. KnownInv'
    <2>1. /\ \A batch \in inFlight' : batch \subseteq Known'
          /\ stored' \subseteq Known' /\ read' \subseteq Known'
          /\ honest' => read' \subseteq stored'
        BY <1>1, <1>4 DEF AnswerInv, KnownInv
    <2>2. ASSUME NEW s \in poster'.first..(poster'.next - 1)
          PROVE  ConditionOf(s)' \in Known'
        <3>1. /\ poster'.first = poster.first /\ poster'.next = n + 1
              /\ poster.first \in Nat /\ poster.first >= 1
            BY <1>4 DEF AnswerInv, CheckTypeInv, CheckRecord, PosterInv
        <3>2. s \in Slot
            BY <3>1, <1>1, <1>3, FrontierType DEF Slot
        <3>3. CASE s = n
            BY <3>3, <3>2, <1>1, <1>5 DEF c
        <3>4. CASE s # n
            <4>1. s \in poster.first..(poster.next - 1)
                BY <3>1, <3>4, <1>3 DEF n
            <4>2. ConditionOf(s) \in Known
                BY <4>1, <1>4 DEF AnswerInv, KnownInv
            <4> QED
                BY <4>2, <3>2, <1>1, <1>5
        <3> QED
            BY <3>3, <3>4
    <2> QED
        BY <2>1, <2>2 DEF KnownInv
<1>11. RequestInv' /\ PageInv'
    BY <1>4 DEF AnswerInv, RequestInv, PageInv, Reading, HasAnswer, Malformed,
                NothingToCheck, Limit, Descending
<1>12. check'.state \notin {"search", "gallop", "bisect", "walk"} /\ ~Searching'
    BY <1>4 DEF Reading, Searching
<1>13. SearchInv'
    <2>1. \A l \in Level : check'.index[l] <= Len(arrays'[l])
        <3> SUFFICES ASSUME NEW l \in Level
                     PROVE  check.index[l] <= Len(arrays'[l])
            BY <1>4
        <3>1. check.index[l] \in Nat /\ check.index[l] <= Len(arrays[l])
            BY ArrayFacts
        <3> QED
            BY <3>1, <1>2, <1>3
    <2> QED
        BY <1>4, <1>12, <2>1 DEF AnswerInv, SearchInv
<1>14. WalkedInv' /\ AheadInv'
    BY <1>12 DEF WalkedInv, AheadInv
<1>15. HonestIsAccepted' /\ ReadIsNotMissing'
    BY <1>4 DEF AnswerInv, HonestIsAccepted, ReadIsNotMissing
<1>16. AcceptedWasPosted'
    BY <1>1, <1>4 DEF AnswerInv, AcceptedWasPosted, Descending
<1> QED
    BY <1>6, <1>7, <1>8, <1>9, <1>10, <1>11, <1>13, <1>14, <1>15, <1>16 DEF AnswerInv

----------------------------------------------------------------------------
(* The request and its answer. *)

\* What a step of the check leaves alone.
LEMMA PosterSideKept ==
    ASSUME AnswerInv, UNCHANGED <<posterVars, stored, due>>,
           read' \subseteq Known, honest => read' \subseteq stored,
           Reading' => Reading \/ poster.state # "add"
    PROVE  /\ PosterInv' /\ SlotInv' /\ ArraysAscend' /\ KnownInv'
           /\ Known' = Known
<1> USE DEF posterVars
<1>1. Known' = Known
    BY DEF Known
<1>2. PosterInv'
    BY DEF AnswerInv, PosterInv
<1>3. SlotInv'
    <2>1. Frontier' = Frontier
        BY DEF Frontier
    <2> QED
        BY <2>1, FrontierType, SlotsKept
<1>4. ArraysAscend'
    BY DEF AnswerInv, ArraysAscend
<1>5. KnownInv'
    BY <1>1 DEF AnswerInv, KnownInv, ConditionOf
<1> QED
    BY <1>1, <1>2, <1>3, <1>4, <1>5

LEMMA RequestKept ==
    ASSUME AnswerInv, UNCHANGED <<posterVars, stored, due>>,
           UNCHANGED <<check.kind, check.filter, check.start, check.end,
                       check.due, check.answer>>,
           HasAnswer, Reading' => Reading
    PROVE  RequestInv' /\ PageInv'
<1> USE DEF posterVars
<1>1. RequestInv'
    BY DEF AnswerInv, RequestInv, Malformed, NothingToCheck, HasAnswer
<1>2. PageInv'
    BY DEF AnswerInv, PageInv, Limit, Descending, HasAnswer
<1> QED
    BY <1>1, <1>2

LEMMA AskKeeps ==
    ASSUME AnswerInv, NEW kind \in RequestKind, NEW filter \in Filters,
           NEW range \in Ranges, Ask(kind, filter, range[1], range[2])
    PROVE  AnswerInv'
<1> USE DEF Ask
<1>1. /\ PosterInv' /\ SlotInv' /\ ArraysAscend' /\ KnownInv'
    <2>1. ~Reading'
        BY DEF Reading, IdleCheck
    <2> QED
        BY <2>1, PosterSideKept DEF AnswerInv, KnownInv
<1>2. /\ check'.state = "asked" /\ check'.kind = kind /\ check'.due = due
      /\ check'.filter = (IF kind = "conditions" THEN filter ELSE Level)
      /\ check'.start = (IF kind = "conditions" THEN range[1] ELSE 0)
      /\ check'.index = [l \in Level |-> 0] /\ check'.next = 1
    BY DEF IdleCheck
<1>3. CheckTypeInv'
    <2>1. range[1] \in Nat /\ range[2] \in Nat /\ filter \in SUBSET Level
        BY CheckAssumption
    <2>2. Horizon \in Nat /\ SearchRange \in Nat
        BY CheckAssumption DEF Horizon
    <2>3. /\ due \in SUBSET read
          /\ UNCHANGED <<honest, draw, lastSlot, arrays, poster, inFlight, stored, read, due>>
        BY DEF AnswerInv, CheckTypeInv, CheckRecord, posterVars
    <2> DEFINE f == IF kind = "conditions" THEN filter ELSE Level
               a == IF kind = "conditions" THEN range[1] ELSE 0
               e == IF kind = "conditions" THEN range[2] ELSE Horizon
    <2>4. check' = [state |-> "asked", kind |-> kind, filter |-> f, start |-> a,
                    end |-> e, due |-> due, answer |-> <<>>,
                    index |-> [l \in Level |-> 0], todo |-> {}, level |-> "info",
                    ok |-> 0, ng |-> 0, range |-> SearchRange, next |-> 1]
        BY DEF IdleCheck
    <2>5. f \in SUBSET Level /\ a \in Nat /\ e \in Nat /\ "info" \in Level
        BY <2>1, <2>2 DEF Level
    <2> HIDE DEF f, a, e, Ask
    <2>6. check' \in CheckRecord
        BY <2>2, <2>3, <2>4, <2>5 DEF CheckStates, CheckRecord
    <2> QED
        BY <2>3, <2>6 DEF AnswerInv, CheckTypeInv, CheckRecord
<1>4. RequestInv' /\ PageInv'
    BY <1>2 DEF RequestInv, PageInv, HasAnswer, Reading
<1>5. SearchInv'
    <2>1. \A l \in Level : Len(arrays'[l]) \in Nat
        BY <1>3 DEF CheckTypeInv
    <2> QED
        BY <1>2, <2>1 DEF SearchInv, Searching
<1>6. WalkedInv' /\ AheadInv' /\ HonestIsAccepted' /\ AcceptedWasPosted' /\ ReadIsNotMissing'
    BY <1>2 DEF WalkedInv, AheadInv, HonestIsAccepted, AcceptedWasPosted, ReadIsNotMissing
<1> QED
    BY <1>1, <1>3, <1>4, <1>5, <1>6 DEF AnswerInv

LEMMA UpToType ==
    ASSUME NEW S, NEW n \in Nat, NEW s \in UpTo(S, n)
    PROVE  s \in Seq(S)
BY DEF UpTo

LEMMA AnswerKeeps ==
    ASSUME AnswerInv, NEW s \in UpTo(stored \cup Claims, ConditionLimit + 1), Answer(s)
    PROVE  AnswerInv'
<1> USE DEF Answer
<1>1. s \in Seq(Condition)
    <2>1. ConditionLimit + 1 \in Nat
        BY CheckAssumption
    <2>2. s \in Seq(stored \cup Claims)
        BY <2>1, UpToType
    <2>3. stored \cup Claims \subseteq Condition
        BY CheckAssumption DEF AnswerInv, CheckTypeInv, CheckRecord
    <2> QED
        BY <2>2, <2>3
<1>2. /\ PosterInv' /\ SlotInv' /\ ArraysAscend' /\ KnownInv'
    <2>1. ~Reading'
        BY DEF Reading, AnswerInv, CheckTypeInv
    <2> QED
        BY <2>1, PosterSideKept DEF AnswerInv, KnownInv
<1>3. UNCHANGED <<honest, draw, lastSlot, arrays, poster, inFlight, stored, read, due>>
    BY DEF posterVars
<1>4. check.state = "asked"
    OBVIOUS
<1>5. /\ check'.state = "answered" /\ check'.answer = s
      /\ check'.end = (IF check.kind = "trend" /\ s # <<>> THEN s[1].timestamp ELSE check.end)
      /\ UNCHANGED <<check.kind, check.filter, check.start, check.due, check.index,
                     check.todo, check.level, check.ok, check.ng, check.range, check.next>>
    BY DEF AnswerInv, CheckTypeInv, CheckRecord
<1>6. CheckTypeInv'
    <2>1. s # <<>> => s[1].timestamp \in Nat
        <3>1. s # <<>> => s[1] \in Condition
            BY <1>1
        <3> QED
            BY <3>1 DEF Condition
    <2>2. check.end \in Nat /\ "answered" \in CheckStates
        BY DEF AnswerInv, CheckTypeInv, CheckRecord, CheckStates
    <2>3. check' \in CheckRecord
        BY <1>1, <2>1, <2>2 DEF AnswerInv, CheckTypeInv, CheckRecord
    <2> QED
        BY <1>3, <2>3 DEF AnswerInv, CheckTypeInv, CheckRecord
<1>7. RequestInv'
    BY <1>5 DEF AnswerInv, RequestInv, HasAnswer, Reading
<1>8. PageInv'
    <2> SUFFICES ASSUME honest
                 PROVE  PageInv'
        BY <1>3 DEF PageInv
    <2>1. IsPage(s)
        OBVIOUS
    <2>2. /\ Len(s) <= Limit
          /\ Descending(s)
          /\ \A i \in DOMAIN s : /\ s[i] \in stored
                                 /\ s[i].level \in check.filter
                                 /\ check.start <= s[i].timestamp
                                 /\ s[i].timestamp < check.end
        BY <2>1 DEF IsPage, Matching
    <2>3. ASSUME NEW c \in check.due, c.level \in check.filter,
                 check.start <= c.timestamp, c.timestamp < check.end
          PROVE  \/ \E i \in DOMAIN s : s[i] = c
                 \/ Len(s) = Limit /\ \A i \in DOMAIN s : c.timestamp < s[i].timestamp
        <3>1. c \in stored
            BY DEF AnswerInv, CheckTypeInv, CheckRecord, KnownInv
        <3>2. c \in Matching
            BY <3>1, <2>3 DEF Matching
        <3> QED
            BY <2>1, <3>2 DEF IsPage
    <2>4. Limit' = Limit
        BY <1>5 DEF Limit
    <2>5. check.kind = "conditions" => check'.end = check.end
        BY <1>5
    <2> HIDE DEF Answer
    <2> QED
        BY <1>3, <1>5, <2>2, <2>3, <2>4, <2>5 DEF PageInv, Descending
<1>9. SearchInv'
    BY <1>3, <1>4, <1>5 DEF AnswerInv, SearchInv, Searching
<1>10. WalkedInv' /\ AheadInv' /\ HonestIsAccepted' /\ AcceptedWasPosted' /\ ReadIsNotMissing'
    BY <1>5 DEF WalkedInv, AheadInv, HonestIsAccepted, AcceptedWasPosted, ReadIsNotMissing
<1> QED
    BY <1>2, <1>6, <1>7, <1>8, <1>9, <1>10 DEF AnswerInv

\* A step of the check that ends it.
LEMMA EndKept ==
    ASSUME AnswerInv, UNCHANGED <<posterVars, stored, read, due>>, HasAnswer,
           (check' = Refused /\ ~honest) \/ check' = Accepted
    PROVE  /\ CheckTypeInv' /\ PosterInv' /\ SlotInv' /\ ArraysAscend' /\ KnownInv'
           /\ RequestInv' /\ PageInv' /\ SearchInv' /\ WalkedInv' /\ AheadInv'
           /\ HonestIsAccepted' /\ Known' = Known
<1> USE DEF Refused, Accepted
<1>1. /\ check'.state \in {"refused", "accepted"} /\ (honest => check'.state # "refused")
      /\ UNCHANGED <<check.kind, check.filter, check.start, check.end, check.due,
                     check.answer, check.index, check.todo, check.level, check.ok,
                     check.ng, check.range, check.next>>
    BY DEF AnswerInv, CheckTypeInv, CheckRecord
<1>2. ~Reading' /\ ~Searching'
    BY <1>1 DEF Reading, Searching
<1>3. UNCHANGED <<honest, draw, lastSlot, arrays, poster, inFlight, stored, read, due>>
    BY DEF posterVars
<1>4. PosterInv' /\ SlotInv' /\ ArraysAscend' /\ KnownInv' /\ Known' = Known
    BY <1>2, PosterSideKept DEF AnswerInv, KnownInv
<1>5. RequestInv' /\ PageInv'
    BY <1>1, <1>2, RequestKept
<1>6. CheckTypeInv'
    <2>1. check \in CheckRecord
        BY DEF AnswerInv, CheckTypeInv
    <2>2. Refused \in CheckRecord /\ Accepted \in CheckRecord
        BY <2>1 DEF CheckRecord, CheckStates
    <2> HIDE DEF Refused, Accepted
    <2>3. check' \in CheckRecord
        BY <2>2
    <2> QED
        BY <1>3, <2>3 DEF AnswerInv, CheckTypeInv, CheckRecord
<1>7. SearchInv'
    BY <1>1, <1>2, <1>3 DEF AnswerInv, SearchInv
<1>8. WalkedInv' /\ AheadInv' /\ HonestIsAccepted'
    BY <1>1, <1>3 DEF WalkedInv, AheadInv, HonestIsAccepted
<1> QED
    BY <1>4, <1>5, <1>6, <1>7, <1>8

LEMMA CheckFormKeeps ==
    ASSUME AnswerInv, CheckForm
    PROVE  AnswerInv'
<1> USE DEF CheckForm
<1>1. HasAnswer
    BY DEF HasAnswer
<1>2. honest => ~Malformed
    <2> SUFFICES ASSUME honest, check.kind = "conditions"
                 PROVE  ~Malformed
        BY DEF Malformed
    <2>1. /\ Len(check.answer) <= ConditionLimit
          /\ \A i \in DOMAIN check.answer : check.start <= check.answer[i].timestamp
        BY <1>1 DEF AnswerInv, PageInv, Limit
    <2>2. check.answer \in Seq(Condition) /\ check.start \in Nat
        BY DEF AnswerInv, CheckTypeInv, CheckRecord
    <2>3. check.answer # <<>> => Len(check.answer) \in DOMAIN check.answer
        BY <2>2
    <2>4. \A i \in DOMAIN check.answer : check.answer[i].timestamp \in Nat
        <3>1. \A i \in DOMAIN check.answer : check.answer[i] \in Condition
            BY <2>2
        <3> QED
            BY <3>1 DEF Condition
    <2> QED
        BY <2>1, <2>2, <2>3, <2>4, CheckAssumption DEF Malformed
<1>3. (check' = Refused /\ ~honest) \/ check' = Accepted
    BY <1>2
<1>4. /\ CheckTypeInv' /\ PosterInv' /\ SlotInv' /\ ArraysAscend' /\ KnownInv'
      /\ RequestInv' /\ PageInv' /\ SearchInv' /\ WalkedInv' /\ AheadInv'
      /\ HonestIsAccepted'
    BY <1>1, <1>3, EndKept
<1>5. check'.state = "accepted" => check'.kind # "conditions" /\ check'.answer = <<>>
    BY DEF Refused, Accepted, NothingToCheck, AnswerInv, CheckTypeInv
<1>6. AcceptedWasPosted' /\ ReadIsNotMissing'
    BY <1>5 DEF AcceptedWasPosted, ReadIsNotMissing, Descending
<1> QED
    BY <1>4, <1>6 DEF AnswerInv

LEMMA DoneKeeps ==
    ASSUME AnswerInv, Done
    PROVE  AnswerInv'
<1> USE DEF Done
<1>1. check' = IdleCheck /\ ~Reading' /\ ~Searching' /\ ~HasAnswer'
    BY DEF Reading, Searching, HasAnswer, IdleCheck
<1>2. PosterInv' /\ SlotInv' /\ ArraysAscend' /\ KnownInv'
    BY <1>1, PosterSideKept DEF AnswerInv, KnownInv
<1>3. UNCHANGED <<honest, draw, lastSlot, arrays, poster, inFlight, stored, read, due>>
    BY DEF posterVars
<1>4. CheckTypeInv'
    <2>1. Horizon \in Nat /\ SearchRange \in Nat
        BY CheckAssumption DEF Horizon
    <2>2. check' \in CheckRecord
        BY <1>1, <2>1 DEF CheckStates, CheckRecord, RequestKind, Level, IdleCheck
    <2> QED
        BY <1>3, <2>2 DEF AnswerInv, CheckTypeInv, CheckRecord
<1>5. RequestInv' /\ PageInv'
    BY <1>1 DEF RequestInv, PageInv, IdleCheck
<1>6. SearchInv'
    <2>1. \A l \in Level : Len(arrays'[l]) \in Nat
        BY <1>4 DEF CheckTypeInv
    <2> QED
        BY <1>1, <2>1 DEF SearchInv, IdleCheck
<1>7. WalkedInv' /\ AheadInv' /\ HonestIsAccepted' /\ AcceptedWasPosted' /\ ReadIsNotMissing'
    BY <1>1 DEF WalkedInv, AheadInv, HonestIsAccepted, AcceptedWasPosted, ReadIsNotMissing,
                IdleCheck
<1> QED
    BY <1>2, <1>4, <1>5, <1>6, <1>7 DEF AnswerInv

----------------------------------------------------------------------------
(* The bound. *)

\* A step that moves the search of an array on, or to the next one.
LEMMA SearchKept ==
    ASSUME AnswerInv, UNCHANGED <<posterVars, stored, read, due>>,
           UNCHANGED <<check.kind, check.filter, check.start, check.end,
                       check.due, check.answer, check.next>>,
           check' \in CheckRecord, Searching, Searching'
    PROVE  /\ CheckTypeInv' /\ PosterInv' /\ SlotInv' /\ ArraysAscend' /\ KnownInv'
           /\ RequestInv' /\ PageInv' /\ WalkedInv' /\ AheadInv'
           /\ HonestIsAccepted' /\ AcceptedWasPosted' /\ ReadIsNotMissing'
<1>1. Reading /\ Reading' /\ HasAnswer
    BY DEF Searching, Reading, HasAnswer
<1>2. UNCHANGED <<honest, draw, lastSlot, arrays, poster, inFlight, stored, read, due>>
    BY DEF posterVars
<1>3. PosterInv' /\ SlotInv' /\ ArraysAscend' /\ KnownInv'
    BY <1>1, PosterSideKept DEF AnswerInv, KnownInv
<1>4. RequestInv' /\ PageInv'
    BY <1>1, RequestKept
<1>5. CheckTypeInv'
    BY <1>2 DEF AnswerInv, CheckTypeInv, CheckRecord
<1>6. check'.state \in {"search", "gallop", "bisect"}
    BY DEF Searching
<1>7. WalkedInv' /\ AheadInv' /\ HonestIsAccepted' /\ AcceptedWasPosted' /\ ReadIsNotMissing'
    BY <1>6 DEF WalkedInv, AheadInv, HonestIsAccepted, AcceptedWasPosted, ReadIsNotMissing
<1> QED
    BY <1>3, <1>4, <1>5, <1>7

\* What is before the bound is a prefix of the array.
LEMMA BeforeIsPrefix ==
    ASSUME AnswerInv, NEW l \in Level, NEW i \in 1..Len(arrays[l]),
           NEW j \in 1..Len(arrays[l]), i <= j, Before(arrays[l][j])
    PROVE  Before(arrays[l][i])
<1>1. arrays[l][i] <= arrays[l][j]
    <2>1. CASE i = j
        BY <2>1, ArrayFacts
    <2>2. CASE i # j
        BY <2>2, ArrayFacts DEF AnswerInv, ArraysAscend
    <2> QED
        BY <2>1, <2>2
<1>2. arrays[l][i] \in Nat /\ arrays[l][j] \in Nat /\ check.end \in Nat
    BY ArrayFacts, CheckFields
<1> QED
    BY <1>1, <1>2 DEF Before

LEMMA SearchFacts ==
    ASSUME AnswerInv, Searching
    PROVE  /\ check.todo \subseteq check.filter
           /\ check.kind # "list"
           /\ check.next = 1
           /\ \A l \in check.filter \ check.todo : \A i \in DOMAIN arrays[l] :
                  i <= check.index[l] <=> Before(arrays[l][i])
<1>1. check.state \notin {"walk", "accepted", "refused"}
    BY DEF Searching
<1> QED
    BY <1>1 DEF AnswerInv, SearchInv

LEMMA SearchLevelKeeps ==
    ASSUME AnswerInv, SearchLevel
    PROVE  AnswerInv'
<1> DEFINE level == CHOOSE l \in check.todo : TRUE
           base == arrays[level]
<1>1. /\ check.state = "search" /\ level \in check.todo /\ level \in Level
      /\ level \in check.filter /\ Searching
    BY CheckFields DEF SearchLevel, AnswerInv, SearchInv, Searching
<1>2. UNCHANGED <<posterVars, stored, read, due>>
    BY DEF SearchLevel
<1>3. check' = IF base = <<>> \/ ~Before(base[1])
               THEN [check EXCEPT !.todo = @ \ {level}, !.index[level] = 0]
               ELSE [check EXCEPT !.state = "gallop", !.level = level,
                        !.ok = Len(base), !.ng = Down(Len(base), SearchRange),
                        !.range = SearchRange]
    BY DEF SearchLevel
<1>4. /\ Len(base) \in Nat /\ DOMAIN base = 1..Len(base)
      /\ base # <<>> => Len(base) > 0
      /\ SearchRange \in Nat /\ SearchRange > 0
    BY <1>1, ArrayFacts, CheckAssumption
<1>5. arrays' = arrays
    BY <1>2 DEF posterVars
<1> HIDE DEF level
<1>6. CASE base = <<>> \/ ~Before(base[1])
    <2>1. check' = [check EXCEPT !.todo = @ \ {level}, !.index[level] = 0]
        BY <1>3, <1>6
    <2>2. check' \in CheckRecord
        BY <1>1, <2>1, CheckFields DEF CheckRecord
    <2>3. /\ UNCHANGED <<check.state, check.kind, check.filter, check.start, check.end,
                         check.due, check.answer, check.next>>
          /\ check'.todo = check.todo \ {level}
          /\ check'.index = [check.index EXCEPT ![level] = 0]
        BY <2>1, CheckFields DEF CheckRecord
    <2>4. Searching'
        BY <1>1, <2>3 DEF Searching
    <2>5. /\ CheckTypeInv' /\ PosterInv' /\ SlotInv' /\ ArraysAscend' /\ KnownInv'
          /\ RequestInv' /\ PageInv' /\ WalkedInv' /\ AheadInv'
          /\ HonestIsAccepted' /\ AcceptedWasPosted' /\ ReadIsNotMissing'
        BY <1>1, <1>2, <2>2, <2>3, <2>4, SearchKept
    <2>6. \A l \in Level : check'.index[l] = IF l = level THEN 0 ELSE check.index[l]
        BY <1>1, <2>3, CheckFields
    <2>7. ASSUME NEW i \in 1..Len(base)
          PROVE  ~Before(base[i])
        BY <1>1, <1>4, <1>6, BeforeIsPrefix
    <2>8. ASSUME NEW l \in check'.filter \ check'.todo, NEW i \in DOMAIN arrays'[l]
          PROVE  i <= check'.index[l] <=> Before(arrays[l][i])'
        <3>1. l \in Level /\ Before(arrays[l][i])' = Before(arrays[l][i])
            <4>1. l \in Level
                BY <2>3, CheckFields
            <4> QED
                BY <4>1, <1>5, <2>3 DEF Before
        <3>2. CASE l = level
            BY <3>1, <3>2, <1>4, <1>5, <2>6, <2>7
        <3>3. CASE l # level
            <4>1. l \in check.filter \ check.todo
                BY <2>3, <3>3
            <4> QED
                BY <3>1, <3>3, <4>1, <1>1, <1>5, <2>6, SearchFacts
        <3> QED
            BY <3>2, <3>3
    <2>9. \A l \in Level : check'.index[l] <= Len(arrays'[l])
        BY <1>5, <2>6, ArrayFacts
    <2>10. SearchInv'
        <3>1. check'.todo \subseteq check'.filter /\ check'.kind # "list" /\ check'.next = 1
            BY <1>1, <2>3, SearchFacts
        <3>2. check'.state = "search"
            BY <1>1, <2>3
        <3> QED
            BY <2>8, <2>9, <3>1, <3>2 DEF SearchInv
    <2> QED
        BY <2>5, <2>10 DEF AnswerInv
<1>7. CASE base # <<>> /\ Before(base[1])
    <2> DEFINE ng == Down(Len(base), SearchRange)
    <2>1. check' = [check EXCEPT !.state = "gallop", !.level = level,
                        !.ok = Len(base), !.ng = ng, !.range = SearchRange]
        BY <1>3, <1>7
    <2>2. ng \in Nat /\ ng < Len(base)
        BY <1>4, <1>7 DEF Down
    <2> HIDE DEF ng
    <2>3. check' \in CheckRecord
        BY <1>1, <1>4, <2>1, <2>2, CheckFields DEF CheckRecord, CheckStates
    <2>4. /\ UNCHANGED <<check.kind, check.filter, check.start, check.end,
                         check.due, check.answer, check.next, check.todo, check.index>>
          /\ check'.state = "gallop" /\ check'.level = level /\ check'.ok = Len(base)
          /\ check'.ng = ng /\ check'.range = SearchRange
        BY <2>1, CheckFields DEF CheckRecord
    <2>5. Searching'
        BY <2>4 DEF Searching
    <2>6. /\ CheckTypeInv' /\ PosterInv' /\ SlotInv' /\ ArraysAscend' /\ KnownInv'
          /\ RequestInv' /\ PageInv' /\ WalkedInv' /\ AheadInv'
          /\ HonestIsAccepted' /\ AcceptedWasPosted' /\ ReadIsNotMissing'
        BY <1>1, <1>2, <2>3, <2>4, <2>5, SearchKept
    <2>7. \A t : Before(t)' = Before(t)
        BY <2>4 DEF Before
    <2>8. At(0)' = base[1]
        BY <1>5, <2>4 DEF At
    <2>9. SearchInv'
        <3>1. /\ \A l \in Level : check'.index[l] <= Len(arrays'[l])
              /\ check'.next = 1
              /\ check'.todo \subseteq check'.filter
              /\ check'.kind # "list"
              /\ check'.level \in check'.todo
            BY <1>1, <1>5, <2>4, SearchFacts, ArrayFacts
        <3>2. \A l \in check'.filter \ check'.todo : \A i \in DOMAIN arrays'[l] :
                  i <= check'.index[l] <=> Before(arrays[l][i])'
            BY <1>1, <1>5, <2>4, SearchFacts DEF Before
        <3>3. /\ check'.ng < check'.ok /\ check'.ok <= Len(arrays'[check'.level])
              /\ check'.range > 0
              /\ Before(At(0))'
              /\ (check'.ok)..(Len(arrays'[check'.level]) - 1) = {}
            <4>1. Before(At(0))'
                BY <1>7, <1>5, <2>4 DEF Before, At
            <4> QED
                BY <1>4, <1>5, <2>2, <2>4, <4>1
        <3> QED
            BY <2>4, <3>1, <3>2, <3>3 DEF SearchInv
    <2> QED
        BY <2>6, <2>9 DEF AnswerInv
<1> QED
    BY <1>6, <1>7

\* What is known while an array is searched.
LEMMA ProbeFacts ==
    ASSUME AnswerInv, check.state \in {"gallop", "bisect"}
    PROVE  /\ Searching /\ HasAnswer
           /\ check.level \in Level /\ check.level \in check.todo
           /\ check.ng \in Nat /\ check.ok \in Nat
           /\ check.ng < check.ok /\ check.ok <= Len(arrays[check.level])
           /\ check.range \in Nat /\ check.range > 0
           /\ Before(At(0))
           /\ \A n \in check.ok..(Len(arrays[check.level]) - 1) : ~Before(At(n))
           /\ check.state = "bisect" => Before(At(check.ng))
BY CheckFields DEF AnswerInv, SearchInv, Searching, HasAnswer

\* A step within the array.
LEMMA ProbeKept ==
    ASSUME AnswerInv, check.state \in {"gallop", "bisect"},
           UNCHANGED <<posterVars, stored, read, due>>,
           UNCHANGED <<check.kind, check.filter, check.start, check.end, check.due,
                       check.answer, check.next, check.todo, check.index, check.level>>,
           check' \in CheckRecord, check'.state \in {"gallop", "bisect"},
           check'.ng < check'.ok, check'.ok <= Len(arrays[check.level]), check'.range > 0,
           \A n \in (check'.ok)..(Len(arrays[check.level]) - 1) : ~Before(At(n)),
           check'.state = "bisect" => Before(At(check'.ng))
    PROVE  AnswerInv'
<1>1. Searching /\ Searching'
    BY DEF Searching
<1>2. /\ CheckTypeInv' /\ PosterInv' /\ SlotInv' /\ ArraysAscend' /\ KnownInv'
      /\ RequestInv' /\ PageInv' /\ WalkedInv' /\ AheadInv'
      /\ HonestIsAccepted' /\ AcceptedWasPosted' /\ ReadIsNotMissing'
    BY <1>1, SearchKept
<1>3. arrays' = arrays
    BY DEF posterVars
<1>4. SearchInv'
    <2>1. /\ \A l \in Level : check'.index[l] <= Len(arrays'[l])
          /\ check'.next = 1
          /\ check'.todo \subseteq check'.filter
          /\ check'.kind # "list"
          /\ check'.level \in check'.todo
        BY <1>1, <1>3, SearchFacts, ArrayFacts, ProbeFacts
    <2>2. \A l \in check'.filter \ check'.todo : \A i \in DOMAIN arrays'[l] :
              i <= check'.index[l] <=> Before(arrays[l][i])'
        BY <1>1, <1>3, SearchFacts DEF Before
    <2>3. Before(At(0))'
        BY <1>3, ProbeFacts DEF Before, At
    <2>4. \A n \in (check'.ok)..(Len(arrays'[check'.level]) - 1) : ~Before(At(n))'
        BY <1>3 DEF Before, At
    <2>5. check'.state = "bisect" => Before(At(check.ng))'
        BY <1>3 DEF Before, At
    <2> QED
        BY <1>3, <2>1, <2>2, <2>3, <2>4, <2>5 DEF SearchInv
<1> QED
    BY <1>2, <1>4 DEF AnswerInv

LEMMA GallopKeeps ==
    ASSUME AnswerInv, Gallop
    PROVE  AnswerInv'
<1> DEFINE base == arrays[check.level]
<1>1. /\ check.state = "gallop"
      /\ UNCHANGED <<posterVars, stored, read, due>>
      /\ check' = IF Before(At(check.ng))
                  THEN [check EXCEPT !.state = "bisect"]
                  ELSE [check EXCEPT !.ok = check.ng,
                           !.ng = Down(check.ng, check.range),
                           !.range = AtMost(2 * check.range, 2 * MaxSlot)]
    BY DEF Gallop
<1>2. /\ check.level \in Level /\ check.ng \in Nat /\ check.ok \in Nat
      /\ check.ng < check.ok /\ check.ok <= Len(base)
      /\ check.range \in Nat /\ check.range > 0
      /\ Before(At(0))
      /\ \A n \in check.ok..(Len(base) - 1) : ~Before(At(n))
    BY <1>1, ProbeFacts
<1>3. Len(base) \in Nat /\ Len(base) <= MaxSlot /\ MaxSlot \in Nat
    BY <1>2, ArrayFacts, CheckAssumption
<1> HIDE DEF base
<1>4. CASE Before(At(check.ng))
    <2>1. check' = [check EXCEPT !.state = "bisect"]
        BY <1>1, <1>4
    <2>2. check' \in CheckRecord
        BY <2>1, CheckFields DEF CheckRecord, CheckStates
    <2>3. /\ UNCHANGED <<check.kind, check.filter, check.start, check.end, check.due,
                         check.answer, check.next, check.todo, check.index, check.level,
                         check.ok, check.ng, check.range>>
          /\ check'.state = "bisect"
        BY <2>1, CheckFields DEF CheckRecord
    <2> QED
        BY <1>1, <1>2, <1>4, <2>2, <2>3, ProbeKept DEF base
<1>5. CASE ~Before(At(check.ng))
    <2> DEFINE ng == Down(check.ng, check.range)
               range == AtMost(2 * check.range, 2 * MaxSlot)
    <2>1. check' = [check EXCEPT !.ok = check.ng, !.ng = ng, !.range = range]
        BY <1>1, <1>5
    <2>2. check.ng > 0
        BY <1>2, <1>5
    <2>3. ng \in Nat /\ ng < check.ng /\ range \in Nat /\ range > 0
        BY <1>2, <1>3, <2>2 DEF Down, AtMost
    <2> HIDE DEF ng, range
    <2>4. check' \in CheckRecord
        BY <1>2, <2>1, <2>3, CheckFields DEF CheckRecord
    <2>5. /\ UNCHANGED <<check.kind, check.filter, check.start, check.end, check.due,
                         check.answer, check.next, check.todo, check.index, check.level>>
          /\ check'.state = "gallop" /\ check'.ok = check.ng /\ check'.ng = ng
          /\ check'.range = range
        BY <1>1, <2>1, CheckFields DEF CheckRecord
    <2>6. ASSUME NEW n \in check.ng..(Len(base) - 1)
          PROVE  ~Before(At(n))
        <3>1. check.ng + 1 \in 1..Len(base) /\ n + 1 \in 1..Len(base)
              /\ check.ng + 1 <= n + 1
            BY <1>2, <1>3
        <3> QED
            BY <1>2, <1>5, <3>1, BeforeIsPrefix DEF At, base
    <2> QED
        BY <1>1, <1>2, <2>3, <2>4, <2>5, <2>6, ProbeKept DEF base
<1> QED
    BY <1>4, <1>5

LEMMA BisectKeeps ==
    ASSUME AnswerInv, Bisect
    PROVE  AnswerInv'
<1> DEFINE base == arrays[check.level]
           mid == (check.ok + check.ng) \div 2
<1>1. /\ check.state = "bisect"
      /\ UNCHANGED <<posterVars, stored, read, due>>
      /\ check' = IF check.ok - check.ng <= 1
                  THEN [check EXCEPT !.state = "search", !.todo = @ \ {check.level},
                           !.index[check.level] = check.ok]
                  ELSE IF Before(At(mid)) THEN [check EXCEPT !.ng = mid]
                                          ELSE [check EXCEPT !.ok = mid]
    BY DEF Bisect
<1>2. /\ check.level \in Level /\ check.ng \in Nat /\ check.ok \in Nat
      /\ check.ng < check.ok /\ check.ok <= Len(base)
      /\ check.range \in Nat /\ check.range > 0 /\ Searching
      /\ Before(At(check.ng)) /\ check.level \in check.todo
      /\ \A n \in check.ok..(Len(base) - 1) : ~Before(At(n))
    BY <1>1, ProbeFacts
<1>3. Len(base) \in Nat
    BY <1>2, ArrayFacts
<1>4. arrays' = arrays
    BY <1>1 DEF posterVars
<1> HIDE DEF base
<1>5. ASSUME NEW n \in check.ng..(Len(base) - 1), ~Before(At(n)),
             NEW m \in n..(Len(base) - 1)
      PROVE  ~Before(At(m))
    <2>1. n + 1 \in 1..Len(base) /\ m + 1 \in 1..Len(base) /\ n + 1 <= m + 1
        BY <1>2, <1>3
    <2> QED
        BY <1>2, <1>5, <2>1, BeforeIsPrefix DEF At, base
<1>6. CASE check.ok - check.ng > 1
    <2>1. mid \in Nat /\ check.ng < mid /\ mid < check.ok
        BY <1>2, <1>6
    <2> HIDE DEF mid
    <2>2. CASE Before(At(mid))
        <3>1. check' = [check EXCEPT !.ng = mid]
            BY <1>1, <1>2, <1>6, <2>2
        <3>2. check' \in CheckRecord
            BY <2>1, <3>1, CheckFields DEF CheckRecord
        <3>3. /\ UNCHANGED <<check.kind, check.filter, check.start, check.end, check.due,
                             check.answer, check.next, check.todo, check.index,
                             check.level, check.ok, check.range, check.state>>
              /\ check'.ng = mid
            BY <3>1, CheckFields DEF CheckRecord
        <3> QED
            BY <1>1, <1>2, <2>1, <2>2, <3>2, <3>3, ProbeKept DEF base
    <2>3. CASE ~Before(At(mid))
        <3>1. check' = [check EXCEPT !.ok = mid]
            BY <1>1, <1>2, <1>6, <2>3
        <3>2. check' \in CheckRecord
            BY <2>1, <3>1, CheckFields DEF CheckRecord
        <3>3. /\ UNCHANGED <<check.kind, check.filter, check.start, check.end, check.due,
                             check.answer, check.next, check.todo, check.index,
                             check.level, check.ng, check.range, check.state>>
              /\ check'.ok = mid
            BY <3>1, CheckFields DEF CheckRecord
        <3>4. mid \in check.ng..(Len(base) - 1) /\ mid <= Len(base)
            BY <1>2, <1>3, <2>1
        <3>5. \A n \in mid..(Len(base) - 1) : ~Before(At(n))
            BY <1>5, <2>3, <3>4
        <3> QED
            BY <1>1, <1>2, <2>1, <3>2, <3>3, <3>4, <3>5, ProbeKept DEF base
    <2> QED
        BY <2>2, <2>3
<1>7. CASE ~(check.ok - check.ng > 1)
    <2>1. check' = [check EXCEPT !.state = "search", !.todo = @ \ {check.level},
                         !.index[check.level] = check.ok]
        BY <1>1, <1>2, <1>7
    <2>2. check.ok = check.ng + 1
        BY <1>2, <1>7
    <2>3. check' \in CheckRecord
        BY <1>2, <2>1, CheckFields DEF CheckRecord, CheckStates
    <2>4. /\ UNCHANGED <<check.kind, check.filter, check.start, check.end, check.due,
                         check.answer, check.next>>
          /\ check'.state = "search" /\ check'.todo = check.todo \ {check.level}
          /\ check'.index = [check.index EXCEPT ![check.level] = check.ok]
        BY <2>1, CheckFields DEF CheckRecord
    <2>5. Searching'
        BY <2>4 DEF Searching
    <2>6. /\ CheckTypeInv' /\ PosterInv' /\ SlotInv' /\ ArraysAscend' /\ KnownInv'
          /\ RequestInv' /\ PageInv' /\ WalkedInv' /\ AheadInv'
          /\ HonestIsAccepted' /\ AcceptedWasPosted' /\ ReadIsNotMissing'
        BY <1>1, <1>2, <2>3, <2>4, <2>5, SearchKept
    <2>7. \A l \in Level :
              check'.index[l] = IF l = check.level THEN check.ok ELSE check.index[l]
        BY <1>2, <2>4, CheckFields
    <2>8. ASSUME NEW i \in 1..Len(base)
          PROVE  i <= check.ok <=> Before(base[i])
        <3>1. CASE i <= check.ok
            <4>1. check.ng + 1 \in 1..Len(base) /\ i <= check.ng + 1
                BY <1>2, <1>3, <2>2, <3>1
            <4> QED
                BY <1>2, <3>1, <4>1, BeforeIsPrefix DEF At, base
        <3>2. CASE ~(i <= check.ok)
            <4>1. i - 1 \in check.ok..(Len(base) - 1) /\ (i - 1) + 1 = i
                BY <1>2, <1>3, <3>2
            <4>2. ~Before(At(i - 1))
                BY <1>2, <4>1
            <4> QED
                BY <3>2, <4>1, <4>2 DEF At, base
        <3> QED
            BY <3>1, <3>2
    <2>9. ASSUME NEW l \in check'.filter \ check'.todo, NEW i \in DOMAIN arrays'[l]
          PROVE  i <= check'.index[l] <=> Before(arrays[l][i])'
        <3>1. l \in Level /\ Before(arrays[l][i])' = Before(arrays[l][i])
            <4>1. l \in Level
                BY <2>4, CheckFields
            <4> QED
                BY <4>1, <1>4, <2>4 DEF Before
        <3>2. CASE l = check.level
            BY <3>1, <3>2, <1>4, <2>7, <2>8, ArrayFacts DEF base
        <3>3. CASE l # check.level
            <4>1. l \in check.filter \ check.todo
                BY <2>4, <3>3
            <4> QED
                BY <3>1, <3>3, <4>1, <1>2, <1>4, <2>7, SearchFacts
        <3> QED
            BY <3>2, <3>3
    <2>10. \A l \in Level : check'.index[l] <= Len(arrays'[l])
        BY <1>2, <1>4, <2>7, ArrayFacts DEF base
    <2>11. SearchInv'
        <3>1. check'.todo \subseteq check'.filter /\ check'.kind # "list" /\ check'.next = 1
            BY <1>2, <2>4, SearchFacts
        <3> QED
            BY <2>4, <2>9, <2>10, <3>1 DEF SearchInv
    <2> QED
        BY <2>6, <2>11 DEF AnswerInv
<1> QED
    BY <1>6, <1>7
----------------------------------------------------------------------------
(* The walk. *)

\* A step that begins the walk or moves it on.
LEMMA WalkKept ==
    ASSUME AnswerInv, UNCHANGED <<posterVars, stored, due>>,
           UNCHANGED <<check.kind, check.filter, check.start, check.end,
                       check.due, check.answer>>,
           check' \in CheckRecord, HasAnswer, check'.state = "walk",
           ~Malformed, ~NothingToCheck, Reading \/ poster.state # "add",
           read \subseteq read', read' \subseteq Known, honest => read' \subseteq stored,
           \A l \in Level : check'.index[l] <= Len(arrays[l])
    PROVE  /\ CheckTypeInv' /\ PosterInv' /\ SlotInv' /\ ArraysAscend' /\ KnownInv'
           /\ RequestInv' /\ PageInv' /\ SearchInv'
           /\ HonestIsAccepted' /\ AcceptedWasPosted' /\ ReadIsNotMissing'
           /\ Known' = Known
<1>1. UNCHANGED <<honest, draw, lastSlot, arrays, poster, inFlight, stored, due>>
    BY DEF posterVars
<1>2. PosterInv' /\ SlotInv' /\ ArraysAscend' /\ KnownInv' /\ Known' = Known
    BY PosterSideKept
<1>3. RequestInv'
    BY <1>1 DEF AnswerInv, RequestInv, Malformed, NothingToCheck, HasAnswer, Reading
<1>4. PageInv'
    BY <1>1 DEF AnswerInv, PageInv, Limit, Descending, HasAnswer
<1>5. CheckTypeInv'
    <2>1. read' \subseteq Condition
        BY DEF Known
    <2>2. due \subseteq read'
        BY DEF AnswerInv, CheckTypeInv
    <2>3. check' \in [state : CheckStates, kind : RequestKind, filter : SUBSET Level,
                      start : Nat, end : Nat, due : SUBSET read', answer : Seq(Condition),
                      index : [Level -> Nat], todo : SUBSET Level, level : Level,
                      ok : Nat, ng : Nat, range : Nat, next : Nat \ {0}]
        BY DEF CheckRecord
    <2>4. check' \in CheckRecord'
        BY <2>3 DEF CheckRecord
    <2> QED
        BY <1>1, <2>1, <2>2, <2>4 DEF AnswerInv, CheckTypeInv
<1>6. SearchInv'
    BY <1>1 DEF SearchInv, Searching
<1>7. HonestIsAccepted' /\ AcceptedWasPosted' /\ ReadIsNotMissing'
    BY DEF HonestIsAccepted, AcceptedWasPosted, ReadIsNotMissing
<1> QED
    BY <1>2, <1>3, <1>4, <1>5, <1>6, <1>7

\* The walk begins at the bound, or at the end for the list.
LEMMA WalkBegins ==
    ASSUME AnswerInv, UNCHANGED <<posterVars, stored, read, due>>,
           UNCHANGED <<check.kind, check.filter, check.start, check.end,
                       check.due, check.answer>>,
           check' \in CheckRecord, HasAnswer, check'.state = "walk", check'.next = 1,
           ~Malformed, ~NothingToCheck, Reading \/ poster.state # "add",
           \A l \in Level : check'.index[l] <= Len(arrays[l]),
           \A l \in check.filter : \A i \in DOMAIN arrays[l] :
               i <= check'.index[l] <=> check.kind = "list" \/ Before(arrays[l][i])
    PROVE  AnswerInv'
<1>1. /\ CheckTypeInv' /\ PosterInv' /\ SlotInv' /\ ArraysAscend' /\ KnownInv'
      /\ RequestInv' /\ PageInv' /\ SearchInv'
      /\ HonestIsAccepted' /\ AcceptedWasPosted' /\ ReadIsNotMissing'
    BY WalkKept DEF AnswerInv, KnownInv
<1>2. arrays' = arrays /\ honest' = honest /\ stored' = stored
    BY DEF posterVars
<1>3. \A t : Before(t)' = Before(t)
    BY DEF Before
<1>4. /\ \A l \in Level : check'.index[l] \in Nat
      /\ check.filter \subseteq Level
    BY CheckFields DEF CheckRecord
<1>5. WalkedInv'
    <2>1. check'.next <= Len(check'.answer) + 1
        BY AnswerFacts
    <2>2. ASSUME NEW l \in check.filter, NEW i \in 1..check'.index[l]
          PROVE  check.kind # "list" => Before(arrays[l][i])
        BY <1>4, ArrayFacts
    <2>3. ASSUME NEW l \in check.filter, NEW i \in (check'.index[l] + 1)..Len(arrays[l]),
                 check.kind = "conditions"
          PROVE  ~Before(arrays[l][i])
        BY <1>4, <2>3, ArrayFacts
    <2>4. 1..(check'.next - 1) = {}
        OBVIOUS
    <2>5. \A l \in check'.filter : \A i \in 1..check'.index[l] :
               /\ check'.kind # "list" => Before(arrays[l][i])'
               /\ check'.next > 1 =>
                      arrays'[l][i] < check'.answer[check'.next - 1].timestamp
        BY <1>2, <2>2 DEF Before
    <2>6. check'.kind = "conditions" =>
              \A l \in check'.filter : \A i \in (check'.index[l] + 1)..Len(arrays'[l]) :
                  ~Before(arrays[l][i])'
        BY <1>2, <2>3 DEF Before
    <2> QED
        BY <2>1, <2>4, <2>5, <2>6 DEF WalkedInv
<1>6. AheadInv'
    <2> SUFFICES ASSUME honest, NEW k \in 1..Len(check.answer)
                 PROVE  \E i \in 1..check'.index[check.answer[k].level] :
                            arrays[check.answer[k].level][i] = check.answer[k].timestamp
        BY <1>2 DEF AheadInv
    <2> DEFINE c == check.answer[k]
    <2>1. /\ c \in stored /\ c.level \in check.filter
          /\ check.kind = "conditions" => c.timestamp < check.end
        BY AnswerFacts DEF AnswerInv, PageInv
    <2>2. PICK i \in DOMAIN arrays[c.level] : arrays[c.level][i] = c.timestamp
        BY <2>1 DEF AnswerInv, KnownInv, Known
    <2>3. check.kind = "list" \/ Before(c.timestamp)
        <3>1. CASE check.kind = "trend"
            <4>1. Len(check.answer) <= 1 /\ check.answer # <<>>
                BY <3>1 DEF AnswerInv, RequestInv, NothingToCheck
            <4>2. k = 1
                BY <4>1, AnswerFacts
            <4>3. check.end = c.timestamp /\ check.end \in Nat
                BY <3>1, <4>1, <4>2, CheckFields DEF AnswerInv, RequestInv
            <4> QED
                BY <3>1, <4>3 DEF Before
        <3>2. CASE check.kind = "conditions"
            BY <2>1, <3>2 DEF Before
        <3> QED
            BY <3>1, <3>2, CheckFields DEF RequestKind
    <2>4. c.level \in Level
        BY <2>1, <1>4
    <2> HIDE DEF c
    <2>5. i \in 1..check'.index[c.level]
        BY <1>4, <2>1, <2>2, <2>3, <2>4, ArrayFacts
    <2> QED
        BY <2>2, <2>5 DEF c
<1> QED
    BY <1>1, <1>5, <1>6 DEF AnswerInv

LEMMA ReadLockKeeps ==
    ASSUME AnswerInv, ReadLock
    PROVE  AnswerInv'
<1> DEFINE index == [l \in Level |-> Len(arrays[l])]
           state == IF check.kind = "list" THEN "walk" ELSE "search"
<1>1. /\ check.state = "answered" /\ HasAnswer /\ ~Malformed /\ ~NothingToCheck
      /\ poster.state # "add" /\ poster.state # "lock"
      /\ UNCHANGED <<posterVars, stored, read, due>>
      /\ check' = [check EXCEPT !.state = state, !.index = index, !.todo = check.filter]
      /\ check.next = 1
    BY DEF ReadLock, HasAnswer, AnswerInv, SearchInv
<1>2. index \in [Level -> Nat] /\ \A l \in Level : index[l] = Len(arrays[l])
    BY ArrayFacts
<1>3. state \in CheckStates
    BY DEF CheckStates
<1> HIDE DEF index
<1>4. check' \in CheckRecord
    <2> HIDE DEF state
    <2> QED
        BY <1>1, <1>2, <1>3, CheckFields DEF CheckRecord
<1>5. /\ UNCHANGED <<check.kind, check.filter, check.start, check.end, check.due,
                     check.answer, check.next>>
      /\ check'.state = state /\ check'.index = index /\ check'.todo = check.filter
    BY <1>1, CheckFields DEF CheckRecord
<1>6. \A l \in Level : check'.index[l] = Len(arrays[l])
    BY <1>2, <1>5
<1>7. \A l \in Level : check'.index[l] <= Len(arrays[l])
    BY <1>6, ArrayFacts
<1>8. CASE check.kind = "list"
    <2>1. \A l \in check.filter : \A i \in DOMAIN arrays[l] : i <= check'.index[l]
        BY <1>6, ArrayFacts, CheckFields
    <2> QED
        BY <1>1, <1>4, <1>5, <1>7, <1>8, <2>1, WalkBegins
<1>9. CASE check.kind # "list"
    <2>1. check'.state = "search"
        BY <1>5, <1>9
    <2>2. UNCHANGED <<honest, draw, lastSlot, arrays, poster, inFlight, stored, read, due>>
        BY <1>1 DEF posterVars
    <2>3. PosterInv' /\ SlotInv' /\ ArraysAscend' /\ KnownInv'
        BY <1>1, PosterSideKept DEF AnswerInv, KnownInv
    <2>4. RequestInv'
        BY <1>1, <1>5, <2>1 DEF AnswerInv, RequestInv, Malformed, NothingToCheck, HasAnswer
    <2>5. PageInv'
        BY <1>1, <1>5, <2>2 DEF AnswerInv, PageInv, Limit, Descending, HasAnswer
    <2>6. CheckTypeInv'
        BY <1>4, <2>2 DEF AnswerInv, CheckTypeInv, CheckRecord
    <2>7. SearchInv'
        BY <1>1, <1>5, <1>7, <1>9, <2>1, <2>2 DEF SearchInv
    <2>8. WalkedInv' /\ AheadInv' /\ HonestIsAccepted' /\ AcceptedWasPosted' /\ ReadIsNotMissing'
        BY <2>1 DEF WalkedInv, AheadInv, HonestIsAccepted, AcceptedWasPosted, ReadIsNotMissing
    <2> QED
        BY <2>3, <2>4, <2>5, <2>6, <2>7, <2>8 DEF AnswerInv
<1> QED
    BY <1>8, <1>9

LEMMA SearchedKeeps ==
    ASSUME AnswerInv, Searched
    PROVE  AnswerInv'
<1>1. /\ check.state = "search" /\ check.todo = {} /\ Searching /\ Reading /\ HasAnswer
      /\ UNCHANGED <<posterVars, stored, read, due>>
      /\ check' = [check EXCEPT !.state = "walk"]
    BY DEF Searched, Searching, Reading, HasAnswer
<1>2. check' \in CheckRecord
    BY <1>1, CheckFields DEF CheckRecord, CheckStates
<1>3. /\ UNCHANGED <<check.kind, check.filter, check.start, check.end, check.due,
                     check.answer, check.next, check.index>>
      /\ check'.state = "walk"
    BY <1>1, CheckFields DEF CheckRecord
<1>4. check'.next = 1 /\ check.kind # "list"
    BY <1>1, <1>3, SearchFacts
<1>5. ~Malformed /\ ~NothingToCheck
    BY <1>1 DEF AnswerInv, RequestInv
<1>6. \A l \in Level : check'.index[l] <= Len(arrays[l])
    BY <1>3, ArrayFacts
<1>7. \A l \in check.filter : \A i \in DOMAIN arrays[l] :
          i <= check'.index[l] <=> Before(arrays[l][i])
    BY <1>1, <1>3, SearchFacts
<1> QED
    BY <1>1, <1>2, <1>3, <1>4, <1>5, <1>6, <1>7, WalkBegins
\* The iterator steps over its newest condition, all others being older.
LEMMA PrevFacts ==
    ASSUME AnswerInv, Left # {}
    PROVE  /\ PrevLevel \in check.filter /\ PrevLevel \in Level
           /\ Prev.level = PrevLevel
           /\ Prev.timestamp = arrays[PrevLevel][check.index[PrevLevel]]
           /\ Prev.timestamp \in Nat
           /\ Prev = [level |-> PrevLevel, timestamp |-> Prev.timestamp]
           /\ Prev \in Known
           /\ check.index[PrevLevel] \in 1..Len(arrays[PrevLevel])
           /\ \A l \in check.filter : \A i \in 1..check.index[l] :
                  \/ l = PrevLevel /\ i = check.index[PrevLevel]
                  \/ arrays[l][i] < Prev.timestamp
<1> DEFINE p == PrevLevel
<1>1. Left \subseteq Level /\ check.filter \subseteq Level
    BY CheckFields DEF Left
<1>2. \A l \in Left : /\ check.index[l] \in 1..Len(arrays[l])
                      /\ Newest(l) \in Nat
    BY <1>1, ArrayFacts DEF Left, Newest
<1>3. \E l \in Left : \A m \in Left : Newest(m) <= Newest(l)
    <2> DEFINE a == "info"  b == "warning"  c == "critical"
    <2>1. \A l \in Left : l = a \/ l = b \/ l = c
        BY <1>1 DEF Level
    <2> HIDE DEF a, b, c
    <2>2. \A l, m \in Left : Newest(l) <= Newest(m) \/ Newest(m) <= Newest(l)
        BY <1>2
    <2>3. \A l, m, n \in Left :
              Newest(l) <= Newest(m) /\ Newest(m) <= Newest(n) => Newest(l) <= Newest(n)
        BY <1>2
    <2> DEFINE new(l) == Newest(l)
    <2> HIDE DEF new
    <2>4. \A l \in Left : Newest(l) <= Newest(l)
        BY <1>2
    <2>5. CASE a \in Left /\ (b \in Left => Newest(b) <= Newest(a))
                          /\ (c \in Left => Newest(c) <= Newest(a))
        BY <2>1, <2>4, <2>5
    <2>6. CASE b \in Left /\ (a \in Left => Newest(a) <= Newest(b))
                          /\ (c \in Left => Newest(c) <= Newest(b))
        BY <2>1, <2>4, <2>6
    <2>7. CASE c \in Left /\ (a \in Left => Newest(a) <= Newest(c))
                          /\ (b \in Left => Newest(b) <= Newest(c))
        BY <2>1, <2>4, <2>7
    <2>8. \/ a \in Left /\ (b \in Left => Newest(b) <= Newest(a))
                        /\ (c \in Left => Newest(c) <= Newest(a))
          \/ b \in Left /\ (a \in Left => Newest(a) <= Newest(b))
                        /\ (c \in Left => Newest(c) <= Newest(b))
          \/ c \in Left /\ (a \in Left => Newest(a) <= Newest(c))
                        /\ (b \in Left => Newest(b) <= Newest(c))
        BY <2>1, <2>2, <2>3
    <2> QED
        BY <2>5, <2>6, <2>7, <2>8
<1>4. p \in Left /\ \A m \in Left : Newest(m) <= Newest(p)
    BY <1>3 DEF PrevLevel
<1>5. Prev.level = p /\ Prev.timestamp = Newest(p)
      /\ Prev = [level |-> p, timestamp |-> Newest(p)]
    BY DEF Prev
<1> HIDE DEF p
<1>6. p \in check.filter /\ p \in Level /\ check.index[p] \in 1..Len(arrays[p])
    BY <1>1, <1>2, <1>4 DEF Left
<1>7. Prev.timestamp \in Nat /\ Prev.timestamp = arrays[p][check.index[p]]
    BY <1>2, <1>4, <1>5 DEF Newest
<1>8. Prev \in Known
    BY <1>5, <1>6, <1>7, ArrayFacts DEF Known, Condition
<1>9. ASSUME NEW l \in check.filter, NEW i \in 1..check.index[l],
             ~(l = p /\ i = check.index[p])
      PROVE  arrays[l][i] < Prev.timestamp
    <2>1. l \in Level /\ check.index[l] \in Nat /\ check.index[l] <= Len(arrays[l])
          /\ Len(arrays[l]) \in Nat
        BY <1>1, ArrayFacts
    <2>2. l \in Left /\ check.index[l] \in 1..Len(arrays[l]) /\ i \in 1..Len(arrays[l])
        BY <2>1 DEF Left
    <2>3. arrays[l][i] \in Nat /\ arrays[l][check.index[l]] \in Nat
        BY <2>1, <2>2, ArrayFacts
    <2>4. arrays[l][i] <= arrays[l][check.index[l]]
        <3>1. CASE i = check.index[l]
            BY <2>3, <3>1
        <3>2. CASE i # check.index[l]
            <4>1. i < check.index[l]
                BY <2>1, <3>2
            <4>2. i \in DOMAIN arrays[l] /\ check.index[l] \in DOMAIN arrays[l]
                BY <2>1, <2>2, ArrayFacts
            <4>3. arrays[l][i] < arrays[l][check.index[l]]
                BY <2>1, <4>1, <4>2 DEF AnswerInv, ArraysAscend
            <4> QED
                BY <2>3, <4>3
        <3> QED
            BY <3>1, <3>2
    <2>5. arrays[l][check.index[l]] <= Prev.timestamp
        BY <1>4, <1>5, <2>2 DEF Newest
    <2>6. CASE l # p
        <3>1. i \in DOMAIN arrays[l] /\ check.index[p] \in DOMAIN arrays[p]
            BY <1>6, <2>1, <2>2, ArrayFacts
        <3>2. arrays[l][i] # arrays[p][check.index[p]]
            BY <1>6, <2>1, <2>6, <3>1 DEF AnswerInv, ArraysAscend
        <3> QED
            BY <1>7, <2>3, <2>4, <2>5, <3>2
    <2>7. CASE l = p
        <3>1. i < check.index[l] /\ i \in DOMAIN arrays[l] /\ check.index[l] \in DOMAIN arrays[l]
            BY <1>9, <2>1, <2>2, <2>7, ArrayFacts
        <3>2. arrays[l][i] < arrays[l][check.index[l]]
            BY <2>1, <3>1 DEF AnswerInv, ArraysAscend
        <3> QED
            BY <1>7, <2>7, <3>2
    <2> QED
        BY <2>6, <2>7
<1> QED
    BY <1>5, <1>6, <1>7, <1>8, <1>9 DEF p

\* What the walk is allowed to rely on.
LEMMA WalkFacts ==
    ASSUME AnswerInv, check.state = "walk"
    PROVE  /\ Reading /\ HasAnswer /\ ~Malformed /\ ~NothingToCheck
           /\ check.next \in Nat \ {0} /\ check.next <= Len(check.answer) + 1
           /\ \A l \in check.filter : \A i \in 1..check.index[l] :
                  /\ check.kind # "list" => Before(arrays[l][i])
                  /\ check.next > 1 =>
                         arrays[l][i] < check.answer[check.next - 1].timestamp
           /\ \A k \in 1..(check.next - 1) :
                  /\ check.answer[k] \in Known
                  /\ check.answer[k].level \in check.filter
                  /\ check.kind # "list" => Before(check.answer[k].timestamp)
                  /\ \A j \in 1..(k - 1) :
                         check.answer[k].timestamp < check.answer[j].timestamp
<1>1. Reading /\ HasAnswer
    BY DEF Reading, HasAnswer
<1> QED
    BY <1>1, CheckFields DEF AnswerInv, RequestInv, WalkedInv

\* What was matched is newer than all that is left.
LEMMA LeftIsOlder ==
    ASSUME AnswerInv, check.state = "walk",
           NEW l \in check.filter, NEW i \in 1..check.index[l],
           NEW k \in 1..(check.next - 1)
    PROVE  arrays[l][i] < check.answer[k].timestamp
<1> DEFINE matched == check.next - 1
<1>1. /\ check.next > 1 /\ matched \in Nat /\ k \in Nat /\ matched <= Len(check.answer)
      /\ arrays[l][i] < check.answer[matched].timestamp
    BY WalkFacts, AnswerFacts
<1>2. check.answer[matched].timestamp \in Nat /\ check.answer[k].timestamp \in Nat
    <2>1. check.next \in Nat /\ Len(check.answer) \in Nat
        BY WalkFacts, AnswerFacts
    <2>2. matched \in 1..Len(check.answer) /\ k \in 1..Len(check.answer)
        BY <1>1, <2>1
    <2> QED
        BY <2>2, AnswerFacts
<1>3. l \in Level /\ arrays[l][i] \in Nat
    <2>1. l \in Level
        BY CheckFields
    <2> QED
        BY <2>1, ArrayFacts
<1>4. CASE k = matched
    BY <1>1, <1>4
<1>5. CASE k # matched
    <2>1. k \in 1..(matched - 1) /\ matched \in 1..(check.next - 1)
        BY <1>1, <1>5
    <2>2. check.answer[matched].timestamp < check.answer[k].timestamp
        BY <2>1, WalkFacts
    <2> QED
        BY <1>1, <1>2, <1>3, <2>2
<1> QED
    BY <1>4, <1>5
\* The iterator steps back, over a condition passed or matched.
LEMMA AdvanceKept ==
    ASSUME AnswerInv, check.state = "walk", Left # {},
           UNCHANGED <<posterVars, stored, due>>,
           read \subseteq read', read' \subseteq Known, honest => read' \subseteq stored,
           NEW n, check' = [Advanced EXCEPT !.next = n],
           \/ /\ n = check.next + 1 /\ check.next <= Len(check.answer)
              /\ Prev = Wanted
           \/ /\ n = check.next
              /\ check.kind = "conditions" => Prev \notin check.due
              /\ honest => \A k \in n..Len(check.answer) : check.answer[k] # Prev
    PROVE  AnswerInv'
<1> DEFINE p == PrevLevel
<1>1. /\ p \in check.filter /\ p \in Level
      /\ Prev.level = p /\ Prev.timestamp = arrays[p][check.index[p]]
      /\ Prev.timestamp \in Nat /\ Prev \in Known
      /\ Prev = [level |-> p, timestamp |-> Prev.timestamp]
      /\ check.index[p] \in 1..Len(arrays[p])
      /\ \A l \in check.filter : \A i \in 1..check.index[l] :
             (l = p /\ i = check.index[p]) \/ arrays[l][i] < Prev.timestamp
    BY PrevFacts
<1>2. /\ Reading /\ HasAnswer /\ ~Malformed /\ ~NothingToCheck
      /\ check.next \in Nat \ {0} /\ check.next <= Len(check.answer) + 1
    BY WalkFacts
<1>3. n \in Nat \ {0} /\ n <= Len(check.answer) + 1 /\ Len(check.answer) \in Nat
    BY <1>2, AnswerFacts
<1>4. check' = [check EXCEPT !.index[p] = @ - 1, !.next = n]
    BY DEF Advanced
<1> HIDE DEF p
<1>5. [check.index EXCEPT ![p] = @ - 1] \in [Level -> Nat]
    BY <1>1, CheckFields
<1>6. check' \in CheckRecord
    BY <1>3, <1>4, <1>5, CheckFields DEF CheckRecord
<1>7. /\ UNCHANGED <<check.kind, check.filter, check.start, check.end, check.due,
                     check.answer>>
      /\ check'.state = "walk" /\ check'.next = n
      /\ check'.index = [check.index EXCEPT ![p] = @ - 1]
    BY <1>4, CheckFields DEF CheckRecord
<1>8. \A l \in Level :
          check'.index[l] = IF l = p THEN check.index[l] - 1 ELSE check.index[l]
    BY <1>1, <1>7, CheckFields
<1>9. ASSUME NEW l \in check.filter
      PROVE  /\ l \in Level /\ check'.index[l] \in Nat /\ check.index[l] \in Nat
             /\ Len(arrays[l]) \in Nat
             /\ check'.index[l] <= check.index[l]
             /\ \A i \in 1..check'.index[l] :
                    /\ i \in 1..check.index[l]
                    /\ arrays[l][i] < Prev.timestamp
             /\ \A i \in (check'.index[l] + 1)..Len(arrays[l]) :
                    \/ i \in (check.index[l] + 1)..Len(arrays[l])
                    \/ l = p /\ i = check.index[p]
    <2>1. l \in Level
        BY CheckFields
    <2>2. /\ check.index[l] \in Nat /\ Len(arrays[l]) \in Nat
          /\ check'.index[l] = IF l = p THEN check.index[l] - 1 ELSE check.index[l]
        BY <1>8, <2>1, ArrayFacts
    <2>3. check'.index[l] \in Nat /\ check'.index[l] <= check.index[l]
        BY <1>1, <2>2
    <2>4. ASSUME NEW i \in 1..check'.index[l]
          PROVE  i \in 1..check.index[l] /\ arrays[l][i] < Prev.timestamp
        <3>1. i \in 1..check.index[l] /\ ~(l = p /\ i = check.index[p])
            BY <2>2, <2>3
        <3> QED
            BY <1>1, <3>1
    <2>5. \A i \in (check'.index[l] + 1)..Len(arrays[l]) :
              i \in (check.index[l] + 1)..Len(arrays[l]) \/ (l = p /\ i = check.index[p])
        <3>1. CASE l = p
            <4>1. check'.index[l] = check.index[l] - 1
                BY <2>2, <3>1
            <4> QED
                BY <2>2, <3>1, <4>1
        <3>2. CASE l # p
            BY <2>2, <3>2
        <3> QED
            BY <3>1, <3>2
    <2> QED
        BY <2>1, <2>2, <2>3, <2>4, <2>5
<1>10. ASSUME NEW l \in Level
       PROVE  check'.index[l] <= Len(arrays[l])
    <2>1. check.index[l] \in Nat /\ Len(arrays[l]) \in Nat
          /\ check.index[l] <= Len(arrays[l])
        BY ArrayFacts
    <2>2. check'.index[l] = IF l = p THEN check.index[l] - 1 ELSE check.index[l]
        BY <1>8
    <2> QED
        BY <2>1, <2>2
<1>11. /\ CheckTypeInv' /\ PosterInv' /\ SlotInv' /\ ArraysAscend' /\ KnownInv'
       /\ RequestInv' /\ PageInv' /\ SearchInv'
       /\ HonestIsAccepted' /\ AcceptedWasPosted' /\ ReadIsNotMissing'
       /\ Known' = Known
    BY <1>2, <1>6, <1>7, <1>10, WalkKept
<1>12. arrays' = arrays /\ honest' = honest
    BY DEF posterVars
<1>13. /\ \/ n = check.next
          \/ /\ n = check.next + 1 /\ check.next \in 1..Len(check.answer)
             /\ check.answer[check.next] = Prev
       /\ check.next - 1 \in Nat
    <2>1. check.next - 1 \in Nat
        BY <1>2
    <2>2. CASE n = check.next
        BY <2>1, <2>2
    <2>3. CASE n # check.next
        <3>1. n = check.next + 1 /\ check.next <= Len(check.answer) /\ Prev = Wanted
            BY <2>3
        <3> QED
            BY <1>2, <1>3, <2>1, <3>1 DEF Wanted
    <2> QED
        BY <2>2, <2>3
<1>14. WalkedInv'
    <2>1. ASSUME NEW l \in check.filter, NEW i \in 1..check'.index[l]
          PROVE  /\ check.kind # "list" => Before(arrays[l][i])
                 /\ n > 1 => arrays[l][i] < check.answer[n - 1].timestamp
        <3>1. i \in 1..check.index[l] /\ arrays[l][i] < Prev.timestamp
            BY <1>9
        <3>2. /\ check.kind # "list" => Before(arrays[l][i])
              /\ check.next > 1 => arrays[l][i] < check.answer[check.next - 1].timestamp
            BY <3>1, WalkFacts
        <3>3. CASE n = check.next
            BY <3>2, <3>3
        <3>4. CASE n = check.next + 1 /\ check.answer[check.next] = Prev
            <4>1. n - 1 = check.next
                BY <1>2, <3>4
            <4> QED
                BY <3>1, <3>2, <3>4, <4>1
        <3> QED
            BY <1>13, <3>3, <3>4
    <2>2. ASSUME check.kind = "conditions", NEW l \in check.filter,
                 NEW i \in (check'.index[l] + 1)..Len(arrays[l]), Before(arrays[l][i])
          PROVE  \/ [level |-> l, timestamp |-> arrays[l][i]] \notin check.due
                 \/ \E k \in 1..(n - 1) :
                        check.answer[k] = [level |-> l, timestamp |-> arrays[l][i]]
        <3>1. CASE i \in (check.index[l] + 1)..Len(arrays[l])
            <4>1. \/ [level |-> l, timestamp |-> arrays[l][i]] \notin check.due
                  \/ \E k \in 1..(check.next - 1) :
                         check.answer[k] = [level |-> l, timestamp |-> arrays[l][i]]
                BY <2>2, <3>1 DEF AnswerInv, WalkedInv
            <4> QED
                BY <1>2, <1>13, <4>1
        <3>2. CASE l = p /\ i = check.index[p]
            <4>1. [level |-> l, timestamp |-> arrays[l][i]] = Prev
                BY <1>1, <3>2
            <4>2. CASE n = check.next + 1
                <5>1. check.next \in 1..(n - 1) /\ check.answer[check.next] = Prev
                    BY <1>2, <1>13, <4>2
                <5> QED
                    BY <4>1, <5>1
            <4>3. CASE n = check.next
                <5>1. Prev \notin check.due
                    BY <1>2, <2>2, <4>3
                <5> QED
                    BY <4>1, <5>1
            <4> QED
                BY <1>13, <4>2, <4>3
        <3> QED
            BY <1>9, <3>1, <3>2
    <2>3. ASSUME NEW k \in 1..(n - 1)
          PROVE  /\ check.answer[k] \in Known
                 /\ check.answer[k].level \in check.filter
                 /\ check.kind # "list" => Before(check.answer[k].timestamp)
                 /\ \A j \in 1..(k - 1) :
                        check.answer[k].timestamp < check.answer[j].timestamp
        <3>1. CASE k \in 1..(check.next - 1)
            BY <3>1, WalkFacts
        <3>2. CASE k \notin 1..(check.next - 1)
            <4>1. k = check.next /\ check.answer[k] = Prev
                BY <1>2, <1>13, <3>2
            <4>2. check.kind # "list" => Before(Prev.timestamp)
                BY <1>1, WalkFacts
            <4>3. \A j \in 1..(check.next - 1) : Prev.timestamp < check.answer[j].timestamp
                BY <1>1, LeftIsOlder
            <4> QED
                BY <1>1, <4>1, <4>2, <4>3
        <3> QED
            BY <3>1, <3>2
    <2>4. \A t : Before(t)' = Before(t)
        BY <1>7 DEF Before
    <2>5. \A l \in check'.filter : \A i \in 1..check'.index[l] :
               /\ check'.kind # "list" => Before(arrays[l][i])'
               /\ check'.next > 1 =>
                      arrays'[l][i] < check'.answer[check'.next - 1].timestamp
        BY <1>7, <1>12, <2>1 DEF Before
    <2>6. check'.kind = "conditions" =>
              \A l \in check'.filter : \A i \in (check'.index[l] + 1)..Len(arrays'[l]) :
                  Before(arrays[l][i])' =>
                      \/ [level |-> l, timestamp |-> arrays'[l][i]] \notin check'.due
                      \/ \E k \in 1..(check'.next - 1) :
                             check'.answer[k] = [level |-> l, timestamp |-> arrays'[l][i]]
        BY <1>7, <1>12, <2>2 DEF Before
    <2>7. \A k \in 1..(check'.next - 1) :
               /\ check'.answer[k] \in Known'
               /\ check'.answer[k].level \in check'.filter
               /\ check'.kind # "list" => Before(check.answer[k].timestamp)'
               /\ \A j \in 1..(k - 1) :
                      check'.answer[k].timestamp < check'.answer[j].timestamp
        BY <1>7, <1>11, <2>3 DEF Before
    <2>8. check'.next <= Len(check'.answer) + 1
        BY <1>3, <1>7
    <2> QED
        BY <2>5, <2>6, <2>7, <2>8 DEF WalkedInv
<1>15. AheadInv'
    <2> SUFFICES ASSUME honest, NEW k \in n..Len(check.answer)
                 PROVE  \E i \in 1..check'.index[check.answer[k].level] :
                            arrays[check.answer[k].level][i] = check.answer[k].timestamp
        BY <1>7, <1>12 DEF AheadInv
    <2> DEFINE c == check.answer[k]
    <2>1. k \in check.next..Len(check.answer) /\ k \in 1..Len(check.answer)
        BY <1>2, <1>3, <1>13
    <2>2. PICK i \in 1..check.index[c.level] : arrays[c.level][i] = c.timestamp
        BY <2>1 DEF AnswerInv, AheadInv
    <2>3. c # Prev
        <3>1. CASE n = check.next
            BY <1>2, <3>1
        <3>2. CASE n = check.next + 1
            <4>1. check.next < k /\ check.next \in 1..Len(check.answer) /\ Wanted = Prev
                BY <1>2, <1>13, <3>2, <2>1 DEF Wanted
            <4>2. check.answer[k].timestamp < check.answer[check.next].timestamp
                BY <1>2, <2>1, <4>1, AnswerFacts DEF AnswerInv, PageInv, Descending
            <4> QED
                BY <1>1, <4>1, <4>2 DEF Wanted
        <3> QED
            BY <1>13, <3>1, <3>2
    <2>4. /\ c.level \in Level /\ c = [level |-> c.level, timestamp |-> c.timestamp]
        BY <2>1, AnswerFacts
    <2> HIDE DEF c
    <2>5. ~(c.level = p /\ i = check.index[p])
        <3> SUFFICES ASSUME c.level = p, i = check.index[p]
                     PROVE  FALSE
            OBVIOUS
        <3>1. c = Prev
            BY <1>1, <2>2, <2>4
        <3> QED
            BY <2>3, <3>1
    <2>6. i \in 1..check'.index[c.level]
        <3>1. check.index[c.level] \in Nat /\ check.index[p] \in Nat
            BY <1>1, <2>4, CheckFields
        <3> QED
            BY <1>8, <2>4, <2>5, <3>1
    <2> QED
        BY <2>2, <2>6 DEF c
<1> QED
    BY <1>11, <1>14, <1>15 DEF AnswerInv
\* A correct server's answer is newest first, and the rest of it is ahead.
LEMMA HonestFacts ==
    ASSUME AnswerInv, honest, check.state = "walk", check.next <= Len(check.answer)
    PROVE  /\ Wanted.timestamp \in Nat /\ Wanted.level \in check.filter
           /\ Wanted = [level |-> Wanted.level, timestamp |-> Wanted.timestamp]
           /\ ~Misordered
           /\ \A k \in check.next..Len(check.answer) :
                  check.answer[k].timestamp <= Wanted.timestamp
           /\ \E i \in 1..check.index[Wanted.level] :
                  arrays[Wanted.level][i] = Wanted.timestamp
<1>1. check.next \in 1..Len(check.answer) /\ check.next \in Nat /\ HasAnswer
    BY WalkFacts, AnswerFacts
<1>2. /\ Wanted.timestamp \in Nat
      /\ Wanted = [level |-> Wanted.level, timestamp |-> Wanted.timestamp]
    BY <1>1, AnswerFacts DEF Wanted
<1>3. \A i, j \in 1..Len(check.answer) :
          i < j => check.answer[j].timestamp < check.answer[i].timestamp
    BY <1>1, AnswerFacts DEF AnswerInv, PageInv, Descending
<1>4. Wanted.level \in check.filter
    BY <1>1, AnswerFacts DEF AnswerInv, PageInv, Wanted
<1>5. ~Misordered
    <2> SUFFICES ASSUME check.next > 1
                 PROVE  Wanted.timestamp < check.answer[check.next - 1].timestamp
        <3> SUFFICES ASSUME Misordered  PROVE FALSE
            OBVIOUS
        <3>1. check.next - 1 \in 1..Len(check.answer)
            BY <1>1 DEF Misordered
        <3>2. check.answer[check.next - 1].timestamp \in Nat
            BY <3>1, AnswerFacts
        <3> QED
            BY <1>2, <3>2 DEF Misordered
    <2>1. check.next - 1 \in 1..Len(check.answer) /\ check.next - 1 < check.next
        BY <1>1
    <2> QED
        BY <1>1, <1>3, <2>1 DEF Wanted
<1>6. ASSUME NEW k \in check.next..Len(check.answer)
      PROVE  check.answer[k].timestamp <= Wanted.timestamp
    <2>1. k \in 1..Len(check.answer)
        BY <1>1
    <2>2. CASE k = check.next
        BY <1>2, <2>2 DEF Wanted
    <2>3. CASE k # check.next
        <3>1. check.next < k
            BY <1>1, <2>3
        <3>2. check.answer[k].timestamp < Wanted.timestamp
            BY <1>1, <1>3, <2>1, <3>1 DEF Wanted
        <3>3. check.answer[k].timestamp \in Nat
            BY <2>1, AnswerFacts
        <3> QED
            BY <1>2, <3>2, <3>3
    <2> QED
        BY <2>2, <2>3
<1>7. \E i \in 1..check.index[Wanted.level] :
          arrays[Wanted.level][i] = Wanted.timestamp
    BY <1>1 DEF AnswerInv, AheadInv, Wanted
<1> QED
    BY <1>2, <1>4, <1>5, <1>6, <1>7

LEMMA PassKeeps ==
    ASSUME AnswerInv, Pass
    PROVE  AnswerInv'
<1>1. /\ check.state = "walk" /\ check.next <= Len(check.answer)
      /\ Left # {} /\ Skipped /\ check' = Advanced
      /\ UNCHANGED <<posterVars, stored, read, due>>
    BY DEF Pass
<1>2. check' = [Advanced EXCEPT !.next = check.next]
    <2>1. Advanced.next = check.next /\ Advanced = [Advanced EXCEPT !.next = Advanced.next]
        BY CheckFields DEF Advanced, CheckRecord
    <2> QED
        BY <1>1, <2>1
<1>3. read \subseteq Known /\ (honest => read \subseteq stored)
    BY DEF AnswerInv, KnownInv
<1>4. check.kind = "conditions" => Prev \notin check.due
    BY <1>1 DEF Skipped
<1>5. ASSUME honest, NEW k \in check.next..Len(check.answer)
      PROVE  check.answer[k] # Prev
    <2>1. check.answer[k].timestamp <= Wanted.timestamp /\ Wanted.timestamp \in Nat
        BY <1>1, <1>5, HonestFacts
    <2>2. Prev.timestamp > Wanted.timestamp /\ Prev.timestamp \in Nat
        BY <1>1, PrevFacts DEF Skipped
    <2> QED
        BY <2>1, <2>2
<1> QED
    BY <1>1, <1>2, <1>3, <1>4, <1>5, AdvanceKept

LEMMA MatchKeeps ==
    ASSUME AnswerInv, Match
    PROVE  AnswerInv'
<1>1. /\ check.state = "walk" /\ check.next <= Len(check.answer)
      /\ Left # {} /\ Prev = Wanted
      /\ check' = [Advanced EXCEPT !.next = check.next + 1]
      /\ read' = IF check.kind = "conditions" THEN read \cup {Prev} ELSE read
      /\ UNCHANGED <<posterVars, stored, due>>
    <2>1. Advanced.next = check.next
        BY CheckFields DEF Advanced, CheckRecord
    <2> QED
        BY <2>1 DEF Match
<1>2. read \subseteq read' /\ read' \subseteq Known
    BY <1>1, PrevFacts DEF AnswerInv, KnownInv
<1>3. ASSUME honest
      PROVE  read' \subseteq stored
    <2>1. check.next \in 1..Len(check.answer) /\ HasAnswer
        BY <1>1, WalkFacts, AnswerFacts
    <2>2. Wanted \in stored
        BY <1>3, <2>1, AnswerFacts DEF AnswerInv, PageInv, Wanted
    <2> QED
        BY <1>1, <1>3, <2>2 DEF AnswerInv, KnownInv
<1> QED
    BY <1>1, <1>2, <1>3, AdvanceKept

LEMMA RefuseKeeps ==
    ASSUME AnswerInv, Refuse
    PROVE  AnswerInv'
<1>1. /\ check.state = "walk" /\ check.next <= Len(check.answer)
      /\ \/ Misordered
         \/ Left = {}
         \/ Left # {} /\ ~Skipped /\ Prev # Wanted
      /\ check' = Refused
      /\ UNCHANGED <<posterVars, stored, read, due>>
    BY DEF Refuse
<1>2. HasAnswer /\ check.next \in Nat \ {0} /\ check.next \in 1..Len(check.answer)
    BY <1>1, WalkFacts, AnswerFacts
<1>3. ASSUME honest
      PROVE  FALSE
    <2> DEFINE w == Wanted
    <2>1. /\ w.timestamp \in Nat /\ w.level \in check.filter
          /\ w = [level |-> w.level, timestamp |-> w.timestamp]
          /\ ~Misordered
          /\ \A k \in check.next..Len(check.answer) : check.answer[k].timestamp <= w.timestamp
        BY <1>1, <1>3, HonestFacts
    <2>2. PICK i \in 1..check.index[w.level] : arrays[w.level][i] = w.timestamp
        BY <1>1, <1>3, HonestFacts
    <2>3. Wanted = w
        OBVIOUS
    <2> HIDE DEF w
    <2>4. w.level \in Left
        <3>1. check.index[w.level] \in Nat
            BY <2>1, CheckFields
        <3> QED
            BY <2>1, <2>2, <3>1 DEF Left
    <2>5. ~Skipped /\ Prev # w
        BY <1>1, <2>1, <2>3, <2>4
    <2>6. /\ PrevLevel \in check.filter /\ PrevLevel \in Level
          /\ Prev.level = PrevLevel /\ Prev.timestamp \in Nat
          /\ Prev = [level |-> PrevLevel, timestamp |-> Prev.timestamp]
          /\ Prev.timestamp = arrays[PrevLevel][check.index[PrevLevel]]
          /\ check.index[PrevLevel] \in 1..check.index[PrevLevel]
        <3>1. check.index[PrevLevel] \in Nat /\ check.index[PrevLevel] # 0
            BY <2>4, PrevFacts, CheckFields
        <3> QED
            BY <2>4, <3>1, PrevFacts
    <2>7. w.timestamp < Prev.timestamp
        <3>1. \/ w.level = PrevLevel /\ i = check.index[PrevLevel]
              \/ arrays[w.level][i] < Prev.timestamp
            BY <2>1, <2>2, <2>4, PrevFacts
        <3>2. CASE w.level = PrevLevel /\ i = check.index[PrevLevel]
            BY <2>1, <2>2, <2>5, <2>6, <3>2
        <3> QED
            BY <2>2, <3>1, <3>2
    <2>8. check.kind # "list" => Before(Prev.timestamp)
        BY <1>1, <2>6, WalkFacts
    <2>9. CASE check.kind = "trend"
        <3>1. Len(check.answer) <= 1 /\ check.answer # <<>>
            BY <1>2, <2>9, WalkFacts DEF AnswerInv, RequestInv, NothingToCheck
        <3>2. check.next = 1
            BY <1>2, <3>1, AnswerFacts
        <3>3. check.end = w.timestamp
            BY <1>2, <2>3, <2>9, <3>1, <3>2 DEF AnswerInv, RequestInv, Wanted
        <3> QED
            BY <2>1, <2>6, <2>7, <2>8, <2>9, <3>3 DEF Before
    <2>10. CASE check.kind = "conditions"
        <3>1. check.start <= w.timestamp /\ check.start \in Nat /\ check.end \in Nat
            BY <1>2, <1>3, <2>3, AnswerFacts, CheckFields DEF AnswerInv, PageInv, Wanted
        <3>2. Prev \in check.due
            BY <2>1, <2>3, <2>5, <2>6, <2>7, <2>10, <3>1 DEF Skipped
        <3>3. Prev.level \in check.filter /\ check.start <= Prev.timestamp
              /\ Prev.timestamp < check.end
            BY <2>1, <2>6, <2>7, <2>8, <2>10, <3>1 DEF Before
        <3>4. \/ \E k \in DOMAIN check.answer : check.answer[k] = Prev
              \/ \A k \in DOMAIN check.answer : Prev.timestamp < check.answer[k].timestamp
            BY <1>2, <1>3, <2>10, <3>2, <3>3 DEF AnswerInv, PageInv
        <3>5. ASSUME NEW k \in 1..Len(check.answer), check.answer[k] = Prev
              PROVE  FALSE
            <4>1. CASE k < check.next
                <5>1. k \in 1..(check.next - 1)
                    BY <1>2, <4>1
                <5>2. arrays[PrevLevel][check.index[PrevLevel]] < check.answer[k].timestamp
                    BY <1>1, <2>6, <5>1, LeftIsOlder
                <5> QED
                    BY <2>6, <3>5, <5>2
            <4>2. CASE ~(k < check.next)
                <5>1. k \in check.next..Len(check.answer)
                    BY <1>2, <4>2
                <5> QED
                    BY <2>1, <2>6, <2>7, <3>5, <5>1
            <4> QED
                BY <4>1, <4>2
        <3>6. check.next \in DOMAIN check.answer /\ check.answer[check.next] = w
            BY <1>2, <2>3, AnswerFacts DEF Wanted
        <3>7. ~(Prev.timestamp < w.timestamp)
            BY <2>1, <2>6, <2>7
        <3> QED
            BY <3>4, <3>5, <3>6, <3>7, AnswerFacts
    <2>11. CASE check.kind = "list"
        BY <2>1, <2>3, <2>5, <2>6, <2>7, <2>11 DEF Skipped
    <2> QED
        BY <2>9, <2>10, <2>11, CheckFields DEF RequestKind
<1>4. /\ CheckTypeInv' /\ PosterInv' /\ SlotInv' /\ ArraysAscend' /\ KnownInv'
      /\ RequestInv' /\ PageInv' /\ SearchInv' /\ WalkedInv' /\ AheadInv'
      /\ HonestIsAccepted'
    BY <1>1, <1>2, <1>3, EndKept
<1>5. check'.state = "refused"
    BY <1>1, CheckFields DEF Refused, CheckRecord
<1>6. AcceptedWasPosted' /\ ReadIsNotMissing'
    BY <1>5 DEF AcceptedWasPosted, ReadIsNotMissing
<1> QED
    BY <1>4, <1>6 DEF AnswerInv

LEMMA PassEmptyKeeps ==
    ASSUME AnswerInv, PassEmpty
    PROVE  AnswerInv'
<1>1. /\ check.state = "walk" /\ check.answer = <<>> /\ Left # {}
      /\ Prev.timestamp >= check.start
      /\ check' = (IF Prev \in check.due THEN Refused ELSE Advanced)
      /\ UNCHANGED <<posterVars, stored, read, due>>
    BY DEF PassEmpty
<1>2. HasAnswer /\ check.next \in Nat \ {0} /\ check.kind = "conditions"
      /\ Len(check.answer) = 0
    BY <1>1, WalkFacts DEF NothingToCheck
<1>3. CASE Prev \notin check.due
    <2>1. check' = [Advanced EXCEPT !.next = check.next]
        <3>1. Advanced.next = check.next /\ Advanced = [Advanced EXCEPT !.next = Advanced.next]
            BY CheckFields DEF Advanced, CheckRecord
        <3> QED
            BY <1>1, <1>3, <3>1
    <2>2. read \subseteq Known /\ (honest => read \subseteq stored)
        BY DEF AnswerInv, KnownInv
    <2>3. check.next..Len(check.answer) = {}
        BY <1>2
    <2> QED
        BY <1>1, <1>3, <2>1, <2>2, <2>3, AdvanceKept
<1>4. CASE Prev \in check.due
    <2>1. ~honest
        <3>1. /\ Prev.level \in check.filter /\ Prev.timestamp \in Nat
              /\ Prev.timestamp = arrays[PrevLevel][check.index[PrevLevel]]
              /\ PrevLevel \in check.filter
              /\ check.index[PrevLevel] \in 1..check.index[PrevLevel]
            <4>1. check.index[PrevLevel] \in Nat /\ check.index[PrevLevel] \in 1..Len(arrays[PrevLevel])
                BY <1>1, PrevFacts, CheckFields
            <4> QED
                BY <1>1, <4>1, PrevFacts
        <3>2. Before(Prev.timestamp)
            BY <1>1, <1>2, <3>1, WalkFacts
        <3>3. check.start <= Prev.timestamp /\ Prev.timestamp < check.end
            BY <1>1, <1>2, <3>1, <3>2, CheckFields DEF Before
        <3>4. Limit # 0 /\ DOMAIN check.answer = {}
            BY <1>1, <1>2, CheckAssumption DEF Limit
        <3> QED
            BY <1>2, <1>4, <3>1, <3>3, <3>4 DEF AnswerInv, PageInv
    <2>2. check' = Refused
        BY <1>1, <1>4
    <2>3. /\ CheckTypeInv' /\ PosterInv' /\ SlotInv' /\ ArraysAscend' /\ KnownInv'
          /\ RequestInv' /\ PageInv' /\ SearchInv' /\ WalkedInv' /\ AheadInv'
          /\ HonestIsAccepted'
        BY <1>1, <1>2, <2>1, <2>2, EndKept
    <2>4. check'.state = "refused"
        BY <2>2, CheckFields DEF Refused, CheckRecord
    <2>5. AcceptedWasPosted' /\ ReadIsNotMissing'
        BY <2>4 DEF AcceptedWasPosted, ReadIsNotMissing
    <2> QED
        BY <2>3, <2>5 DEF AnswerInv
<1> QED
    BY <1>3, <1>4
LEMMA AcceptKeeps ==
    ASSUME AnswerInv, Accept
    PROVE  AnswerInv'
<1> DEFINE n == Len(check.answer)
<1>1. /\ check.state = "walk" /\ check.next > n
      /\ check.answer = <<>> /\ Left # {} => Prev.timestamp < check.start
      /\ check' = Accepted
      /\ UNCHANGED <<posterVars, stored, read, due>>
    BY DEF Accept
<1>2. n \in Nat /\ check.next = n + 1 /\ HasAnswer /\ ~Malformed
      /\ check.next - 1 = n
    <2>1. n \in Nat /\ check.next \in Nat /\ check.next <= n + 1
        BY <1>1, WalkFacts, AnswerFacts
    <2> HIDE DEF n
    <2>2. check.next = n + 1 /\ check.next - 1 = n
        BY <1>1, <2>1
    <2> QED
        BY <1>1, <2>1, <2>2, WalkFacts
<1>3. /\ CheckTypeInv' /\ PosterInv' /\ SlotInv' /\ ArraysAscend' /\ KnownInv'
      /\ RequestInv' /\ PageInv' /\ SearchInv' /\ WalkedInv' /\ AheadInv'
      /\ HonestIsAccepted' /\ Known' = Known
    BY <1>1, <1>2, EndKept
<1>4. /\ UNCHANGED <<check.kind, check.filter, check.start, check.end, check.due,
                     check.answer>>
    BY <1>1, CheckFields DEF Accepted, CheckRecord
<1>5. check.start \in Nat /\ check.end \in Nat
    BY CheckFields
<1>6. \A j, k \in 1..n : j < k => check.answer[k].timestamp < check.answer[j].timestamp
    <2> SUFFICES ASSUME NEW j \in 1..n, NEW k \in 1..n, j < k
                 PROVE  check.answer[k].timestamp < check.answer[j].timestamp
        OBVIOUS
    <2>1. k \in 1..(check.next - 1) /\ j \in 1..(k - 1)
        BY <1>2
    <2> QED
        BY <1>1, <2>1, WalkFacts
<1>7. AcceptedWasPosted'
    <2>1. Descending(check.answer)
        BY <1>6, AnswerFacts DEF Descending
    <2>2. ASSUME NEW k \in 1..n
          PROVE  /\ check.answer[k] \in Known
                 /\ check.answer[k].level \in check.filter
                 /\ check.kind = "conditions" =>
                        check.answer[k].timestamp \in check.start..(check.end - 1)
        <3>1. check.answer[k].timestamp \in Nat /\ check.answer[n].timestamp \in Nat
              /\ check.answer # <<>> /\ n \in 1..n
            <4>1. n \in 1..n /\ check.answer # <<>>
                BY <1>2
            <4> QED
                BY <4>1, AnswerFacts
        <3>2. /\ check.answer[k] \in Known
              /\ check.answer[k].level \in check.filter
              /\ check.kind # "list" => Before(check.answer[k].timestamp)
            BY <1>1, <1>2, WalkFacts
        <3>3. CASE check.kind = "conditions"
            <4>1. check.answer[k].timestamp < check.end
                BY <3>2, <3>3 DEF Before
            <4>2. check.start <= check.answer[n].timestamp
                BY <1>2, <1>5, <3>1, <3>3 DEF Malformed
            <4>3. check.answer[n].timestamp <= check.answer[k].timestamp
                <5>1. CASE k = n
                    BY <3>1, <5>1
                <5>2. CASE k # n
                    <6>1. k < n
                        BY <1>2, <5>2
                    <6>2. check.answer[n].timestamp < check.answer[k].timestamp
                        BY <1>6, <3>1, <6>1
                    <6> QED
                        BY <3>1, <6>2
                <5> QED
                    BY <5>1, <5>2
            <4> QED
                BY <1>5, <3>1, <3>2, <4>1, <4>2, <4>3
        <3> QED
            BY <3>2, <3>3
    <2> QED
        BY <1>3, <1>4, <2>1, <2>2, AnswerFacts DEF AcceptedWasPosted, Descending
<1>8. ReadIsNotMissing'
    <2> SUFFICES ASSUME check.kind = "conditions", NEW c \in check.due,
                        c.level \in check.filter,
                        c.timestamp \in check.start..(check.end - 1),
                        check.answer # <<>> => c.timestamp > check.answer[n].timestamp
                 PROVE  \E k \in 1..n : check.answer[k] = c
        BY <1>4, AnswerFacts DEF ReadIsNotMissing
    <2>1. c \in Known /\ c.timestamp \in Nat /\ c.level \in Level
          /\ c = [level |-> c.level, timestamp |-> c.timestamp]
        <3>1. c \in Known
            BY CheckFields DEF AnswerInv, KnownInv
        <3> QED
            BY <3>1 DEF Known, Condition
    <2>2. PICK i \in DOMAIN arrays[c.level] : arrays[c.level][i] = c.timestamp
        BY <2>1 DEF Known
    <2>3. Before(c.timestamp)
        BY <1>5, <2>1 DEF Before
    <2>4. CASE i \in (check.index[c.level] + 1)..Len(arrays[c.level])
        <3>1. \/ c \notin check.due
              \/ \E k \in 1..(check.next - 1) : check.answer[k] = c
            BY <1>1, <2>1, <2>2, <2>3, <2>4 DEF AnswerInv, WalkedInv
        <3> QED
            BY <1>2, <3>1
    <2>5. CASE i \notin (check.index[c.level] + 1)..Len(arrays[c.level])
        <3>1. i \in 1..check.index[c.level] /\ check.index[c.level] # 0
            BY <2>1, <2>2, <2>5, ArrayFacts
        <3>2. CASE check.answer # <<>>
            <4>1. n \in 1..(check.next - 1)
                BY <1>2, <3>2, AnswerFacts
            <4>2. c.timestamp < check.answer[n].timestamp
                BY <1>1, <2>2, <3>1, <4>1, LeftIsOlder
            <4>3. check.answer[n].timestamp \in Nat
                BY <1>2, <4>1, AnswerFacts
            <4> QED
                BY <2>1, <3>2, <4>2, <4>3
        <3>3. CASE check.answer = <<>>
            <4>1. Left # {}
                BY <3>1 DEF Left
            <4>2. Prev.timestamp < check.start /\ Prev.timestamp \in Nat
                BY <1>1, <3>3, <4>1, PrevFacts
            <4>3. c.timestamp <= Prev.timestamp
                <5>1. \/ c.level = PrevLevel /\ i = check.index[PrevLevel]
                      \/ arrays[c.level][i] < Prev.timestamp
                    BY <3>1, <4>1, PrevFacts
                <5>2. CASE c.level = PrevLevel /\ i = check.index[PrevLevel]
                    <6>1. c.timestamp = Prev.timestamp
                        BY <2>2, <4>1, <5>2, PrevFacts
                    <6> QED
                        BY <4>2, <6>1
                <5>3. CASE arrays[c.level][i] < Prev.timestamp
                    BY <2>1, <2>2, <4>2, <5>3
                <5> QED
                    BY <5>1, <5>2, <5>3
            <4> QED
                BY <1>5, <2>1, <4>2, <4>3
        <3> QED
            BY <3>2, <3>3
    <2> QED
        BY <2>4, <2>5
<1> QED
    BY <1>3, <1>7, <1>8 DEF AnswerInv

----------------------------------------------------------------------------
(* The theorems. *)

LEMMA AnswerStep ==
    ASSUME AnswerInv, [CheckNext]_checkVars
    PROVE  AnswerInv'
<1>1. CASE \E count \in Slot : DrawBatch(count)
    BY <1>1, DrawBatchKeeps
<1>2. CASE PosterStep
    BY <1>2, CallLockKeeps, LockKeeps, AddKeeps, PostKeeps DEF PosterStep
<1>3. CASE \E batch \in inFlight : Store(batch)
    BY <1>3, StoreKeeps
<1>4. CASE DelayPasses
    BY <1>4, DelayPassesKeeps
<1>5. CASE \E kind \in RequestKind, filter \in Filters, range \in Ranges :
               Ask(kind, filter, range[1], range[2])
    BY <1>5, AskKeeps
<1>6. CASE \E s \in UpTo(stored \cup Claims, ConditionLimit + 1) : Answer(s)
    BY <1>6, AnswerKeeps
<1>7. CASE CheckStep
    BY <1>7, CheckFormKeeps, ReadLockKeeps, SearchLevelKeeps, GallopKeeps, BisectKeeps,
       SearchedKeeps, PassKeeps, MatchKeeps, RefuseKeeps, PassEmptyKeeps, AcceptKeeps,
       DoneKeeps
    DEF CheckStep
<1>8. CASE UNCHANGED checkVars
    <2>1. /\ UNCHANGED <<honest, draw, lastSlot, arrays, poster, inFlight, stored, read,
                         due, check>>
        BY <1>8 DEF checkVars
    <2>2. /\ RequestInv' /\ PageInv' /\ SearchInv' /\ WalkedInv' /\ AheadInv'
          /\ ArraysAscend'
          /\ HonestIsAccepted' /\ AcceptedWasPosted' /\ ReadIsNotMissing'
          /\ Known' = Known
        BY <2>1, CheckSideKept
    <2>3. CheckTypeInv'
        BY <2>1 DEF AnswerInv, CheckTypeInv, CheckRecord
    <2>4. PosterInv' /\ SlotInv'
        BY <2>1 DEF AnswerInv, PosterInv, SlotInv, Reading, Frontier, ConditionOf
    <2>5. KnownInv'
        BY <2>1, <2>2 DEF AnswerInv, KnownInv, ConditionOf
    <2> QED
        BY <2>2, <2>3, <2>4, <2>5 DEF AnswerInv
<1> QED
    BY <1>1, <1>2, <1>3, <1>4, <1>5, <1>6, <1>7, <1>8 DEF CheckNext

LEMMA AnswerInvHolds == CheckSpec => []AnswerInv
<1>1. CheckInit => AnswerInv
    BY AnswerInit
<1>2. AnswerInv /\ [CheckNext]_checkVars => AnswerInv'
    BY AnswerStep
<1> QED
    BY <1>1, <1>2, PTL DEF CheckSpec
\* What the poster draws is drawn once.
Drawn == draw \in Draws

LEMMA DrawnHolds == CheckSpec => []Drawn
<1>1. CheckInit => Drawn
    BY DEF CheckInit, Drawn
<1>2. ASSUME Drawn, [CheckNext]_checkVars
      PROVE  Drawn'
    <2>1. CASE PosterStep
        BY <1>2, <2>1 DEF Drawn, PosterStep, CallLock, Lock, Add, Post
    <2>2. CASE CheckStep
        BY <1>2, <2>2 DEF Drawn, CheckStep, CheckForm, ReadLock, SearchLevel, Gallop, Bisect,
                          Searched, Pass, Match, Refuse, PassEmpty, Accept, Done, posterVars
    <2>3. CASE UNCHANGED checkVars
        BY <1>2, <2>3 DEF Drawn, checkVars
    <2>4. CASE ~PosterStep /\ ~CheckStep /\ CheckNext
        BY <1>2, <2>4 DEF Drawn, CheckNext, DrawBatch, Store, DelayPasses, Ask, Answer, posterVars
    <2> QED
        BY <1>2, <2>1, <2>2, <2>3, <2>4
<1> QED
    BY <1>1, <1>2, PTL DEF CheckSpec

\* Every index the search and the walk use stays within its array, and what
\* is due was read.
THEOREM CheckTypeOKHolds == CheckSpec => []CheckTypeOK
<1>1. ASSUME AnswerInv, Drawn
      PROVE  CheckTypeOK
    <2>1. /\ honest \in BOOLEAN /\ lastSlot \in 0..MaxSlot
          /\ DOMAIN arrays = Level
          /\ poster.state \in {"idle", "drawn", "lock", "add", "post"}
          /\ inFlight \subseteq SUBSET Condition
          /\ stored \subseteq Condition
          /\ read \subseteq Condition /\ due \subseteq read
        BY <1>1 DEF AnswerInv, CheckTypeInv
    <2>2. \A l \in Level : Len(arrays[l]) <= MaxSlot /\ check.index[l] \in 0..Len(arrays[l])
        BY <1>1, ArrayFacts
    <2>3. check.kind \in RequestKind /\ check.filter \subseteq Level
        BY <1>1, CheckFields
    <2>4. CASE check.state \in {"gallop", "bisect"}
        <3>1. check.ng \in Nat /\ check.ok \in Nat /\ check.level \in Level
              /\ check.ng < check.ok /\ check.ok <= Len(arrays[check.level])
            BY <1>1, <2>4, ProbeFacts
        <3>2. Len(arrays[check.level]) \in Nat
            BY <1>1, <3>1, ArrayFacts
        <3>3. check.ok \in 1..Len(arrays[check.level]) /\ check.ng \in 0..(check.ok - 1)
            BY <3>1, <3>2
        <3> QED
            BY <1>1, <2>1, <2>2, <2>3, <3>3 DEF CheckTypeOK, Drawn
    <2> QED
        BY <1>1, <2>1, <2>2, <2>3, <2>4 DEF CheckTypeOK, Drawn
<1> QED
    BY <1>1, AnswerInvHolds, DrawnHolds, PTL

\* The arrays the benchmarker searches are sorted, and no two conditions of an
\* isu share a timestamp, whatever the timer skips and however they are blurred.
THEOREM ArraysAscendHolds == CheckSpec => []ArraysAscend
<1>1. AnswerInv => ArraysAscend
    BY DEF AnswerInv
<1> QED
    BY <1>1, AnswerInvHolds, PTL

\* The search by doubling steps and by halving ends at the bound, for every
\* length of the array and every first step.
THEOREM BoundIsExactHolds == CheckSpec => []BoundIsExact
<1>1. AnswerInv => BoundIsExact
    BY DEF AnswerInv, BoundIsExact, SearchInv, Searching
<1> QED
    BY <1>1, AnswerInvHolds, PTL

\* The benchmarker never refuses what a correct server answers.
THEOREM HonestIsAcceptedHolds == CheckSpec => []HonestIsAccepted
<1>1. AnswerInv => HonestIsAccepted
    BY DEF AnswerInv
<1> QED
    BY <1>1, AnswerInvHolds, PTL

\* The benchmarker accepts nothing that it has not posted, nor in a wrong order.
THEOREM AcceptedWasPostedHolds == CheckSpec => []AcceptedWasPosted
<1>1. AnswerInv => AcceptedWasPosted
    BY DEF AnswerInv
<1> QED
    BY <1>1, AnswerInvHolds, PTL

\* The benchmarker accepts no page that leaves out what was read a second ago.
THEOREM ReadIsNotMissingHolds == CheckSpec => []ReadIsNotMissing
<1>1. AnswerInv => ReadIsNotMissing
    BY DEF AnswerInv
<1> QED
    BY <1>1, AnswerInvHolds, PTL

==============================================================================
