------------------------------ MODULE IsuViews ------------------------------
(***************************************************************************)
(* What webapp/nodejs/src/app.ts computes from the rows of isu_condition   *)
(* for each of its four views (the list of isu, the list of conditions,    *)
(* the graph, the trend) and what the browser makes of the graph and the   *)
(* trend (components/IsuGraph/use/graph.ts, components/Home/Trend*.tsx),   *)
(* while rows join the table in any order of their timestamps.             *)
(*                                                                         *)
(* Each GET is an operator on the rows of one moment; module               *)
(* ConditionIngest has the moments and the transactions.  Times are slots  *)
(* of an hour; a day has HoursPerDay hours.  Isu are their id.             *)
(***************************************************************************)
EXTENDS ConditionFormat, FiniteSetsExt, SequencesExt

CONSTANTS
    Character,     \* the characters the JIA gives
    MaxIsu,        \* bound on the isu registered
    HoursPerDay,   \* hours of a graph (24)
    SlotsPerHour,  \* timestamps in an hour (3600)
    LastHour,      \* bound: conditions are of the hours 0..LastHour
    Reading,       \* [sitting, condition] an isu, or somebody else, may post
    MaxRows,       \* bound on the rows stored
    ConditionLimit \* conditionLimit (20)

ASSUME ViewsAssumption ==
    /\ MaxIsu \in Nat /\ LastHour \in Nat /\ MaxRows \in Nat
    /\ HoursPerDay \in Nat \ {0} /\ SlotsPerHour \in Nat \ {0}
    /\ ConditionLimit \in Nat \ {0}

\* A posted condition is a string, cut into tokens.
ASSUME ReadingAssumption == \A reading \in Reading : reading.condition \in Seq(STRING)

VARIABLES
    isu,   \* the characters of the registered isu, by id
    rows   \* isu_condition: [isu, time, sitting, condition]

vars == <<isu, rows>>

Time == 0..(SlotsPerHour * (LastHour + 1) - 1)
Hour(time) == time \div SlotsPerHour
Levels == {"info", "warning", "critical"}

RowsOf(i) == {row \in rows : row.isu = i}
\* ORDER BY `timestamp` ASC and DESC: either of two of one time may be first.
Ascending(S) ==
    CHOOSE s \in SetToSeqs(S) : \A j, k \in DOMAIN s : j < k => s[j].time <= s[k].time
Descending(S) ==
    CHOOSE s \in SetToSeqs(S) : \A j, k \in DOMAIN s : j < k => s[j].time >= s[k].time

----------------------------------------------------------------------------
Init == isu = <<>> /\ rows = {}

Register(character) ==
    /\ Len(isu) < MaxIsu
    /\ isu' = Append(isu, character)
    /\ UNCHANGED rows

\* POST /api/condition/:jia_isu_uuid with one condition, at a time the isu
\* has none of (docs/isucondition.md:93: a time comes once),
StoreCondition(i, reading) ==
    /\ i \in DOMAIN isu
    /\ Cardinality(rows) < MaxRows
    /\ IsValidConditionFormat(reading.condition)
    /\ \E time \in Time \ {row.time : row \in RowsOf(i)} :
          rows' = rows \cup {[isu |-> i, time |-> time, sitting |-> reading.sitting,
                              condition |-> reading.condition]}
    /\ UNCHANGED isu

\* ... or of the wrong format: 400, nothing stored.
RefuseCondition(i, reading) ==
    /\ i \in DOMAIN isu
    /\ ~IsValidConditionFormat(reading.condition)
    /\ UNCHANGED vars

Next ==
    \/ \E character \in Character : Register(character)
    \/ \E i \in 1..MaxIsu, reading \in Reading :
          StoreCondition(i, reading) \/ RefuseCondition(i, reading)

Spec == Init /\ [][Next]_vars

----------------------------------------------------------------------------
(* GET /api/isu *)

\* Mutant: ORDER BY `timestamp` LIMIT 1
FirstCondition(i) == Ascending(RowsOf(i))[1]

\* ORDER BY `timestamp` DESC LIMIT 1
LastCondition(i) == Descending(RowsOf(i))[1]

\* ORDER BY `id` DESC; an isu without conditions has no latest one.
IsuList ==
    LET Entry(i) ==
          [id |-> i, character |-> isu[i],
           latest |-> IF RowsOf(i) = {} THEN <<>>
                      ELSE <<LastCondition(i).time,
                             CalculateConditionLevel(LastCondition(i).condition)>>]
    IN  [k \in DOMAIN isu |-> Entry(Len(isu) + 1 - k)]

----------------------------------------------------------------------------
(* GET /api/condition/:jia_isu_uuid *)

\* A condition whose level cannot be told is left out.
IsuConditions(i, end, levels, start) ==
    LET conditions == Descending({row \in RowsOf(i) : start <= row.time /\ row.time < end})
        asked[k \in 0..Len(conditions)] ==
            IF k = 0 THEN <<>>
            ELSE IF CalculateConditionLevel(conditions[k].condition) \in levels
                 THEN Append(asked[k - 1], conditions[k]) ELSE asked[k - 1]
        response == asked[Len(conditions)]
    IN  IF Len(response) > ConditionLimit THEN SubSeq(response, 1, ConditionLimit)
        ELSE response

----------------------------------------------------------------------------
(* GET /api/isu/:jia_isu_uuid/graph: generateIsuGraphResponse *)

\* dataPoints.push, if the hour has any condition.
PushHour(acc) ==
    IF acc.conditions = <<>> THEN acc.points
    ELSE Append(acc.points,
            [start |-> acc.hour,
             data |-> CalculateGraphDataPoint(acc.conditions),
             timestamps |-> [k \in DOMAIN acc.conditions |-> acc.conditions[k].time]])

\* The loop over the rows: a row of another hour closes the one before.
AddRow(acc, row) ==
    IF Hour(row.time) = acc.hour
    THEN [acc EXCEPT !.conditions = Append(@, row)]
    ELSE [points |-> PushHour(acc), hour |-> Hour(row.time), conditions |-> <<row>>]

ReadRows(i) ==
    LET conditions == Ascending(RowsOf(i))
        read[k \in 0..Len(conditions)] ==
            IF k = 0 THEN [points |-> <<>>, hour |-> 0, conditions |-> <<>>]
            ELSE AddRow(read[k - 1], conditions[k])
    IN  read[Len(conditions)]

\* Mutant: the last hour is not pushed after the loop.
DataPointsUnfinished(i) == ReadRows(i).points

DataPoints(i) == PushHour(ReadRows(i))

\* The first point from an hour on; dataPoints.length if there is none.
IndexFrom(points, hour) ==
    CHOOSE k \in 1..(Len(points) + 1) :
        /\ \A j \in 1..(k - 1) : points[j].start < hour
        /\ k \in DOMAIN points => points[k].start >= hour

\* slice(startIndex, endNextIndex); a point at the end of the day is in.
Filtered(points, date) ==
    SubSeq(points, IndexFrom(points, date), IndexFrom(points, date + HoursPerDay + 1) - 1)

\* The loop over the hours takes the next point when the hour is its own.
AddHour(acc, hour, points) ==
    IF acc.index <= Len(points) /\ points[acc.index].start = hour
    THEN [index |-> acc.index + 1,
          response |-> Append(acc.response,
             [start |-> hour, data |-> <<points[acc.index].data>>,
              timestamps |-> points[acc.index].timestamps])]
    ELSE [acc EXCEPT !.response =
            Append(@, [start |-> hour, data |-> <<>>, timestamps |-> <<>>])]

IsuGraph(i, date) ==
    LET points == Filtered(DataPoints(i), date)
        walk[k \in 0..HoursPerDay] ==
            IF k = 0 THEN [index |-> 1, response |-> <<>>]
            ELSE AddHour(walk[k - 1], date + k - 1, points)
    IN  walk[HoursPerDay].response

----------------------------------------------------------------------------
(* GET /api/trend *)

\* The latest condition of each isu of the character, newest first, by level.
Trend(character) ==
    LET shown == {i \in DOMAIN isu : isu[i] = character /\ RowsOf(i) # {}}
        Entries(level) ==
            {[isu_id |-> i, time |-> LastCondition(i).time] :
                i \in {j \in shown :
                         CalculateConditionLevel(LastCondition(j).condition) = level}}
    IN  [level \in Levels |-> Descending(Entries(level))]

\* The trend answers 500 when the level of a latest condition cannot be told.
TrendFails ==
    \E i \in DOMAIN isu :
        RowsOf(i) # {} /\ CalculateConditionLevel(LastCondition(i).condition) = "error"

----------------------------------------------------------------------------
(* The browser's side. *)

\* genGraphData: an hour without data shows as score 0.
TransitionData(graphs) ==
    [k \in DOMAIN graphs |-> IF graphs[k].data = <<>> THEN 0 ELSE graphs[k].data[1].score]

CalcAllConditionLength(trend) ==
    Len(trend["info"]) + Len(trend["warning"]) + Len(trend["critical"])

MaxConditionCount ==
    Max({0} \cup {CalcAllConditionLength(Trend(isu[i])) : i \in DOMAIN isu})

\* getLatestStringTime: "Last Updated" of a character.
NoData == -1
GetLatestTime(trend) ==
    LET all == trend["info"] \o trend["warning"] \o trend["critical"]
        latest[k \in 0..Len(all)] ==
            IF k = 0 THEN NoData
            ELSE IF latest[k - 1] < all[k].time THEN all[k].time ELSE latest[k - 1]
    IN  latest[Len(all)]

----------------------------------------------------------------------------
(* Properties. *)

\* model/graph.go: the values the benchmarker computes for a set of rows.
BenchGraph(S) ==
    LET WarnOf(row) == BadConditions(row.condition)
        Warned(counts) == Cardinality({row \in S : Cardinality(WarnOf(row)) \in counts})
        rawScore == 3 * Warned({0}) + 2 * Warned({1, 2}) + Warned({3})
        Of(T) == (Cardinality(T) * 100) \div Cardinality(S)
    IN  [score |-> ((rawScore * 100) \div 3) \div Cardinality(S),
         sitting |-> Of({row \in S : row.sitting}),
         bad |-> [name \in {Key[k] : k \in DOMAIN Key} |->
                    Of({row \in S : name \in WarnOf(row)})]]

\* No view meets a stored condition it cannot read: the validator of the POST
\* (app.ts:1182) lets through only strings whose "=true" the level counts
\* (app.ts:986) as many times as the graph's split finds bad conditions
\* (app.ts:799), so that no latest condition makes the trend answer 500.
StoredIsReadable ==
    /\ ~TrendFails
    /\ \A row \in rows :
          CalculateConditionLevel(row.condition)
              = CASE ScoreConditionLevel(row.condition) = 3 -> "info"
                  [] ScoreConditionLevel(row.condition) = 2 -> "warning"
                  [] ScoreConditionLevel(row.condition) = 1 -> "critical"

\* The graph built by one pass over the sorted rows (app.ts:688) has an entry
\* for each hour of the day with exactly the rows of that hour and the values
\* the benchmarker's own model computes from them, whatever hours are empty
\* and wherever the day begins; the browser's 0 stands for no data only.
GraphIsExact ==
    \A i \in DOMAIN isu, date \in 0..LastHour :
        LET graph == IsuGraph(i, date)
            InHour(k) == {row \in RowsOf(i) : Hour(row.time) = date + k - 1}
            Shows(timestamps, times) ==
                /\ timestamps \in Seq(Time)
                /\ \A j, l \in DOMAIN timestamps : j < l => timestamps[j] < timestamps[l]
                /\ {timestamps[j] : j \in DOMAIN timestamps} = times
        IN  /\ Len(graph) = HoursPerDay
            /\ \A k \in 1..HoursPerDay :
                  /\ graph[k].start = date + k - 1
                  /\ Shows(graph[k].timestamps, {row.time : row \in InHour(k)})
                  /\ graph[k].data = IF InHour(k) = {} THEN <<>> ELSE <<BenchGraph(InHour(k))>>
                  /\ (TransitionData(graph)[k] = 0) <=> (InHour(k) = {})

\* The views tell one story of an isu, each from a query of its own: the
\* latest condition of the list of isu (app.ts:366) is the first of its
\* conditions (app.ts:934), the last of its graph, and the one the trend
\* (app.ts:1019) puts it under, in one level only; a character's "Last
\* Updated" is the time of the newest condition of any of its isu.
ViewsAgree ==
    /\ \A k \in DOMAIN IsuList :
        LET entry == IsuList[k]
            i == entry.id
            times == {row.time : row \in RowsOf(i)}
            all == IsuConditions(i, Max(Time) + 1, Levels, 0)
            trend == Trend(isu[i])
            InTrend == {level \in Levels :
                          \E n \in DOMAIN trend[level] : trend[level][n].isu_id = i}
        IN  IF times = {} THEN entry.latest = <<>> /\ all = <<>> /\ InTrend = {}
            ELSE /\ entry.latest[1] = Max(times)
                 /\ all[1].time = Max(times)
                 /\ Last(IsuGraph(i, Hour(Max(times)))[1].timestamps) = Max(times)
                 /\ InTrend = {entry.latest[2]}
                 /\ IsuConditions(i, Max(Time) + 1, InTrend, 0)[1] = all[1]
    /\ \A character \in {isu[i] : i \in DOMAIN isu} :
        LET times == {row.time : row \in {r \in rows : isu[r.isu] = character}}
        IN  /\ GetLatestTime(Trend(character)) = Max({NoData} \cup times)
            /\ CalcAllConditionLength(Trend(character)) <= MaxConditionCount

============================================================================
