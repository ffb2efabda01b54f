----------------------------- MODULE AnswerCheck -----------------------------
(***************************************************************************)
(* How the benchmarker keeps the conditions of one isu and checks what the *)
(* server answers about them: keepPosting of bench/scenario/posting.go     *)
(* adds every batch to the arrays of bench/model/isuCondition.go, one per  *)
(* level, and then posts it; verify.go finds a bound in each array, by     *)
(* steps that double from the end and by halving, and walks back from it   *)
(* through the three arrays at once, looking for what was answered.        *)
(*                                                                         *)
(* An isu has one poster (jiaapi.go: isuIsActivated) and its owner one     *)
(* goroutine; checks of others only read, so one check at a time is        *)
(* modelled.  A condition is its level and its timestamp, counted from the *)
(* start of the poster; the rest of it is compared like the level.         *)
(***************************************************************************)
EXTENDS Integers, FiniteSets, Sequences

CONSTANTS
    PostIntervalSecond,      \* 60
    PostIntervalBlurSecond,  \* 5
    PostContentNum,          \* the most conditions in one POST (10)
    ConditionLimit,          \* conditions on a page (20)
    SearchRange,             \* the first step of the search (64)
    MaxSlot,                 \* bound on the conditions drawn
    Draws,                   \* what the random numbers may give
    Filters,                 \* the sets of levels asked for
    Ranges,                  \* the pairs of start and end asked for
    Claims                   \* the conditions a wrong server makes up

Level == {"info", "warning", "critical"}
Slot == 1..MaxSlot
Draw == [level : Level,
         blur : (-PostIntervalBlurSecond)..PostIntervalBlurSecond]
Condition == [level : Level, timestamp : Nat]

\* posting.go panics at start unless the third conjunct holds.
ASSUME CheckAssumption ==
    /\ PostIntervalSecond \in Nat /\ PostIntervalBlurSecond \in Nat
    /\ 2 * PostIntervalBlurSecond < PostIntervalSecond
    /\ PostContentNum \in Nat \ {0}
    /\ ConditionLimit \in Nat \ {0}
    /\ SearchRange \in Nat \ {0}
    /\ MaxSlot \in Nat
    /\ Draws \subseteq [Slot -> Draw]
    /\ Filters \subseteq SUBSET Level
    /\ Ranges \subseteq Nat \X Nat
    /\ Claims \subseteq Condition

VARIABLES
    honest,    \* whether the server is a correct one
    draw,      \* the level and the blur the poster draws in each slot
    lastSlot,  \* lastConditionTimestamp, in intervals
    arrays,    \* IsuConditionArray: the timestamps of each level
    poster,    \* the batch in the hands of keepPosting
    inFlight,  \* batches posted that the server has not stored, or never will
    stored,    \* the rows of the server
    read,      \* conditions with a ReadTime
    due,       \* of those, the ones whose ConditionDelayTime has passed
    check      \* the request in progress and the check of its answer

posterVars == <<honest, draw, lastSlot, arrays, poster, inFlight>>
checkVars ==
    <<honest, draw, lastSlot, arrays, poster, inFlight, stored, read, due,
      check>>

----------------------------------------------------------------------------
(* The poster. *)

ConditionOf(slot) ==
    [level |-> draw[slot].level,
     timestamp |-> slot * PostIntervalSecond + draw[slot].blur]

Known == {c \in Condition :
             \E i \in DOMAIN arrays[c.level] : arrays[c.level][i] = c.timestamp}

IdlePoster == [state |-> "idle", first |-> 1, next |-> 1]

AtMost(n, bound) == IF n > bound THEN bound ELSE n

\* Mutant: the batch is posted before it is added.
DrawBatchPosted(count) ==
    /\ poster.state = "idle"
    /\ lastSlot + count <= MaxSlot
    /\ lastSlot' = lastSlot + count
    /\ LET first == lastSlot + count - AtMost(count, PostContentNum) + 1
       IN  /\ poster' = [state |-> "drawn", first |-> first, next |-> first]
           /\ inFlight' = inFlight \cup {{ConditionOf(s) : s \in first..lastSlot'}}
    /\ UNCHANGED <<honest, draw, arrays, stored, read, due, check>>

\* A tick of the timer, count intervals after the last condition: the newest
\* PostContentNum conditions become a batch, the others are drawn for nothing.
DrawBatch(count) ==
    /\ poster.state = "idle"
    /\ lastSlot + count <= MaxSlot
    /\ lastSlot' = lastSlot + count
    /\ LET first == lastSlot + count - AtMost(count, PostContentNum) + 1
       IN  poster' = [state |-> "drawn", first |-> first, next |-> first]
    /\ UNCHANGED <<honest, draw, arrays, inFlight, stored, read, due, check>>

\* AddIsuConditions calls CondMutex.Lock: no reader comes in any more.
CallLock ==
    /\ poster.state = "drawn"
    /\ poster' = [poster EXCEPT !.state = "lock"]
    /\ UNCHANGED <<honest, draw, lastSlot, arrays, inFlight>>
    /\ UNCHANGED <<stored, read, due, check>>

Reading == check.state \in {"search", "gallop", "bisect", "walk"}

\* The readers have left.
Lock ==
    /\ poster.state = "lock"
    /\ ~Reading
    /\ poster' = [poster EXCEPT !.state = "add"]
    /\ UNCHANGED <<honest, draw, lastSlot, arrays, inFlight>>
    /\ UNCHANGED <<stored, read, due, check>>

\* IsuConditionArray.Add, in the loop of AddIsuConditions, which unlocks.
Add ==
    /\ poster.state = "add"
    /\ LET c == ConditionOf(poster.next)
       IN  arrays' = [arrays EXCEPT ![c.level] = Append(@, c.timestamp)]
    /\ poster' = [poster EXCEPT !.next = @ + 1,
                     !.state = IF poster.next = lastSlot THEN "post" ELSE "add"]
    /\ UNCHANGED <<honest, draw, lastSlot, inFlight, stored, read, due, check>>

Post ==
    /\ poster.state = "post"
    /\ inFlight' = inFlight \cup
                       {{ConditionOf(s) : s \in poster.first..lastSlot}}
    /\ poster' = IdlePoster
    /\ UNCHANGED <<honest, draw, lastSlot, arrays, stored, read, due, check>>

\* The server stores a batch, as one statement, maybe long after its POST was
\* given up, maybe never (module ConditionIngest).
Store(batch) ==
    /\ stored' = stored \cup batch
    /\ inFlight' = inFlight \ {batch}
    /\ UNCHANGED <<honest, draw, lastSlot, arrays, poster, read, due, check>>

\* A second passes: what was read before can no longer be missing.
DelayPasses ==
    /\ due # read
    /\ due' = read
    /\ UNCHANGED <<posterVars, stored, read, check>>

----------------------------------------------------------------------------
(* The request. *)

\* A page of conditions, the trend, or the list of the owner's isu.
RequestKind == {"conditions", "trend", "list"}

\* Later than any condition.
Horizon == (MaxSlot + 1) * PostIntervalSecond

IdleCheck ==
    [state |-> "idle", kind |-> "list", filter |-> Level, start |-> 0,
     end |-> Horizon, due |-> {}, answer |-> <<>>,
     index |-> [l \in Level |-> 0], todo |-> {}, level |-> "info",
     ok |-> 0, ng |-> 0, range |-> SearchRange, next |-> 1]

\* requestTimeUnix is taken here, so what is due is fixed here.
Ask(kind, filter, start, end) ==
    /\ check.state = "idle"
    /\ check' = [IdleCheck EXCEPT !.state = "asked", !.kind = kind, !.due = due,
                    !.filter = IF kind = "conditions" THEN filter ELSE Level,
                    !.start = IF kind = "conditions" THEN start ELSE 0,
                    !.end = IF kind = "conditions" THEN end ELSE Horizon]
    /\ UNCHANGED <<posterVars, stored, read, due>>

\* The rows the request is about; the trend and the list show the newest.
Matching == {c \in stored : /\ c.level \in check.filter
                            /\ check.start <= c.timestamp
                            /\ c.timestamp < check.end}
Limit == IF check.kind = "conditions" THEN ConditionLimit ELSE 1

Descending(s) ==
    \A i, j \in DOMAIN s : i < j => s[j].timestamp < s[i].timestamp

\* What a correct server answers: the newest rows, newest first.
IsPage(s) ==
    /\ Len(s) <= Limit
    /\ Descending(s)
    /\ \A i \in DOMAIN s : s[i] \in Matching
    /\ \A c \in Matching :
           \/ \E i \in DOMAIN s : s[i] = c
           \/ Len(s) = Limit /\ \A i \in DOMAIN s : c.timestamp < s[i].timestamp

\* A wrong server may answer anything.  The bound of a trend is its own
\* timestamp.
Answer(s) ==
    /\ check.state = "asked"
    /\ check.kind # "conditions" => Len(s) <= 1
    /\ honest => IsPage(s)
    /\ check' = [check EXCEPT !.state = "answered", !.answer = s,
                    !.end = IF check.kind = "trend" /\ s # <<>>
                            THEN s[1].timestamp ELSE @]
    /\ UNCHANGED <<posterVars, stored, read, due>>

\* The checks made before the arrays are looked at.
Malformed ==
    /\ check.kind = "conditions"
    /\ \/ Len(check.answer) > ConditionLimit
       \/ /\ check.answer # <<>>
          /\ check.answer[Len(check.answer)].timestamp < check.start

\* Nothing is shown of an isu that has no condition yet.
NothingToCheck == check.kind # "conditions" /\ check.answer = <<>>

Refused == [check EXCEPT !.state = "refused"]
Accepted == [check EXCEPT !.state = "accepted"]

CheckForm ==
    /\ check.state = "answered"
    /\ Malformed \/ NothingToCheck
    /\ check' = IF Malformed THEN Refused ELSE Accepted
    /\ UNCHANGED <<posterVars, stored, read, due>>

----------------------------------------------------------------------------
(* The bound. *)

\* CondMutex.RLock, behind a writer that waits (sync.RWMutex), and End.  The
\* list is walked from there, the others from their bound.
ReadLock ==
    /\ check.state = "answered"
    /\ ~Malformed /\ ~NothingToCheck
    /\ poster.state \notin {"lock", "add"}
    /\ check' = [check EXCEPT
                    !.state = IF check.kind = "list" THEN "walk" ELSE "search",
                    !.index = [l \in Level |-> Len(arrays[l])],
                    !.todo = check.filter]
    /\ UNCHANGED <<posterVars, stored, read, due>>

\* What lies before the bound: UpperBound for the trend, LowerBound for a page.
Before(timestamp) ==
    IF check.kind = "trend" THEN timestamp <= check.end
                            ELSE timestamp < check.end

\* The conditions of the array under search, numbered from 0 as in Go.
At(n) == arrays[check.level][n + 1]

Down(n, step) == IF n - step < 0 THEN 0 ELSE n - step

\* Mutant: the first condition is no sentinel.
SearchLevelNoSentinel ==
    /\ check.state = "search"
    /\ check.todo # {}
    /\ LET level == CHOOSE l \in check.todo : TRUE
           base == arrays[level]
       IN  check' =
               IF base = <<>>
               THEN [check EXCEPT !.todo = @ \ {level}, !.index[level] = 0]
               ELSE [check EXCEPT !.state = "gallop", !.level = level,
                        !.ok = Len(base), !.ng = Down(Len(base), SearchRange),
                        !.range = SearchRange]
    /\ UNCHANGED <<posterVars, stored, read, due>>

\* The levels of the filter are searched one after the other; an array
\* without a condition before the bound needs no search.
SearchLevel ==
    /\ check.state = "search"
    /\ check.todo # {}
    /\ LET level == CHOOSE l \in check.todo : TRUE
           base == arrays[level]
       IN  check' =
               IF base = <<>> \/ ~Before(base[1])
               THEN [check EXCEPT !.todo = @ \ {level}, !.index[level] = 0]
               ELSE [check EXCEPT !.state = "gallop", !.level = level,
                        !.ok = Len(base), !.ng = Down(Len(base), SearchRange),
                        !.range = SearchRange]
    /\ UNCHANGED <<posterVars, stored, read, due>>

\* Back from the end, first twice by SearchRange, then by steps that double,
\* as long as it matters.
Gallop ==
    /\ check.state = "gallop"
    /\ check' = IF Before(At(check.ng))
                THEN [check EXCEPT !.state = "bisect"]
                ELSE [check EXCEPT !.ok = check.ng,
                         !.ng = Down(check.ng, check.range),
                         !.range = AtMost(2 * @, 2 * MaxSlot)]
    /\ UNCHANGED <<posterVars, stored, read, due>>

\* Mutant: the halving ends one condition too early.
BisectShort ==
    /\ check.state = "bisect"
    /\ LET mid == (check.ok + check.ng) \div 2
       IN  check' =
               IF check.ok - check.ng <= 2
               THEN [check EXCEPT !.state = "search", !.todo = @ \ {check.level},
                        !.index[check.level] = check.ok]
               ELSE IF Before(At(mid)) THEN [check EXCEPT !.ng = mid]
                                       ELSE [check EXCEPT !.ok = mid]
    /\ UNCHANGED <<posterVars, stored, read, due>>

\* The answer is in (ng, ok].
Bisect ==
    /\ check.state = "bisect"
    /\ LET mid == (check.ok + check.ng) \div 2
       IN  check' =
               IF check.ok - check.ng <= 1
               THEN [check EXCEPT !.state = "search", !.todo = @ \ {check.level},
                        !.index[check.level] = check.ok]
               ELSE IF Before(At(mid)) THEN [check EXCEPT !.ng = mid]
                                       ELSE [check EXCEPT !.ok = mid]
    /\ UNCHANGED <<posterVars, stored, read, due>>

Searched ==
    /\ check.state = "search"
    /\ check.todo = {}
    /\ check' = [check EXCEPT !.state = "walk"]
    /\ UNCHANGED <<posterVars, stored, read, due>>

----------------------------------------------------------------------------
(* The walk. *)

\* IsuConditionArrayIterator.Prev: the newest condition the iterator has left.
Left == {l \in check.filter : check.index[l] # 0}
Newest(l) == arrays[l][check.index[l]]
PrevLevel == CHOOSE l \in Left : \A m \in Left : Newest(m) <= Newest(l)
Prev == [level |-> PrevLevel, timestamp |-> Newest(PrevLevel)]
Advanced == [check EXCEPT !.index[PrevLevel] = @ - 1]

Wanted == check.answer[check.next]

Misordered ==
    /\ check.next > 1
    /\ Wanted.timestamp >= check.answer[check.next - 1].timestamp

\* Mutant: a condition read before may be missing.
SkippedForgetful ==
    /\ Prev.timestamp > Wanted.timestamp
    /\ check.kind # "trend"
    /\ check.kind = "conditions" => Wanted.timestamp >= check.start

\* A newer condition is passed over: a page must not be that old, and shows
\* whatever was read a while ago; the trend is the first one back.
Skipped ==
    /\ Prev.timestamp > Wanted.timestamp
    /\ check.kind # "trend"
    /\ check.kind = "conditions" =>
           Wanted.timestamp >= check.start /\ Prev \notin check.due

Pass ==
    /\ check.state = "walk"
    /\ check.next <= Len(check.answer)
    /\ ~Misordered /\ Left # {} /\ Skipped
    /\ check' = Advanced
    /\ UNCHANGED <<posterVars, stored, read, due>>

\* Mutant: only the timestamp is compared.
MatchTimestampOnly ==
    /\ check.state = "walk"
    /\ check.next <= Len(check.answer)
    /\ ~Misordered /\ Left # {} /\ Prev.timestamp = Wanted.timestamp
    /\ check' = [Advanced EXCEPT !.next = @ + 1]
    /\ read' = IF check.kind = "conditions" THEN read \cup {Prev} ELSE read
    /\ UNCHANGED <<posterVars, stored, due>>

\* The condition is found; a page gives it a ReadTime.
Match ==
    /\ check.state = "walk"
    /\ check.next <= Len(check.answer)
    /\ ~Misordered /\ Left # {} /\ Prev = Wanted
    /\ check' = [Advanced EXCEPT !.next = @ + 1]
    /\ read' = IF check.kind = "conditions" THEN read \cup {Prev} ELSE read
    /\ UNCHANGED <<posterVars, stored, due>>

Refuse ==
    /\ check.state = "walk"
    /\ check.next <= Len(check.answer)
    /\ \/ Misordered
       \/ Left = {}
       \/ Left # {} /\ ~Skipped /\ Prev # Wanted
    /\ check' = Refused
    /\ UNCHANGED <<posterVars, stored, read, due>>

\* An empty page: nothing that was read a while ago is in its range.
PassEmpty ==
    /\ check.state = "walk"
    /\ check.answer = <<>> /\ Left # {}
    /\ Prev.timestamp >= check.start
    /\ check' = IF Prev \in check.due THEN Refused ELSE Advanced
    /\ UNCHANGED <<posterVars, stored, read, due>>

Accept ==
    /\ check.state = "walk"
    /\ check.next > Len(check.answer)
    /\ check.answer = <<>> /\ Left # {} => Prev.timestamp < check.start
    /\ check' = Accepted
    /\ UNCHANGED <<posterVars, stored, read, due>>

Done ==
    /\ check.state \in {"accepted", "refused"}
    /\ check' = IdleCheck
    /\ UNCHANGED <<posterVars, stored, read, due>>

----------------------------------------------------------------------------
CheckInit ==
    /\ honest \in BOOLEAN
    /\ draw \in Draws
    /\ lastSlot = 0
    /\ arrays = [l \in Level |-> <<>>]
    /\ poster = IdlePoster
    /\ inFlight = {}
    /\ stored = {}
    /\ read = {}
    /\ due = {}
    /\ check = IdleCheck

\* Sequences over S with at most n members.
UpTo(S, n) == UNION {[1..m -> S] : m \in 0..n}

PosterStep == CallLock \/ Lock \/ Add \/ Post

CheckStep ==
    \/ CheckForm
    \/ ReadLock
    \/ SearchLevel \/ Gallop \/ Bisect \/ Searched
    \/ Pass \/ Match \/ Refuse \/ PassEmpty \/ Accept
    \/ Done

CheckNext ==
    \/ \E count \in Slot : DrawBatch(count)
    \/ PosterStep
    \/ \E batch \in inFlight : Store(batch)
    \/ DelayPasses
    \/ \E kind \in RequestKind, filter \in Filters, range \in Ranges :
           Ask(kind, filter, range[1], range[2])
    \/ \E s \in UpTo(stored \cup Claims, ConditionLimit + 1) : Answer(s)
    \/ CheckStep

CheckSpec == CheckInit /\ [][CheckNext]_checkVars

\* Goroutines run on; the mutex is handed over.
CheckFairSpec ==
    CheckSpec /\ WF_checkVars(PosterStep) /\ WF_checkVars(CheckStep)

----------------------------------------------------------------------------
(* Properties. *)

\* Indices stay within the arrays they are for, marks within their range.
CheckTypeOK ==
    /\ honest \in BOOLEAN /\ draw \in Draws
    /\ lastSlot \in 0..MaxSlot
    /\ DOMAIN arrays = Level /\ \A l \in Level : Len(arrays[l]) <= MaxSlot
    /\ poster.state \in {"idle", "drawn", "lock", "add", "post"}
    /\ inFlight \subseteq SUBSET Condition
    /\ stored \subseteq Condition
    /\ read \subseteq Condition /\ due \subseteq read
    /\ check.kind \in RequestKind /\ check.filter \subseteq Level
    /\ \A l \in Level : check.index[l] \in 0..Len(arrays[l])
    /\ check.state \in {"gallop", "bisect"} =>
           /\ check.ok \in 1..Len(arrays[check.level])
           /\ check.ng \in 0..(check.ok - 1)

\* The search may rely on the arrays: each is sorted, and no two conditions of
\* an isu share a timestamp, however they are blurred and batched.
ArraysAscend ==
    \A l, m \in Level : \A i \in DOMAIN arrays[l], j \in DOMAIN arrays[m] :
        /\ l = m /\ i < j => arrays[l][i] < arrays[m][j]
        /\ l # m => arrays[l][i] # arrays[m][j]

\* The search ends at the bound: what it leaves before the index it returns
\* is what lies before the time it was given.
BoundIsExact ==
    check.state = "search" =>
        \A l \in check.filter \ check.todo : \A i \in DOMAIN arrays[l] :
            i <= check.index[l] <=> Before(arrays[l][i])

\* The answer of a correct server is never refused, however late its rows
\* came and whatever the poster does meanwhile.
HonestIsAccepted == honest => check.state # "refused"

\* What is accepted was posted: every condition answered is one of the
\* arrays, of the levels and the range asked for, and they are newest first.
AcceptedWasPosted ==
    check.state = "accepted" =>
        /\ Descending(check.answer)
        /\ \A i \in DOMAIN check.answer :
               /\ check.answer[i] \in Known
               /\ check.answer[i].level \in check.filter
               /\ check.kind = "conditions" =>
                      check.answer[i].timestamp \in check.start..(check.end - 1)

\* No page is accepted that leaves out, among conditions it shows or on an
\* empty page, one that was read a second before it was asked for.
ReadIsNotMissing ==
    check.state = "accepted" /\ check.kind = "conditions" =>
        \A c \in check.due :
            /\ c.level \in check.filter
            /\ c.timestamp \in check.start..(check.end - 1)
            /\ check.answer # <<>> =>
                   c.timestamp > check.answer[Len(check.answer)].timestamp
            => \E i \in DOMAIN check.answer : check.answer[i] = c

\* The poster gets its batch into the arrays, however many checks there are:
\* every search and every walk comes to an end and lets go of the lock.
AddingEnds == poster.state = "drawn" ~> poster.state = "post"

============================================================================
