------------------------------ MODULE GraphPage ------------------------------
(* The graph page of the browser application (webapp/frontend/src): useGraph   *)
(* in components/IsuGraph/use/graph.ts, pages/IsuGraph.tsx, and the buttons    *)
(* of GraphNavigator.tsx and DateInput.tsx.                                    *)
(*                                                                             *)
(* The date state is a Date object, and getPrevDate / getNextDate of           *)
(* lib/date.ts change the object they are given as well as making a new one.   *)
(* A request on its way keeps the object it was made for, and reads the day it *)
(* displays as the label from that object when its answer is there.            *)
(*                                                                             *)
(* Abstracted: dates are days, 0 is no day; the graph of a day does not change *)
(* while the page is open, so that data is the day it was asked for.           *)
EXTENDS Integers, Sequences, SequencesExt

CONSTANTS
  MaxDay,      \* bound: days 1..MaxDay
  Today,       \* the day the page opens with when the address names none
  MaxRequests  \* bound: requests under way

VARIABLES
  date,      \* the date state
  pending,   \* requests under way, oldest first: [asked, label, current]:
             \* the day asked for, what the request's Date object says by now,
             \* and whether that object still is the date state
  data,      \* the day whose graph is displayed, 0 before the first answer
  day,       \* the label on display, which a click on the graph reads too
  waiting,   \* isLoading
  address,   \* ?datetime= of the address bar, 0 if there is none
  overlapped,\* ghost: two requests were out at once since the page was opened
  disorder   \* ghost: an answer was lost or came before an older one's

graphVars == <<date, pending, data, day, waiting, address, overlapped, disorder>>

Days == 1..MaxDay

\* The page is opened with what the address says.
Open(datetime) ==
  LET initialDate == IF datetime = 0 THEN Today ELSE datetime
  IN  /\ date' = initialDate
      /\ pending' = <<[asked |-> initialDate, label |-> initialDate, current |-> TRUE]>>
      /\ data' = 0 /\ day' = 0 /\ waiting' = TRUE /\ address' = datetime
      /\ overlapped' = FALSE /\ disorder' = FALSE

Init ==
  /\ date = Today /\ pending = <<[asked |-> Today, label |-> Today, current |-> TRUE]>>
  /\ data = 0 /\ day = 0 /\ waiting = TRUE /\ address = 0
  /\ overlapped = FALSE /\ disorder = FALSE

\* Another page takes its place; answers under way find nobody.
Leave ==
  /\ date' = Today /\ pending' = <<>> /\ data' = 0 /\ day' = 0
  /\ waiting' = FALSE /\ address' = 0
  /\ overlapped' = FALSE /\ disorder' = FALSE

Reload == Open(address)

\* setDate on the date state: a request that holds the object will read it so.
Moved(step) ==
  [k \in DOMAIN pending |->
     [pending[k] EXCEPT !.label = IF pending[k].current THEN @ + step ELSE @]]

\* The effect on `date`: a request for d, of a new Date object; the requests
\* before it keep theirs, which the press has moved by `step`.
Fetch(d, step) ==
  /\ Len(pending) < MaxRequests
  /\ pending' = Append([k \in DOMAIN pending |-> [Moved(step)[k] EXCEPT !.current = FALSE]],
                       [asked |-> d, label |-> d, current |-> TRUE])
  /\ waiting' = TRUE
  /\ overlapped' = (overlapped \/ pending # <<>>)

\* Mutant: the date state is changed in place and set to the same object:
\* nothing is fetched.
TurnSameObject(step) ==
  /\ date + step \in Days
  /\ address' = date
  /\ date' = date + step
  /\ pending' = Moved(step)
  /\ UNCHANGED <<data, day, waiting, overlapped, disorder>>

\* prev and next: the address is given the date that is left.
Turn(step) ==
  /\ date + step \in Days
  /\ address' = date
  /\ date' = date + step
  /\ Fetch(date + step, step)
  /\ UNCHANGED <<data, day, disorder>>

PressPrev == Turn(-1)
PressNext == Turn(1)

\* specify: what is typed in is a new Date object, the old one is left alone.
Specify(d) ==
  /\ address' = date
  /\ date' = d
  /\ Fetch(d, 0)
  /\ UNCHANGED <<data, day, disorder>>

\* DateInput: Enter behind a date typed in; specify refuses what is no date.
EnterDay == \E d \in Days : Specify(d)

\* Any answer is displayed, whatever has been asked since.
Answered(k) ==
  /\ data' = pending[k].asked
  /\ day' = pending[k].label
  /\ waiting' = FALSE
  /\ pending' = RemoveAt(pending, k)
  /\ disorder' = (disorder \/ k # 1)
  /\ UNCHANGED <<date, address, overlapped>>

\* getIsuGraphs rejects: the overlay stays until another answer comes.
AnswerLost(k) ==
  /\ pending' = RemoveAt(pending, k)
  /\ disorder' = TRUE
  /\ UNCHANGED <<date, data, day, waiting, address, overlapped>>

Next ==
  \/ PressPrev
  \/ PressNext
  \/ EnterDay
  \/ \E k \in DOMAIN pending : Answered(k) \/ AnswerLost(k)
  \/ Reload

Spec == Init /\ [][Next]_graphVars

-------------------------------------------------------------------------------
\* Once every request is answered, the last answer being that of the last
\* request, the page displays the graph of its date under its date
\* (graph.ts:38): however fast the user turned the days, and though each turn
\* changed the Date object earlier requests hold.
SettledGraph ==
  (pending = <<>> /\ data # 0 /\ ~disorder) => (data = date /\ day = date)

\* A graph stands under another day's date only if a day was turned, or
\* typed in, while its answer was awaited (graph.ts:47 reads the label after
\* the await); a user who waits for each answer never sees it.
LabelMatchesData == ~overlapped => day = data
==============================================================================
