------------------------------- MODULE IsuPages -------------------------------
(* The pages of one isu in a tab of the browser (pages/IsuRoot.tsx of          *)
(* webapp/frontend/src): the conditions page (module ConditionPage), the graph *)
(* page (module GraphPage), the tabs between them, and the click on a point of *)
(* the graph that opens the conditions page on the hours before it             *)
(* (components/IsuGraph/TransitionGraph.tsx).  One page is mounted at a time.  *)
(*                                                                             *)
(* There is one condition an hour: timestamp t is hour (t - 1) % HoursPerDay   *)
(* of day (t - 1) \div HoursPerDay + 1.                                        *)
EXTENDS ConditionPage, Integers

CONSTANTS
  MaxDay, Today, MaxRequests,  \* as in GraphPage
  HoursPerDay                  \* points of a graph (24)

ASSUME DaysAssumption ==
  /\ MaxDay \in Nat /\ HoursPerDay \in Nat \ {0}
  /\ MaxTime = MaxDay * HoursPerDay /\ Today \in 1..MaxDay

VARIABLES
  mounted,  \* the page on display
  date, pending, data, day, waiting, address, outrun, disorder, \* of the graph page
  clicked,  \* ghost: the click the conditions page was opened by
  tabbed    \* ghost: the tab of the conditions page was pressed on that page

G == INSTANCE GraphPage WITH overlapped <- outrun

conditionVars == vars
graphVars == <<date, pending, data, day, waiting, address, outrun, disorder>>
pagesVars == <<mounted, conditionVars, graphVars, clicked, tabbed>>

NoClick == [day |-> 0, index |-> 0, outrun |-> FALSE]
StartOf(d) == (d - 1) * HoursPerDay + 1
Before(d, index) == StartOf(d)..(StartOf(d) + index - 1)

PagesInit ==
  /\ mounted = "condition" /\ Init
  /\ date = Today /\ pending = <<>> /\ data = 0 /\ day = 0 /\ waiting = FALSE
  /\ address = 0 /\ outrun = FALSE /\ disorder = FALSE
  /\ clicked = NoClick /\ tabbed = FALSE

\* The tab of the other page.
TabCondition ==
  /\ mounted = "graph" /\ mounted' = "condition"
  /\ G!Leave /\ Mount(NoQuery)
  /\ clicked' = NoClick /\ tabbed' = FALSE

TabGraph ==
  /\ mounted = "condition" /\ mounted' = "graph"
  /\ Leave /\ G!Open(0)
  /\ clicked' = NoClick /\ tabbed' = FALSE

\* The tab of the page one is on: the address loses its query, and nothing
\* else happens, the component stays mounted.
TabSame ==
  /\ \/ /\ mounted = "condition"
        /\ url' = NoQuery /\ tabbed' = TRUE
        /\ UNCHANGED <<query, page, shown, cache, inFlight, loading, asked, searched,
                       overlapped, graphVars>>
     \/ /\ mounted = "graph"
        /\ address' = 0 /\ tabbed' = FALSE
        /\ UNCHANGED <<conditionVars, date, pending, data, day, waiting, outrun, disorder>>
  /\ clicked' = NoClick
  /\ UNCHANGED mounted

\* Mutant: the day is that of the date state, whose graph is still to come.
ClickDate(index) ==
  /\ mounted = "graph" /\ mounted' = "condition"
  /\ data # 0
  /\ Mount([levels |-> AllLevels, start |-> StartOf(date), end |-> StartOf(date) + index])
  /\ G!Leave
  /\ clicked' = [day |-> data, index |-> index, outrun |-> outrun]
  /\ tabbed' = FALSE

\* A click on the point of an hour; the graph lies above the overlay, so it can
\* be clicked while a request is under way.  The day is read from the label.
Click(index) ==
  /\ mounted = "graph" /\ mounted' = "condition"
  /\ data # 0
  /\ Mount([levels |-> AllLevels, start |-> StartOf(day), end |-> StartOf(day) + index])
  /\ G!Leave
  /\ clicked' = [day |-> data, index |-> index, outrun |-> outrun]
  /\ tabbed' = FALSE

\* A reload by an address that no longer is that of the click forgets it.
OnCondition ==
  /\ mounted = "condition"
  /\ \/ /\ (\E q \in Searches : Search(q))
        /\ clicked' = NoClick /\ tabbed' = FALSE
     \/ /\ PressNext \/ PressPrev
        /\ tabbed' = FALSE /\ UNCHANGED clicked
     \/ /\ Arrival
        /\ UNCHANGED <<clicked, tabbed>>
     \/ /\ Reload
        /\ clicked' = IF url.start < url.end THEN clicked ELSE NoClick
        /\ tabbed' = FALSE
  /\ UNCHANGED <<mounted, graphVars>>

OnGraph ==
  /\ mounted = "graph"
  /\ G!Next
  /\ UNCHANGED <<mounted, conditionVars, clicked, tabbed>>

PagesNext ==
  \/ TabCondition
  \/ TabGraph
  \/ TabSame
  \/ \E index \in 0..(HoursPerDay - 1) : Click(index)
  \/ OnCondition
  \/ OnGraph

PagesSpec == PagesInit /\ [][PagesNext]_pagesVars

-------------------------------------------------------------------------------
\* A click on the point of any hour but the first (its end is not after its
\* start, and the page takes now for it) opens conditions of the hours before
\* it, of the day whose graph was clicked, and of no other (TransitionGraph.tsx
\* :44): through Next, Prev and reloads, until something else is searched for;
\* if no answer of the graph was overtaken by a turn of the day.
ClickOpensDay ==
  (clicked.index > 0 /\ ~clicked.outrun /\ ~loading)
     => shown \subseteq Before(clicked.day, clicked.index)

\* UrlShowsPage, unless the tab of the conditions page was pressed on that page
\* (Tabs.tsx:30): the address then has lost the query of what is on display.
AddressShowsPage == tabbed \/ UrlShowsPage

\* SettledGraph and LabelMatchesData of module GraphPage.
SettledGraph == G!SettledGraph
LabelMatchesData == G!LabelMatchesData
==============================================================================
