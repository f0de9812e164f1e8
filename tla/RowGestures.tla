----------------------------- MODULE RowGestures ----------------------------
(***************************************************************************)
(* Fingers on the list (web/src/lib/touch.ts): on a row a swipe completes   *)
(* the task or opens its menu, a press held for 480 ms opens the menu, a    *)
(* tap opens the task; the list around it is pulled down to refresh.  The   *)
(* two hooks get the same touches and know nothing of each other.           *)
(***************************************************************************)
EXTENDS Integers, FiniteSets

CONSTANTS
  Points,       \* how far a finger gets from where it was put down, <<dx, dy>> in pixels
  Touches,      \* of {"press_and_drag", "diagonal", "two_fingers", "cancelled"}
  MaxTouches     \* bound: touches and moves

ASSUME PointsAssumption == Points \subseteq Int \X Int

VARIABLES
  fingers,      \* on the screen
  row,          \* state of useRowTouch: active, longPressed, timer, offset
  pull,         \* state of usePullToRefresh: armed, distance, refreshing
  atTop,        \* the list is scrolled to its top
  still,        \* this touch has not left its place: a click may follow it
  outcome,      \* history: what came of this touch
  nTouches

touchVars == <<fingers, row, pull, atTop, still, outcome, nTouches>>

SwipeDistance == 64
MoveTolerance == 8
PullTrigger   == 64
PullMax       == 96

Size(n)       == IF n < 0 THEN -n ELSE n
Vertical(p)   == Size(p[2]) * 16 > Size(p[1]) * 10
Near(p)       == Size(p[1]) < MoveTolerance /\ Size(p[2]) < MoveTolerance
Pulled(p)     == IF p[2] <= 0 THEN 0 ELSE IF p[2] \div 2 < PullMax THEN p[2] \div 2 ELSE PullMax

Idle == [active |-> FALSE, longPressed |-> FALSE, timer |-> FALSE, offset |-> 0]

Event == nTouches < MaxTouches /\ nTouches' = nTouches + 1

TouchInit ==
  /\ fingers = 0 /\ row = Idle
  /\ pull = [armed |-> FALSE, distance |-> 0, refreshing |-> FALSE]
  /\ atTop \in BOOLEAN /\ still = FALSE
  /\ outcome = {} /\ nTouches = 0

TouchStart ==
  /\ fingers = 0 /\ Event
  /\ fingers' = 1 /\ still' = TRUE /\ outcome' = {}
  /\ row' = [row EXCEPT !.longPressed = FALSE, !.timer = TRUE]
  /\ pull' = IF pull.refreshing THEN pull ELSE [pull EXCEPT !.armed = atTop]
  /\ UNCHANGED atTop

\* Both hooks look away from a second finger; the timer of the first runs on.
\* Without "two_fingers" the first is neither pressing nor dragging anything by then.
SecondFinger ==
  /\ fingers = 1 /\ Event
  /\ "two_fingers" \notin Touches =>
       ~row.timer /\ ~row.active /\ pull.distance < PullTrigger /\ outcome = {}
  /\ fingers' = 2 /\ still' = FALSE
  /\ UNCHANGED <<row, pull, atTop, outcome>>

LongPress ==
  /\ row.timer
  /\ row' = [row EXCEPT !.timer = FALSE, !.longPressed = TRUE, !.active = FALSE]
  /\ outcome' = outcome \cup {"menu"}
  /\ UNCHANGED <<fingers, pull, atTop, still, nTouches>>

\* The row: once it is a swipe it stays one; until then a small move is nothing
\* and a vertical one ends the press.
RowMoved(p) ==
  IF ~row.active /\ Near(p) THEN row
  ELSE IF ~row.active /\ Vertical(p) THEN [row EXCEPT !.timer = FALSE]
  ELSE [active |-> TRUE, longPressed |-> row.active /\ row.longPressed, timer |-> row.active /\ row.timer,
        offset |-> p[1]]

PullMoved(p) ==
  IF pull.refreshing \/ ~pull.armed THEN pull
  ELSE IF ~atTop THEN [pull EXCEPT !.armed = FALSE, !.distance = 0]
  ELSE [pull EXCEPT !.distance = Pulled(p)]

\* Without "press_and_drag" a finger that has pressed stays where it is; without
\* "diagonal" none goes far enough both ways.
Move(p) ==
  /\ fingers = 1 /\ Event
  /\ "press_and_drag" \notin Touches => ~row.longPressed
  /\ "diagonal" \notin Touches => Size(p[1]) < SwipeDistance \/ Pulled(p) < PullTrigger
  /\ row' = RowMoved(p)
  /\ pull' = PullMoved(p)
  /\ still' = (still /\ Near(p))
  /\ UNCHANGED <<fingers, atTop, outcome>>

\* The list scrolls under the finger, or back to its top.
Scroll ==
  /\ fingers = 1 /\ ~still /\ Event
  /\ atTop' = ~atTop
  /\ UNCHANGED <<fingers, row, pull, still, outcome>>

RowOutcome ==
  IF row.longPressed \/ ~row.active \/ Size(row.offset) < SwipeDistance THEN {}
  ELSE {IF row.offset > 0 THEN "toggle" ELSE "menu_swipe"}

TouchEnd ==
  LET refresh == ~pull.refreshing /\ pull.distance >= PullTrigger
  IN  /\ fingers > 0
      /\ fingers' = fingers - 1
      /\ row' = [Idle EXCEPT !.longPressed = row.longPressed]
      /\ pull' = IF pull.refreshing THEN pull
                 ELSE [armed |-> FALSE, distance |-> IF refresh THEN PullTrigger ELSE 0, refreshing |-> refresh]
      /\ outcome' = outcome \cup RowOutcome \cup (IF refresh THEN {"refresh"} ELSE {})
      /\ UNCHANGED <<atTop, still, nTouches>>

\* The system takes the touch away: only the row is told.  Without "cancelled" the
\* list was not pulled far enough yet.
TouchCancel ==
  /\ fingers > 0
  /\ "cancelled" \notin Touches => pull.distance < PullTrigger
  /\ fingers' = 0 /\ still' = FALSE
  /\ row' = [Idle EXCEPT !.longPressed = row.longPressed]
  /\ UNCHANGED <<pull, atTop, outcome, nTouches>>

\* Mutant: the click after a press is not swallowed.
Click_Opens ==
  /\ fingers = 0 /\ still
  /\ still' = FALSE
  /\ row' = [row EXCEPT !.longPressed = FALSE]
  /\ outcome' = outcome \cup {"open"}
  /\ UNCHANGED <<fingers, pull, atTop, nTouches>>

\* The click the browser sends after a touch that stayed: swallowed after a press.
Click ==
  /\ fingers = 0 /\ still
  /\ still' = FALSE
  /\ row' = [row EXCEPT !.longPressed = FALSE]
  /\ outcome' = IF row.longPressed THEN outcome ELSE outcome \cup {"open"}
  /\ UNCHANGED <<fingers, pull, atTop, nTouches>>

Refreshed ==
  /\ pull.refreshing
  /\ pull' = [pull EXCEPT !.refreshing = FALSE, !.distance = 0]
  /\ UNCHANGED <<fingers, row, atTop, still, outcome, nTouches>>

TouchNext ==
  \/ TouchStart \/ SecondFinger \/ LongPress
  \/ \E p \in Points : Move(p)
  \/ Scroll \/ TouchEnd \/ TouchCancel \/ Click \/ Refreshed

TouchSpec == TouchInit /\ [][TouchNext]_touchVars

-----------------------------------------------------------------------------
TouchTypeOK ==
  /\ fingers \in 0 .. 2 /\ {atTop, still} \subseteq BOOLEAN
  /\ row \in [active : BOOLEAN, longPressed : BOOLEAN, timer : BOOLEAN, offset : Int]
  /\ pull \in [armed : BOOLEAN, distance : 0 .. PullMax, refreshing : BOOLEAN]
  /\ outcome \subseteq {"menu", "menu_swipe", "toggle", "refresh", "open"}

\* Of one touch comes one thing at most, and of two fingers nothing.
OneOutcome ==
  /\ Cardinality(outcome) <= 1
  /\ fingers = 2 => outcome = {}
=============================================================================
