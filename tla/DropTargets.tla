---------------------------- MODULE DropTargets ----------------------------
(***************************************************************************)
(* One card that is dragged about (BoardView.tsx, QuadrantView.tsx,         *)
(* CalendarView.tsx): over the columns of the board, the four quadrants,    *)
(* the days of the calendar, the hours of a day; what is sent then, and     *)
(* what UpdateTask and MoveTask of the server make of it (tasks.go).        *)
(***************************************************************************)
EXTENDS Integers, FiniteSets

CONSTANTS
  Tags, ListIds,
  Dues,         \* due days a card may have at the start, in days from today
  Times,        \* minutes of the day a card may be dropped at
  Moves,      \* of {"swap_tag", "with_end", "day_passes"}
  Estimate,     \* minutes the card is thought to take, 0 for none
  NoDay, NoTime,
  MaxDrops      \* bound: drops and days

VARIABLES
  card,         \* list, priority, tags, due, time, endTime, important, urgent
  landed,       \* history: the column of the last drop and the one it came from
  byHand,       \* history: which marks the user has set since they were last derived
  length,       \* history: minutes of the block before the last drop on the axis, and after
  nDrops

dropVars == <<card, landed, byHand, length, nDrops>>

DefaultDuration == 45
SnapMin         == 15
DayMinutes      == 24 * 60

\* Marks the server derives when priority or day is written and the mark is not.
DeriveImportant(p) == p >= 2
DeriveUrgent(d)    == d # NoDay /\ d <= 1

Groups == {"priority", "list", "tag", "due"}
Columns(g) ==
  CASE g = "priority" -> 0 .. 3
    [] g = "list"     -> ListIds
    [] g = "tag"      -> Tags \cup {"none"}
    [] g = "due"      -> {"overdue", "today", "tomorrow", "week", "later", "none"}

\* The cards a column shows.
InColumn(c, g, col) ==
  CASE g = "priority" -> c.priority = col
    [] g = "list"     -> c.list = col
    [] g = "tag"      -> IF col = "none" THEN c.tags = {} ELSE col \in c.tags
    [] g = "due"      -> IF c.due = NoDay THEN col = "none"
                         ELSE col = (IF c.due < 0 THEN "overdue" ELSE IF c.due = 0 THEN "today"
                                     ELSE IF c.due = 1 THEN "tomorrow" ELSE IF c.due <= 7 THEN "week" ELSE "later")

\* The day a column of the board stands for.
DayOf(col) ==
  CASE col = "overdue" -> -1 [] col = "today" -> 0 [] col = "tomorrow" -> 1
    [] col = "week" -> 3 [] col = "later" -> 14 [] col = "none" -> NoDay

\* The block of a card on the axis of its day; without an end it lasts as long as is thought.
Lasts    == IF Estimate > 0 THEN Estimate ELSE DefaultDuration
Start(c) == c.time
End(c)   == IF c.endTime = NoTime THEN c.time + Lasts
            ELSE IF c.endTime > c.time THEN c.endTime ELSE DayMinutes
Minutes(c) == IF c.time = NoTime THEN 0 ELSE End(c) - Start(c)

\* Where on the axis a card is let go: the next quarter of an hour, and inside the day.
Snap(min) ==
  LET q == ((min + SnapMin \div 2) \div SnapMin) * SnapMin
  IN  IF q < 0 THEN 0 ELSE IF q > DayMinutes - SnapMin THEN DayMinutes - SnapMin ELSE q

NoLanding == [group |-> "none", col |-> "none", from |-> "none"]
Event     == nDrops < MaxDrops /\ nDrops' = nDrops + 1

DropInit ==
  /\ card \in {[list |-> l, priority |-> 0, tags |-> g, due |-> d, time |-> t, endTime |-> e,
                important |-> FALSE, urgent |-> DeriveUrgent(d)] :
                  l \in ListIds, g \in SUBSET Tags, d \in Dues \cup {NoDay}, t \in {NoTime, 540},
                  e \in {NoTime, 600}}
  /\ card.due = NoDay => card.time = NoTime
  /\ card.time = NoTime => card.endTime = NoTime
  /\ "with_end" \notin Moves => card.endTime = NoTime
  /\ landed = NoLanding /\ byHand = {} /\ length = <<0, 0>> /\ nDrops = 0

-----------------------------------------------------------------------------
\* Mutant: the column it was taken from is forgotten.
TagsAfter_Adds(from, col) == IF col = "none" THEN {} ELSE card.tags \cup {col}

\* The tags a card has after a drop on the column of one: that of the column it was
\* taken from goes, and the request is not sent when as many as before are left.
TagsAfter(from, col) ==
  LET next == (IF from \in Tags THEN card.tags \ {from} ELSE card.tags) \cup {col}
  IN  IF col = "none" THEN {}
      ELSE IF Cardinality(next) = Cardinality(card.tags) THEN card.tags ELSE next

OnBoard(g, from, col) ==
  CASE g = "priority" -> [card EXCEPT !.priority = col, !.important = DeriveImportant(col)]
    [] g = "list"     -> [card EXCEPT !.list = col]
    [] g = "tag"      -> [card EXCEPT !.tags = TagsAfter(from, col)]
    [] g = "due"      -> [card EXCEPT !.due = DayOf(col), !.urgent = DeriveUrgent(DayOf(col)),
                                      !.time = IF DayOf(col) = NoDay THEN NoTime ELSE card.time]

\* Without "swap_tag" the drop changes how many tags there are, or nothing at all.
DropOnBoard(g, from, col) ==
  /\ Event
  /\ InColumn(card, g, from)
  /\ "swap_tag" \notin Moves =>
       ~(g = "tag" /\ from \in Tags /\ col \in Tags \ card.tags)
  /\ card' = OnBoard(g, from, col)
  /\ landed' = [group |-> g, col |-> col, from |-> from]
  /\ byHand' = byHand \ (IF g = "priority" THEN {"important"} ELSE IF g = "due" THEN {"urgent"} ELSE {})
  /\ length' = <<0, 0>>

DropOnQuadrant(important, urgent) ==
  /\ Event
  /\ card' = [card EXCEPT !.important = important, !.urgent = urgent]
  /\ byHand' = {"important", "urgent"}
  /\ landed' = NoLanding /\ length' = <<0, 0>>

\* A new card from the head of a column has what the column asks for.
AddInColumn(g, col) ==
  /\ Event
  /\ card' \in {[list |-> IF g = "list" THEN col ELSE l, priority |-> p, tags |-> t, due |-> d,
                 time |-> NoTime, endTime |-> NoTime,
                 important |-> DeriveImportant(p), urgent |-> DeriveUrgent(d)] :
                   l \in ListIds, p \in {IF g = "priority" THEN col ELSE 0},
                   t \in {IF g = "tag" /\ col \in Tags THEN {col} ELSE {}},
                   d \in {IF g = "due" THEN DayOf(col) ELSE NoDay}}
  /\ landed' = [group |-> g, col |-> col, from |-> col]
  /\ byHand' = {} /\ length' = <<0, 0>>

\* A day of the calendar: the time stays what it is.
DropOnDay(d) ==
  /\ Event
  /\ card' = [card EXCEPT !.due = d, !.urgent = DeriveUrgent(d)]
  /\ byHand' = byHand \ {"urgent"}
  /\ landed' = NoLanding /\ length' = <<0, 0>>

\* The axis of a day, or the strip above it: day and time, and nothing else.
DropOnAxis(d, min) ==
  /\ Event
  /\ card.due = d
  /\ card' = [card EXCEPT !.time = IF min = NoTime THEN NoTime ELSE Snap(min), !.urgent = DeriveUrgent(d)]
  /\ byHand' = byHand \ {"urgent"}
  /\ landed' = NoLanding
  /\ length' = IF card.time = NoTime \/ min = NoTime THEN <<0, 0>> ELSE <<Minutes(card), Minutes(card')>>

\* Midnight: what is due comes closer, what was derived stays written.
DayPasses ==
  /\ "day_passes" \in Moves
  /\ Event
  /\ card' = IF card.due = NoDay THEN card ELSE [card EXCEPT !.due = @ - 1]
  /\ landed' = NoLanding /\ length' = <<0, 0>>
  /\ UNCHANGED byHand

DropNext ==
  \/ \E g \in Groups : \E from, col \in Columns(g) : DropOnBoard(g, from, col)
  \/ \E g \in Groups : \E col \in Columns(g) : AddInColumn(g, col)
  \/ \E i, u \in BOOLEAN : DropOnQuadrant(i, u)
  \/ \E d \in Dues : DropOnDay(d) \/ \E min \in Times \cup {NoTime} : DropOnAxis(d, min)
  \/ DayPasses

-----------------------------------------------------------------------------
DropTypeOK ==
  /\ card.list \in ListIds /\ card.priority \in 0 .. 3 /\ card.tags \subseteq Tags
  /\ card.due \in Int \cup {NoDay} /\ card.time \in 0 .. DayMinutes - SnapMin \cup {NoTime}
  /\ byHand \subseteq {"important", "urgent"}

\* A card is shown in the column it was dropped on, and no longer in the one it came from.
LandsWhereDropped ==
  landed.group # "none" =>
    /\ InColumn(card, landed.group, landed.col)
    /\ landed.from # landed.col => ~InColumn(card, landed.group, landed.from)

\* Dragging changes when a block is, not how long; and no time is left without a day.
BlockKept ==
  /\ length[1] = length[2]
  /\ card.time # NoTime => card.due # NoDay

\* A mark nobody has set is the one its day and its priority ask for.
MarksFollow ==
  /\ "urgent" \notin byHand => card.urgent = DeriveUrgent(card.due)
  /\ "important" \notin byHand => card.important = DeriveImportant(card.priority)
=============================================================================
