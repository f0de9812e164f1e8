------------------------------ MODULE PanelPicks ------------------------------
(***************************************************************************)
(* What saves at once: the pickers of the task panel (TaskDetail.tsx), the  *)
(* icons, the title and the menu of a row (TaskViews.tsx), for one task.    *)
(* A PATCH carries the version of the row the page shows, moving, ticking   *)
(* and skipping do not, and leave the version alone (tasks.go).             *)
(***************************************************************************)
EXTENDS Integers, Sequences, FiniteSets, SequencesExt

CONSTANTS
  Tags, Lists, Reminders,
  Today, Weekday,     \* the day it is, and its weekday from 0, Sunday
  NoDay, NoTime, Nobody,
  Haste,              \* of {"stale", "crossing", "half", "end_left", "watch"}
  MaxUses             \* bound: clicks of the user and of another device

VARIABLES
  row, version,       \* the task on the server
  shown, seen,        \* the row the page shows, and its version
  open,               \* the panel is open
  field,              \* Nobody, or the text being edited, as it was and as it is
  calls,              \* requests under way
  reread,             \* the page is going to read the row again
  owed,               \* history: of each mark, the value last meant, and since when
  nUses

pickVars == <<row, version, shown, seen, open, field, calls, reread, owed, nUses>>

BareRow ==
  [title |-> "old", url |-> "", due |-> NoDay, time |-> NoTime, ends |-> NoTime, start |-> NoDay, at |-> NoTime,
   remind |-> {}, tags |-> {}, list |-> 1, priority |-> 0, important |-> FALSE, urgent |-> FALSE,
   pinned |-> FALSE, starred |-> FALSE, archived |-> FALSE, status |-> "todo", estimate |-> 0,
   repeat |-> "none", from |-> "due"]
FullRow ==
  [BareRow EXCEPT !.due = Today, !.time = "nine", !.urgent = TRUE, !.repeat = "daily", !.remind = Reminders,
                  !.url = "old", !.start = Today, !.at = "later", !.tags = Tags]

\* A mark is a field, or one member of a set of tags or of reminders.
Sets     == {"tags", "remind"}
Marks    == {<<f, 0>> : f \in DOMAIN BareRow \ Sets} \cup {<<"tags", g>> : g \in Tags} \cup {<<"remind", r>> : r \in Reminders}
Value(t, m) == IF m[1] \in Sets THEN m[2] \in t[m[1]] ELSE t[m[1]]

\* What a patch is meant to change: the marks in which it differs from what the user sees.
Meant(patch) ==
  LET after == patch @@ shown
      told  == {m \in Marks : m[1] \in DOMAIN patch /\ Value(after, m) # Value(shown, m)}
  IN  [m \in told |-> Value(after, m)]

PickInit ==
  /\ row \in {BareRow, FullRow}
  /\ version = 1 /\ shown = row /\ seen = 1
  /\ open = TRUE /\ field = Nobody /\ calls = <<>> /\ reread = FALSE
  /\ owed = [m \in Marks |-> [value |-> Value(row, m), no |-> 0]]
  /\ nUses = 0

-----------------------------------------------------------------------------
(* Requests, as a place of the page offers them.                           *)

Request(kind, patch, meant, closes) ==
  [kind |-> kind, patch |-> patch, meant |-> meant, closes |-> closes,
   no |-> nUses + 1, version |-> seen, state |-> "sent", answer |-> [row |-> shown, version |-> seen]]
Patch(p) == Request("patch", p, Meant(p), FALSE)
Move(p)  == Request("move", p, Meant(p), FALSE)
Toggle   == Request("toggle", <<>>, <<"status", 0>> :> (IF shown.status = "done" THEN "todo" ELSE "done"), FALSE)
Skip     == Request("skip", <<>>, <<>>, FALSE)

\* A day alone gets nine o'clock with it where there is no time; without a day no time stays.
SetDay(d) ==
  IF d = NoDay THEN [due |-> NoDay, time |-> NoTime]
  ELSE IF shown.time = NoTime THEN [due |-> d, time |-> "nine"] ELSE [due |-> d]
SetTime(t) == [due |-> IF shown.due = NoDay THEN Today ELSE shown.due, time |-> t]

\* Without "end_left" an end is given to a day, and no day is cleared that has one.
MayClear == "end_left" \in Haste \/ shown.ends = NoTime
MayEnd   == "end_left" \in Haste \/ shown.due # NoDay

\* The next such weekday after today.
NextWeekday(w) == LET delta == (w - Weekday) % 7 IN Today + (IF delta = 0 THEN 7 ELSE delta)
QuickDays == {Today, Today + 1, NextWeekday(1)}
MoreDays  == {Today, Today + 1, Today + 2, NextWeekday(0), NextWeekday(1), Today + 30}

HeaderIcons ==
  {Toggle, Patch([pinned |-> ~shown.pinned]), Patch([starred |-> ~shown.starred])}

\* Both marks are turned at once, each to its opposite; the label says "both" or "neither".
BothMarks ==
  IF "half" \in Haste \/ shown.important = shown.urgent
  THEN LET both == ~(shown.important /\ shown.urgent)
       IN  {Request("patch", [important |-> ~shown.important, urgent |-> ~shown.urgent],
                    [m \in {<<"important", 0>>, <<"urgent", 0>>} |-> both], FALSE)}
  ELSE {}
Skipping == IF shown.repeat # "none" /\ shown.status # "done" THEN {Skip} ELSE {}
HeaderMenu ==
  BothMarks \cup {Toggle} \cup Skipping \cup {[Patch([archived |-> ~shown.archived]) EXCEPT !.closes = TRUE]}

\* "Done" ticks off, the two others are set.
StatusRow ==
  {Patch([status |-> s]) : s \in {"todo", "in_progress"} \ {shown.status}} \cup
  (IF shown.status = "done" THEN {} ELSE {Toggle})
EstimateRow == {Patch([estimate |-> IF shown.estimate = 15 THEN 0 ELSE 15])}
StartRow    == IF shown.start = NoDay THEN {} ELSE {Patch([start |-> NoDay])}
DateRow ==
  {Patch(SetDay(d)) : d \in QuickDays \cup MoreDays} \cup
  {Patch(SetTime(t)) : t \in {"nine", "ten", NoTime}} \cup
  (IF MayEnd THEN {Patch([ends |-> e]) : e \in {"noon", NoTime}} ELSE {}) \cup
  (IF MayClear THEN {Patch(SetDay(NoDay))} ELSE {})
ReminderRow == IF shown.due = NoDay THEN {} ELSE {Patch([remind |-> SymDiff(shown.remind, {r})]) : r \in Reminders}
MomentRow   == {Patch([at |-> a]) : a \in {"later", NoTime}}
RepeatRow ==
  {Patch([repeat |-> r]) : r \in {"none", "daily"}} \cup
  (IF shown.repeat = "none" THEN {} ELSE {Patch([from |-> f]) : f \in {"due", "done"}})
PriorityRow == {Patch([priority |-> p]) : p \in {0, 2}}
QuadrantRow == {Patch([important |-> ~shown.important]), Patch([urgent |-> ~shown.urgent])}
ListRow     == {Patch([list |-> l]) : l \in Lists}
TagRow      == {Patch([tags |-> SymDiff(shown.tags, {g})]) : g \in Tags}
\* A name that is typed is made a tag first; the patch is that of the row when it was typed.
TagNamed    == {Patch([tags |-> shown.tags \cup {g}]) : g \in Tags}
UrlRow      == IF shown.url = "" \/ field # Nobody THEN {} ELSE {Patch([url |-> ""])}

PanelOffers ==
  HeaderIcons \cup HeaderMenu \cup StatusRow \cup EstimateRow \cup StartRow \cup DateRow \cup ReminderRow \cup
  MomentRow \cup RepeatRow \cup PriorityRow \cup QuadrantRow \cup ListRow \cup TagRow \cup
  TagNamed \cup UrlRow

RowIcons  == {Toggle, Patch([pinned |-> ~shown.pinned]), Patch([starred |-> ~shown.starred])}
MenuMarks == {Patch([priority |-> p]) : p \in {0, 2}} \cup
             {Patch([important |-> ~shown.important]), Patch([urgent |-> ~shown.urgent])}
MenuDays ==
  {Move([due |-> d]) : d \in {Today, Today + 1} \cup ({Today + 5} \ {shown.due})} \cup
  (IF MayClear THEN {Move([due |-> NoDay, time |-> NoTime])} ELSE {})
MenuLists  == {Move([list |-> l]) : l \in Lists \ {shown.list}}
MenuOthers == {Patch([pinned |-> ~shown.pinned]), Patch([starred |-> ~shown.starred])} \cup Skipping
RowOffers  == RowIcons \cup MenuMarks \cup MenuDays \cup MenuLists \cup MenuOthers

-----------------------------------------------------------------------------
Versioned(c) == c.kind = "patch"
OnlyPatches  == \A i \in DOMAIN calls : Versioned(calls[i])

\* Without "crossing" requests wait for each other, unless all carry the version; without
\* "stale" the user acts on the row as it is, or on one whose version is old.
Careful(c) ==
  /\ IF "crossing" \in Haste \/ calls = <<>> THEN TRUE ELSE Versioned(c) /\ OnlyPatches
  /\ IF "stale" \in Haste \/ shown = row THEN TRUE ELSE Versioned(c) /\ seen # version

\* Ticking off shows at once.
Send(c) ==
  /\ calls' = Append(calls, c) /\ nUses' = nUses + 1
  /\ shown' = IF c.kind = "toggle" THEN [shown EXCEPT !.status = IF @ = "done" THEN "todo" ELSE "done"] ELSE shown
  /\ UNCHANGED <<row, version, seen, open, reread, owed>>

\* A field that is being edited has its use coming.
Left == nUses + (IF field = Nobody THEN 0 ELSE 1) < MaxUses

PickInPanel(c) == open /\ Careful(c) /\ Send(c) /\ UNCHANGED field
PickOnRow(c)   == Careful(c) /\ Send(c) /\ UNCHANGED field

OpenPanel ==
  /\ ~open /\ open' = TRUE
  /\ UNCHANGED <<row, version, shown, seen, field, calls, reread, owed, nUses>>

\* The title on the row, the address in the panel: a draft, kept when Enter is pressed or the
\* field is left.  An address that is there is edited from the first key on, not before.  Without "watch"
\* the field is edited as it is on the server.
EditField(f) ==
  /\ Left
  /\ field = Nobody /\ (f = "url" => open)
  /\ "watch" \notin Haste => shown[f] = row[f] /\ \A i \in DOMAIN calls : f \notin DOMAIN calls[i].patch
  /\ \E text \in {"new", ""} \cup (IF f = "url" /\ shown.url # "" THEN {} ELSE {shown[f]}) :
       field' = [of |-> f, base |-> shown[f], draft |-> text]
  /\ UNCHANGED <<row, version, shown, seen, open, calls, reread, owed, nUses>>

\* What differs from the row the page shows is saved, whether the user has typed it or not.
KeepField ==
  /\ field # Nobody /\ field' = Nobody
  /\ IF field.draft = shown[field.of] \/ (field.of = "title" /\ field.draft = "")
     THEN UNCHANGED <<row, version, shown, seen, open, calls, reread, owed, nUses>>
     ELSE LET c == Request("patch", field.of :> field.draft,
                           IF field.draft = field.base THEN <<>> ELSE <<field.of, 0>> :> field.draft, FALSE)
          IN  Careful(c) /\ Send(c)
EscapeField ==
  /\ field # Nobody /\ field' = Nobody
  /\ UNCHANGED <<row, version, shown, seen, open, calls, reread, owed, nUses>>

-----------------------------------------------------------------------------
Urgent(d) == IF d = NoDay THEN FALSE ELSE d <= Today + 1
Has(p, f) == f \in DOMAIN p

\* Priority and day draw their quadrant with them, unless the patch names it.
Drawn(p) ==
  (IF Has(p, "priority") /\ ~Has(p, "important") THEN [important |-> p.priority >= 2] ELSE <<>>) @@
  (IF Has(p, "due") /\ ~Has(p, "urgent") THEN [urgent |-> Urgent(p.due)] ELSE <<>>)
DrawnMarks(p) == [m \in {<<f, 0>> : f \in DOMAIN Drawn(p)} |-> Drawn(p)[m[1]]]

\* What is owed is what was meant last, whichever request the server takes last.
Note(meant, no) ==
  owed' = [m \in Marks |-> IF m \in DOMAIN meant /\ no > owed[m].no THEN [value |-> meant[m], no |-> no] ELSE owed[m]]

Tell(i, state) == calls' = [calls EXCEPT ![i].state = state, ![i].answer = [row |-> row', version |-> version']]
Sent(i, kind)  == i \in DOMAIN calls /\ calls[i].state = "sent" /\ calls[i].kind = kind

\* A patch of another version than the row's changes nothing.
ServerPatches(i) ==
  /\ Sent(i, "patch")
  /\ LET c == calls[i]
         p == c.patch @@ Drawn(c.patch)
     IN  IF c.version # version
         THEN UNCHANGED <<row, version, owed>> /\ Tell(i, "conflict")
         ELSE row' = p @@ row /\ version' = version + 1 /\ Note(c.meant @@ DrawnMarks(c.patch), c.no) /\ Tell(i, "taken")
  /\ UNCHANGED <<shown, seen, open, field, reread, nUses>>

\* Of a move only the day draws its quadrant with it; no version is asked for nor given.
ServerMoves(i) ==
  /\ Sent(i, "move")
  /\ LET c == calls[i] IN
     /\ row' = (c.patch @@ Drawn(c.patch)) @@ row
     /\ Note(c.meant @@ DrawnMarks(c.patch), c.no)
  /\ UNCHANGED version /\ Tell(i, "taken")
  /\ UNCHANGED <<shown, seen, open, field, reread, nUses>>

\* What is done becomes to do, all else done.
ServerToggles(i) ==
  /\ Sent(i, "toggle")
  /\ row' = [row EXCEPT !.status = IF @ = "done" THEN "todo" ELSE "done"]
  /\ Note(calls[i].meant, calls[i].no)
  /\ UNCHANGED version /\ Tell(i, "taken")
  /\ UNCHANGED <<shown, seen, open, field, reread, nUses>>

\* This time is left out: the day moves on from the one it had.
ServerSkips(i) ==
  /\ Sent(i, "skip")
  /\ IF row.repeat = "none" THEN UNCHANGED <<row, owed>> /\ UNCHANGED version /\ Tell(i, "refused")
     ELSE LET next == [due |-> IF row.due = NoDay THEN Today + 1 ELSE row.due + 1]
          IN  /\ row' = (next @@ Drawn(next)) @@ row
              /\ Note((<<"due", 0>> :> next.due) @@ DrawnMarks(next), calls[i].no)
              /\ UNCHANGED version /\ Tell(i, "taken")
  /\ UNCHANGED <<shown, seen, open, field, reread, nUses>>

-----------------------------------------------------------------------------
\* The answer is shown and the row read again; so it is after a conflict.
Answered(i) ==
  /\ i \in DOMAIN calls /\ calls[i].state # "sent"
  /\ calls' = RemoveAt(calls, i)
  /\ IF calls[i].state = "taken"
     THEN shown' = calls[i].answer.row /\ seen' = calls[i].answer.version /\ open' = (open /\ ~calls[i].closes)
     ELSE UNCHANGED <<shown, seen, open>>
  /\ reread' = (calls[i].state # "refused" \/ reread)
  /\ UNCHANGED <<row, version, field, owed, nUses>>

\* A request fails before the server has taken it; what showed at once is read again.
Fails(i) ==
  /\ i \in DOMAIN calls /\ calls[i].state = "sent"
  /\ calls' = RemoveAt(calls, i)
  /\ reread' = (calls[i].kind = "toggle" \/ reread)
  /\ UNCHANGED <<row, version, shown, seen, open, field, owed, nUses>>

Reread ==
  /\ reread /\ reread' = FALSE
  /\ shown' = row /\ seen' = version
  /\ UNCHANGED <<row, version, open, field, calls, owed, nUses>>

\* Another device patches, moves or ticks off; the page hears of it.  Without "watch" it leaves
\* alone what is being edited here.
OtherDevice ==
  /\ Left /\ nUses' = nUses + 1
  /\ "crossing" \in Haste \/ OnlyPatches
  /\ \E p \in {[title |-> "other"], [url |-> "other"], [tags |-> {}], [remind |-> {}], [priority |-> 2], [due |-> Today + 1]} :
       /\ IF field = Nobody \/ "watch" \in Haste THEN TRUE ELSE ~Has(p, field.of)
       /\ row' = (p @@ Drawn(p)) @@ row
       /\ version' \in IF Has(p, "due") /\ (calls = <<>> \/ "stale" \in Haste) THEN {version, version + 1} ELSE {version + 1}
       /\ Note([m \in {k \in Marks : k[1] \in DOMAIN (p @@ Drawn(p))} |-> Value(row', m)], nUses + 1)
  /\ reread' = TRUE
  /\ UNCHANGED <<shown, seen, open, field, calls>>

PickNext ==
  \/ Left /\ \E c \in PanelOffers : PickInPanel(c)
  \/ Left /\ \E c \in RowOffers : PickOnRow(c)
  \/ \E f \in {"title", "url"} : EditField(f)
  \/ \E i \in DOMAIN calls : \/ ServerPatches(i) \/ ServerMoves(i) \/ ServerToggles(i) \/ ServerSkips(i)
                              \/ Answered(i) \/ Fails(i)
  \/ OpenPanel \/ KeepField \/ EscapeField \/ Reread \/ OtherDevice

PickSpec == PickInit /\ [][PickNext]_pickVars

-----------------------------------------------------------------------------
PickTypeOK ==
  /\ DOMAIN row = DOMAIN BareRow /\ DOMAIN shown = DOMAIN BareRow
  /\ version \in 1 .. MaxUses + 1 /\ seen \in 1 .. MaxUses + 1
  /\ open \in BOOLEAN /\ reread \in BOOLEAN
  /\ field = Nobody \/ field.of \in {"title", "url"}
  /\ \A i \in DOMAIN calls : /\ calls[i].kind \in {"patch", "move", "toggle", "skip"}
                            /\ calls[i].state \in {"sent", "taken", "conflict", "refused"}
  /\ \A m \in Marks : owed[m].no \in 0 .. MaxUses
  /\ nUses \in 0 .. MaxUses

\* Each mark of the task is what was last meant, by whoever: no click takes back another's,
\* and a list of tags or reminders is not put back to what one page knew of it.
MarksAsMeant == \A m \in Marks : Value(row, m) = owed[m].value

\* A task without a day has neither a time nor an end.
TimeNeedsDay == row.due = NoDay => row.time = NoTime /\ row.ends = NoTime
=============================================================================
