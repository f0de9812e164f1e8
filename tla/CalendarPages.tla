--------------------------- MODULE CalendarPages ---------------------------
(***************************************************************************)
(* Turning the pages of the calendar (CalendarView.tsx, date.ts,            *)
(* calendar.ts): the days a page shows, the tasks that are fetched for it   *)
(* every time it or the data changes, and the lunar days that are fetched   *)
(* once for every range; and the field for a new task that opens in a cell  *)
(* or on the axis of a day, one text for all of them.  A day is a number;   *)
(* day 0 is the first of month 0.  A text is the number of its typing.      *)
(***************************************************************************)
EXTENDS CalendarDays, FiniteSets, SequencesExt

CONSTANTS
  Today,        \* day the calendar opens at
  NoAnswer,
  Hours,        \* places on the axis a field may be opened at
  Haste,        \* of {"crossing", "twice", "elsewhere"}
  MaxTurns,     \* bound: turns, fields opened, changes of the data, answers that fail
  MaxTexts      \* bound: texts typed

VARIABLES
  mode, anchor, weekStart,
  items,        \* the range and the revision the tasks on the page are from
  loads,        \* requests for tasks under way, the newest last
  loading, failed,
  asked,        \* requested: ranges of lunar days asked for
  wanted,       \* of those, the ones under way
  known,        \* cache of lunar days
  rev, version, \* revision of the server's data, and the one the page has heard of
  turned,       \* history: month before and after the last turn of a month
  adding,       \* where the field for a new task is open
  draft,        \* its text, the same one wherever it opens
  creating,     \* requests for new tasks under way
  typed,        \* history: texts typed so far
  given,        \* history: those the user gave up
  nMade,        \* history: tasks made of every text
  nTurns

pageVars  == <<mode, anchor, weekStart, items, loads, loading, failed, asked, wanted, known, rev,
               version, turned>>
draftVars == <<adding, draft, creating, typed, given, nMade>>

NoText == 0
NoCell == <<"none", 0>>

\* What a page shows: one day, the seven of a week, six weeks.
RangeOf(m, d, ws) ==
  CASE m = "day"   -> <<d, d>>
    [] m = "week"  -> <<RowStart(d, ws), RowStart(d, ws) + 6>>
    [] m = "month" -> LET s == RowStart(FirstOf(MonthOf(d)), ws) IN <<s, s + 41>>

Page == RangeOf(mode, anchor, weekStart)
Turn  == nTurns < MaxTurns /\ nTurns' = nTurns + 1

\* The effect of a page that changed: the request before it is not waited for any more.
Fetched(range, v) ==
  /\ loads' = Append([i \in DOMAIN loads |-> [loads[i] EXCEPT !.alive = FALSE]],
                     [range |-> range, version |-> v, alive |-> TRUE, answer |-> NoAnswer])
  /\ loading' = TRUE

\* Lunar days are asked for once for every range.
Ensured(range) ==
  IF range \in asked THEN UNCHANGED <<asked, wanted>>
  ELSE asked' = asked \cup {range} /\ wanted' = wanted \cup {range}

CalendarInit ==
  /\ mode = "month" /\ anchor = Today /\ weekStart = 1
  /\ items = [range |-> <<0, 0>>, rev |-> -1]
  /\ loads = <<[range |-> Page, version |-> 0, alive |-> TRUE, answer |-> NoAnswer]>>
  /\ loading = TRUE /\ failed = FALSE
  /\ asked = {Page} /\ wanted = {Page} /\ known = {}
  /\ rev = 0 /\ version = 0 /\ turned = <<0, 0, 0>> /\ nTurns = 0
  /\ adding = NoCell /\ draft = NoText /\ creating = <<>>
  /\ typed = 0 /\ given = {} /\ nMade = [x \in 1 .. MaxTexts |-> 0]

Shows(m, d, ws) ==
  /\ mode' = m /\ anchor' = d /\ weekStart' = ws
  /\ LET range == RangeOf(m, d, ws)
     IN  IF range = Page THEN UNCHANGED <<loads, loading, asked, wanted>>
         ELSE Fetched(range, version) /\ Ensured(range)
  /\ UNCHANGED <<items, failed, known, rev, version>>

-----------------------------------------------------------------------------
Shift(dir) ==
  /\ Turn
  /\ LET to == CASE mode = "month" -> IF MonthOf(anchor) + dir \in 1 .. Len(MonthDays) - 2
                                      THEN AddMonths(anchor, dir) ELSE anchor
                 [] mode = "week"  -> anchor + 7 * dir
                 [] mode = "day"   -> anchor + dir
     IN  /\ to \in FirstOf(1) .. FirstOf(Len(MonthDays) - 1) - 1 /\ to # anchor
         /\ Shows(mode, to, weekStart)
         /\ turned' = IF mode = "month" THEN <<MonthOf(anchor), dir, MonthOf(to)>> ELSE <<0, 0, 0>>

BackToToday ==
  /\ Turn
  /\ Shows(mode, Today, weekStart) /\ turned' = <<0, 0, 0>>

SetMode(m) ==
  /\ m # mode /\ Turn
  /\ Shows(m, anchor, weekStart) /\ turned' = <<0, 0, 0>>

\* Not offered on the page of one day.
SetWeekStart ==
  /\ mode # "day" /\ Turn
  /\ Shows(mode, anchor, 1 - weekStart) /\ turned' = <<0, 0, 0>>

ServerChanges ==
  /\ Turn
  /\ rev' = rev + 1
  /\ UNCHANGED <<mode, anchor, weekStart, items, loads, loading, failed, asked, wanted, known, version, turned>>

\* The stream or an answer raises the version, and the page fetches again.
VersionRises ==
  /\ version < rev
  /\ version' = rev
  /\ Fetched(Page, rev)
  /\ UNCHANGED <<mode, anchor, weekStart, items, failed, asked, wanted, known, rev, turned, nTurns>>

ServerReads(i) ==
  /\ loads[i].answer = NoAnswer
  /\ loads' = [loads EXCEPT ![i].answer = rev]
  /\ UNCHANGED <<mode, anchor, weekStart, items, loading, failed, asked, wanted, known, rev, version,
                 turned, nTurns>>

\* Mutant: an answer nobody waits for any more lands as well.
ListLands_Any(i) ==
  /\ loads[i].answer # NoAnswer
  /\ items' = [range |-> loads[i].range, rev |-> loads[i].answer]
  /\ loading' = (loading /\ ~loads[i].alive)
  /\ failed' = FALSE
  /\ loads' = RemoveAt(loads, i)
  /\ UNCHANGED <<mode, anchor, weekStart, asked, wanted, known, rev, version, turned, nTurns>>

ListLands(i) ==
  /\ loads[i].answer # NoAnswer
  /\ IF loads[i].alive
     THEN items' = [range |-> loads[i].range, rev |-> loads[i].answer] /\ loading' = FALSE /\ failed' = FALSE
     ELSE UNCHANGED <<items, loading, failed>>
  /\ loads' = RemoveAt(loads, i)
  /\ UNCHANGED <<mode, anchor, weekStart, asked, wanted, known, rev, version, turned, nTurns>>

\* Nothing is said: the tasks of the page before stay in memory.
ListFails(i) ==
  /\ Turn
  /\ IF loads[i].alive THEN loading' = FALSE /\ failed' = TRUE ELSE UNCHANGED <<loading, failed>>
  /\ loads' = RemoveAt(loads, i)
  /\ UNCHANGED <<mode, anchor, weekStart, items, asked, wanted, known, rev, version, turned>>

LunarLands(range) ==
  /\ wanted' = wanted \ {range}
  /\ known' = known \cup (range[1] .. range[2])
  /\ UNCHANGED <<mode, anchor, weekStart, items, loads, loading, failed, asked, rev, version, turned, nTurns>>

\* The range may be asked for again, when a page with it is next turned to.
LunarFails(range) ==
  /\ Turn
  /\ wanted' = wanted \ {range} /\ asked' = asked \ {range}
  /\ UNCHANGED <<mode, anchor, weekStart, items, loads, loading, failed, known, rev, version, turned>>

PageNext ==
  \/ \E dir \in {-1, 1} : Shift(dir)
  \/ BackToToday \/ SetWeekStart \/ \E m \in {"day", "week", "month"} : SetMode(m)
  \/ ServerChanges \/ VersionRises
  \/ \E i \in DOMAIN loads : ServerReads(i) \/ ListLands(i) \/ ListFails(i)
  \/ \E range \in wanted : LunarLands(range) \/ LunarFails(range)

-----------------------------------------------------------------------------
\* The field for a new task: what a submission waits for is in AddForms; here it is where the
\* field opens, closes and shows while pages turn.
\* A press elsewhere takes the focus from the field, and an empty one closes.
AfterBlur == IF draft = NoText THEN NoCell ELSE adding
GivenUp   == given \cup ({draft} \ {NoText})

\* The plus of a cell, which closes the field as well.
OpenInCell(d) ==
  /\ mode # "day" /\ Turn
  /\ adding' = IF AfterBlur = <<"day", d>> THEN NoCell ELSE <<"day", d>>
  /\ given' = IF AfterBlur = <<"day", d>> THEN GivenUp ELSE given
  /\ UNCHANGED <<draft, creating, typed, nMade>>

\* A press on the axis empties the field unless it is open there.
OpenOnAxis(h) ==
  /\ mode = "day" /\ Turn
  /\ "elsewhere" \notin Haste => AfterBlur = <<"time", h>> \/ draft \in given \cup {NoText}
  /\ draft' = IF AfterBlur = <<"time", h>> THEN draft ELSE NoText
  /\ adding' = <<"time", h>>
  /\ UNCHANGED <<creating, typed, given, nMade>>

\* The field is in sight where the page shows the place it was opened at.
FieldShown ==
  \/ mode = "day" /\ adding[1] = "time"
  \/ mode # "day" /\ adding[1] = "day" /\ adding[2] \in Page[1] .. Page[2]

\* Without "crossing" nothing is typed while an answer is awaited.
TypeText ==
  /\ FieldShown /\ typed < MaxTexts
  /\ "crossing" \notin Haste => creating = <<>>
  /\ typed' = typed + 1 /\ draft' = typed + 1 /\ given' = GivenUp
  /\ UNCHANGED <<adding, creating, nMade, nTurns>>

\* The cross beside the field, Escape on the axis, and Enter or a press elsewhere when it
\* is empty: the text stays for the field that opens next.
CloseField ==
  /\ FieldShown
  /\ adding' = NoCell /\ given' = GivenUp
  /\ UNCHANGED <<draft, creating, typed, nMade, nTurns>>

\* Enter; the field stays as it is until the answer.  Without "twice" it is pressed once.
SubmitDraft ==
  /\ FieldShown /\ draft # NoText
  /\ Len(creating) < 2
  /\ "twice" \notin Haste => creating = <<>>
  /\ creating' = Append(creating, draft)
  /\ UNCHANGED <<adding, draft, typed, given, nMade, nTurns>>

\* The answer closes the field and empties it; the one that fails leaves both.
DraftAnswered(i, ok) ==
  /\ IF ok
     THEN /\ nMade' = [nMade EXCEPT ![creating[i]] = @ + 1]
          /\ draft' = NoText /\ adding' = NoCell /\ rev' = rev + 1
     ELSE UNCHANGED <<nMade, draft, adding, rev>>
  /\ creating' = RemoveAt(creating, i)
  /\ UNCHANGED <<typed, given, nTurns>>

DraftNext ==
  \/ /\ \/ \E d \in {anchor, Page[1]} : OpenInCell(d)
        \/ \E h \in Hours : OpenOnAxis(h)
        \/ TypeText \/ CloseField \/ SubmitDraft
     /\ UNCHANGED pageVars
  \/ /\ \E i \in DOMAIN creating, ok \in BOOLEAN : DraftAnswered(i, ok)
     /\ UNCHANGED <<mode, anchor, weekStart, items, loads, loading, failed, asked, wanted, known,
                    version, turned>>

CalendarNext == (PageNext /\ UNCHANGED draftVars) \/ DraftNext

-----------------------------------------------------------------------------
CalendarTypeOK ==
  /\ mode \in {"day", "week", "month"} /\ anchor \in Days /\ weekStart \in {0, 1}
  /\ {loading, failed} \subseteq BOOLEAN /\ wanted \subseteq asked /\ known \subseteq Days
  /\ version \in 0 .. rev
  /\ adding \in {NoCell} \cup ({"day"} \X Days) \cup ({"time"} \X Hours)
  /\ draft \in 0 .. typed /\ given \subseteq 1 .. typed

\* A page has whole weeks, all days of its month and the day it stands at; turning it by a
\* month turns it by one.
PageIsWhole ==
  /\ anchor \in Page[1] .. Page[2]
  /\ mode # "day" => Weekday(Page[1]) = weekStart /\ (Page[2] - Page[1] + 1) % 7 = 0
  /\ mode = "month" => FirstOf(MonthOf(anchor)) .. FirstOf(MonthOf(anchor) + 1) - 1 \subseteq Page[1] .. Page[2]
  /\ turned[3] = turned[1] + turned[2]

\* The tasks on a page that does not say it is loading are of its range, as new as the
\* last change it has heard of, unless the request for them failed; and it says it is
\* loading only while somebody will tell it to stop.
PageIsFresh ==
  /\ ~loading /\ ~failed => items.range = Page /\ items.rev >= version
  /\ loading => loads # <<>> /\ Last(loads).alive

\* A range that was asked for and did not fail is known in full.
LunarComplete ==
  \A range \in asked \ wanted : range[1] .. range[2] \subseteq known

\* A text that was typed is in the field, or became one task, or the user gave it up.
DraftKept ==
  /\ \A x \in 1 .. typed : x = draft \/ x \in given \/ nMade[x] > 0
  /\ \A x \in 1 .. typed : nMade[x] <= 1
=============================================================================
