----------------------------- MODULE HabitRules -----------------------------
(***************************************************************************)
(* What a habit asks for and how it is counted (HabitsView.tsx, habits.go): *)
(* its form, the days it is due, the cells of its map, the streaks the      *)
(* server computes.  A day is a number, day 0 a Sunday.  The board is read  *)
(* again after every operation, which HabitsBoard has in its steps.         *)
(***************************************************************************)
EXTENDS Integers, FiniteSets, FiniteSetsExt

CONSTANTS
  FirstDay,     \* day the habit may be set up on at the earliest
  LastDay,      \* bound: days
  MaxTarget,
  Weeks,        \* sets of weekdays a user may choose
  Slack,        \* of {"off_partial", "off_today"}
  NoHabit, NoDraft,
  MaxUses       \* bound

VARIABLES
  habit,        \* NoHabit, or what it asks for
  logs,         \* count of each day
  today,
  draft,        \* the form
  nUses

ruleVars == <<habit, logs, today, draft, nUses>>

Days      == 0 .. LastDay
AllDays   == 0 .. 6
Weekday(d) == d % 7
Use       == nUses < MaxUses /\ nUses' = nUses + 1
IsActive  == habit # NoHabit /\ ~habit.archived

\* A day the habit is due on: the server says it, and the page of its own.
Scheduled(h, d) ==
  /\ d >= h.start
  /\ h.cadence = "weekly" => h.weekdays = {} \/ Weekday(d) \in h.weekdays
IsDue(h, d) ==
  /\ ~(d < h.start)
  /\ h.cadence # "weekly" \/ h.weekdays = {} \/ Weekday(d) \in h.weekdays

Met(d) == logs[d] >= habit.target

RuleInit ==
  /\ habit = NoHabit /\ logs = [d \in Days |-> 0] /\ today = FirstDay /\ draft = NoDraft /\ nUses = 0

-----------------------------------------------------------------------------
EmptyDraft == [id |-> 0, cadence |-> "daily", weekdays |-> AllDays, target |-> 1, start |-> today]
DraftOf(h) == [id |-> 1, cadence |-> h.cadence, weekdays |-> IF h.weekdays = {} THEN AllDays ELSE h.weekdays,
               target |-> h.target, start |-> h.start]

OpenForm ==
  /\ draft = NoDraft /\ Use
  /\ draft' \in {EmptyDraft : x \in IF habit = NoHabit THEN {1} ELSE {}} \cup
                {DraftOf(h) : h \in {habit} \ {NoHabit}}
  /\ UNCHANGED <<habit, logs, today>>

Change(f) ==
  /\ draft # NoDraft /\ f # draft
  /\ draft' = f
  /\ UNCHANGED <<habit, logs, today, nUses>>

CloseForm ==
  /\ draft # NoDraft /\ draft' = NoDraft
  /\ UNCHANGED <<habit, logs, today, nUses>>

\* Mutant: the count is sent as it was typed.
Body_AsTyped == [cadence |-> draft.cadence, weekdays |-> IF draft.cadence = "weekly" THEN draft.weekdays ELSE {},
                 target |-> draft.target, start |-> draft.start,
                 archived |-> habit # NoHabit /\ habit.archived]

\* What the form sends: no weekdays for every day, a count from one up.
Body == [cadence |-> draft.cadence, weekdays |-> IF draft.cadence = "weekly" THEN draft.weekdays ELSE {},
         target |-> IF draft.target < 1 THEN 1 ELSE draft.target, start |-> draft.start,
         archived |-> habit # NoHabit /\ habit.archived]

\* A weekly habit without a day is refused by the form.
SaveDraft ==
  /\ draft # NoDraft /\ ~(draft.cadence = "weekly" /\ draft.weekdays = {})
  /\ draft.id = 1 => habit # NoHabit
  /\ habit' = Body /\ draft' = NoDraft
  /\ UNCHANGED <<logs, today, nUses>>

SetArchived(b) ==
  /\ habit # NoHabit /\ draft = NoDraft /\ habit.archived # b /\ Use
  /\ habit' = [habit EXCEPT !.archived = b]
  /\ UNCHANGED <<logs, today, draft>>

\* The check-ins go with the habit.
Remove ==
  /\ habit # NoHabit /\ draft = NoDraft /\ Use
  /\ habit' = NoHabit /\ logs' = [d \in Days |-> 0]
  /\ UNCHANGED <<today, draft>>

-----------------------------------------------------------------------------
\* Cells of days to come, and of an archived habit, take no click.
ToggleDay(d) ==
  /\ IsActive /\ d <= today /\ draft = NoDraft /\ Use
  /\ logs' = [logs EXCEPT ![d] = IF Met(d) THEN 0 ELSE habit.target]
  /\ UNCHANGED <<habit, today, draft>>

BumpToday ==
  /\ IsActive /\ habit.target > 1 /\ ~Met(today) /\ draft = NoDraft /\ Use
  /\ logs' = [logs EXCEPT ![today] = @ + 1]
  /\ UNCHANGED <<habit, today, draft>>

DayPasses ==
  /\ today < LastDay /\ draft = NoDraft
  /\ today' = today + 1
  /\ UNCHANGED <<habit, logs, draft, nUses>>

-----------------------------------------------------------------------------
\* habitStat of the server.
StatToday == Scheduled(habit, today) /\ Met(today)
DueDays   == {d \in Days : d <= today /\ Scheduled(habit, d)}
DoneDays  == {d \in DueDays : Met(d)}

\* The row of the day.
ToggleToday ==
  /\ IsActive /\ draft = NoDraft /\ Use
  /\ logs' = [logs EXCEPT ![today] = IF StatToday THEN 0 ELSE habit.target]
  /\ UNCHANGED <<habit, today, draft>>

\* Mutant: a day before the first one that is due does not count.
CountsBack_FromStart(d) == Scheduled(habit, d) /\ Met(d)

\* Counting back: a day that is not due counts when anything was done on it.
CountsBack(d) == IF Scheduled(habit, d) THEN Met(d) ELSE logs[d] > 0
EndsBack(d)   == IF Scheduled(habit, d) THEN ~Met(d) ELSE logs[d] = 0 /\ d < habit.start
Streak ==
  LET back[d \in -1 .. LastDay] ==
        IF d = -1 \/ (d >= 0 /\ EndsBack(d)) THEN 0
        ELSE (IF CountsBack(d) THEN 1 ELSE 0) + back[d - 1]
  IN  back[IF Met(today) THEN today ELSE today - 1]

\* Counting forward: a day counts when it is met, and only a due one that is not ends a run.
Best ==
  LET run[d \in -1 .. LastDay] ==
        IF d = -1 THEN 0
        ELSE IF ~Scheduled(habit, d) /\ logs[d] = 0 THEN run[d - 1]
        ELSE IF Met(d) THEN run[d - 1] + 1
        ELSE IF Scheduled(habit, d) THEN 0 ELSE run[d - 1]
  IN  Max({run[d] : d \in -1 .. today})

\* The state a cell of the map shows.
CellState(d) ==
  IF Met(d) THEN "done" ELSE IF logs[d] > 0 THEN "partial"
  ELSE IF d > today THEN "future" ELSE IF IsDue(habit, d) THEN "owed" ELSE "idle"

\* Checked in, but not fully, on a day that is not due; and fully, on one that is today.
PartialOff == habit # NoHabit /\ \E d \in Days : logs[d] \in 1 .. habit.target - 1 /\ ~Scheduled(habit, d)

DoneOff    == habit # NoHabit /\ Met(today) /\ ~Scheduled(habit, today)

Drafts ==
  {[draft EXCEPT !.cadence = c] : c \in {"daily", "weekly"}} \cup {[draft EXCEPT !.weekdays = w] : w \in Weeks}
    \cup {[draft EXCEPT !.target = t] : t \in 0 .. MaxTarget} \cup {[draft EXCEPT !.start = d] : d \in {FirstDay, today}}

RuleNext ==
  /\ \/ OpenForm \/ CloseForm \/ SaveDraft \/ (draft # NoDraft /\ \E f \in Drafts : Change(f))
     \/ \E b \in BOOLEAN : SetArchived(b)
     \/ Remove
     \/ \E d \in Days : ToggleDay(d)
     \/ ToggleToday \/ BumpToday \/ DayPasses
  /\ "off_partial" \notin Slack => ~PartialOff'
  /\ "off_today" \notin Slack => ~DoneOff'

-----------------------------------------------------------------------------
RuleTypeOK ==
  /\ habit = NoHabit \/ (habit.cadence \in {"daily", "weekly"} /\ habit.target \in 1 .. MaxTarget /\ habit.start \in Days)
  /\ \A d \in Days : logs[d] \in 0 .. MaxTarget
  /\ today \in FirstDay .. LastDay

\* The streak is the number of days the user was faithful since the last one he missed: no
\* day off breaks it, days made up for before the habit began count as long as they follow
\* one another, and the longest streak is never shorter than the one that lasts.
StreakHonest ==
  habit # NoHabit =>
    LET missed == {d \in 0 .. today : /\ ~Met(d) /\ d # today
                                      /\ Scheduled(habit, d) \/ (d < habit.start /\ logs[d] = 0)}
        since  == IF missed = {} THEN 0 ELSE Max(missed) + 1
    IN  /\ Streak = Cardinality({d \in since .. today : Met(d)})
        /\ Streak <= Best

\* The map shows what the rate counts, and the tick of the row what the cell of today shows.
CellsAgree ==
  habit # NoHabit =>
    /\ {d \in DueDays : CellState(d) = "done"} = DoneDays
    /\ {d \in 0 .. today : CellState(d) = "owed"} = {d \in DueDays \ DoneDays : logs[d] = 0}
    /\ StatToday <=> CellState(today) = "done"

\* A habit that is set up asks for something: it is due on a day of every week.
AsksForSomething == habit # NoHabit => \E d \in habit.start .. habit.start + 6 : Scheduled(habit, d)
=============================================================================
