----------------------------- MODULE MorningPlan -----------------------------
(***************************************************************************)
(* The morning dialog (MorningPlan in web/src/components/Overlays.tsx): it  *)
(* shows lists of its own, read again after every operation on a row, and   *)
(* saves the day's picks with saveSettings (web/src/store/AppStore.tsx),    *)
(* which sends all settings.  The inbox is left out: its rows are like      *)
(* those of the other two lists.  BulkWrites has the steps of "all to       *)
(* today".                                                                  *)
(***************************************************************************)
EXTENDS Naturals, FiniteSets, Sequences

CONSTANTS
  Agenda,      \* the tasks
  MostPicks,   \* 3 in the source
  Slips,       \* of {"lists_cross", "list_fails", "puts_cross", "put_fails", "pick_busy"}
  MaxClicks    \* bound: operations, picks, openings

VARIABLES
  plan,        \* the server: day and state of each task
  lateRows, todayRows,  \* what the dialog shows, without what is done
  runs,        \* operations on a row under way; the set acting is their rows
  loads,       \* reloads under way, oldest first: two lists, Unread until the server has read them
  shown,       \* whether the dialog is open
  picked,
  settings, stored,     \* the settings of the page, of the server
  puts,        \* saveSettings under way, oldest first, and which of the saves each is
  starting,    \* start: whether it is busy, and the settings it saw
  finished,    \* ghost: tasks completed here
  nClicks

planVars == <<plan, lateRows, todayRows, runs, loads, shown, picked, settings, stored, puts,
              starting, finished, nClicks>>

Unread   == {"unread"}
Resting  == [busy |-> FALSE, saw |-> [focus |-> {}, planned |-> FALSE]]
DaysOf   == {"late", "today", "later"}
Settings == [focus : SUBSET Agenda, planned : BOOLEAN]
Open(day) == {t \in Agenda : plan[t].day = day /\ ~plan[t].done}

Init ==
  /\ plan \in [Agenda -> [day : {"late"}, done : {FALSE}]]
  /\ lateRows = {} /\ todayRows = {}
  /\ runs = {} /\ loads = <<>> /\ puts = <<>>
  /\ shown = FALSE /\ picked = {} /\ finished = {}
  /\ settings = [focus |-> {}, planned |-> FALSE] /\ stored = settings
  /\ starting = Resting /\ nClicks = 0

Click == nClicks < MaxClicks /\ nClicks' = nClicks + 1

-----------------------------------------------------------------------------
(* The rows.                                                               *)

rowVars == <<plan, lateRows, todayRows, runs, finished>>
setVars == <<picked, settings, stored, puts, starting>>

Without(seq, i) == SubSeq(seq, 1, i - 1) \o SubSeq(seq, i + 1, Len(seq))

Reload(by) == loads' = Append(loads, [by |-> by, late |-> Unread, today |-> Unread])

\* The dialog opens with the rows it was closed with.
OpenPlan ==
  /\ ~shown /\ Click /\ shown' = TRUE
  /\ picked' = settings.focus
  /\ Reload({})
  /\ UNCHANGED <<rowVars, settings, stored, puts, starting>>

ClosePlan ==
  /\ shown /\ shown' = FALSE
  /\ UNCHANGED <<rowVars, loads, setVars, nClicks>>

\* Mutant: no look at acting.
Acting_Nobody == {}

\* A second click on a row before its reload has come is ignored.
Acting == {r.task : r \in runs}

RunOp(t, op) ==
  /\ shown /\ Click
  /\ t \in lateRows \cup todayRows
  /\ op = "today" => t \in lateRows
  /\ t \notin Acting
  /\ runs' = runs \cup {[task |-> t, op |-> op, sent |-> FALSE]}
  /\ UNCHANGED <<plan, lateRows, todayRows, finished, loads, shown, setVars>>

\* toggleTask turns the state round, whatever the dialog shows.
Served(row, op) ==
  CASE op = "toggle" -> [row EXCEPT !.done = ~@]
    [] op = "today"  -> [row EXCEPT !.day = "today"]
    [] op = "later"  -> [row EXCEPT !.day = "later"]

\* moveTask and toggleTask tell of a refusal and return; the lists are read anyway.
ServeOp(r) ==
  /\ ~r.sent
  /\ \/ /\ plan' = [plan EXCEPT ![r.task] = Served(@, r.op)]
        /\ finished' = IF r.op = "toggle" THEN finished \cup {r.task} ELSE finished
     \/ UNCHANGED <<plan, finished>>
  /\ runs' = (runs \ {r}) \cup {[r EXCEPT !.sent = TRUE]}
  /\ Reload({r.task})
  /\ UNCHANGED <<lateRows, todayRows, shown, setVars, nClicks>>

\* rollAllOverdue, once it is confirmed; a refusal leaves the lists.
RollAll ==
  /\ shown /\ Click /\ lateRows # {}
  /\ plan' = [t \in Agenda |-> IF t \in Open("late") THEN [plan[t] EXCEPT !.day = "today"] ELSE plan[t]]
  /\ Reload({})
  /\ UNCHANGED <<lateRows, todayRows, runs, finished, shown, setVars>>

\* Promise.all: two requests, read by the server one after the other in any order.
ServeList(i) ==
  /\ \/ loads[i].late = Unread /\ loads' = [loads EXCEPT ![i].late = Open("late")]
     \/ loads[i].today = Unread /\ loads' = [loads EXCEPT ![i].today = Open("today")]
  /\ UNCHANGED <<rowVars, shown, setVars, nClicks>>

Over(i) ==
  /\ loads' = Without(loads, i)
  /\ runs' = {r \in runs : r.task \notin loads[i].by}
  /\ UNCHANGED <<plan, finished, shown, setVars, nClicks>>

\* reload has no number: the last to arrive stays.
LoadLands(i) ==
  /\ loads[i].late # Unread /\ loads[i].today # Unread
  /\ i = 1 \/ "lists_cross" \in Slips
  /\ lateRows' = loads[i].late /\ todayRows' = loads[i].today
  /\ Over(i)

LoadFails(i) ==
  /\ "list_fails" \in Slips
  /\ UNCHANGED <<lateRows, todayRows>>
  /\ Over(i)

-----------------------------------------------------------------------------
(* The picks.                                                              *)

\* saveSettings: the patch over the settings the closure saw, all of them sent.
SaveSettings(next, by) ==
  /\ settings' = next
  /\ puts' = Append(puts, [by |-> by, kv |-> next])

TogglePick(t) ==
  /\ shown /\ Click
  /\ t \in lateRows \cup todayRows
  /\ starting.busy => "pick_busy" \in Slips
  /\ t \in picked \/ Cardinality(picked) < MostPicks
  /\ picked' = (picked \ {t}) \cup ({t} \ picked)
  /\ SaveSettings([settings EXCEPT !.focus = picked'], "pick")
  /\ UNCHANGED <<rowVars, loads, shown, stored, starting>>

Start ==
  /\ shown /\ ~starting.busy /\ Click
  /\ SaveSettings([settings EXCEPT !.focus = picked], "begin")
  /\ starting' = [busy |-> TRUE, saw |-> settings]
  /\ UNCHANGED <<rowVars, loads, shown, picked, stored>>

\* start goes on when its save has been answered: the second save is made by the
\* closure of the render the button was pressed in, then the dialog closes.
GoesOn(i) ==
  LET rest == Without(puts, i)
      next == [starting.saw EXCEPT !.planned = TRUE]
  IN  CASE puts[i].by = "pick"  -> puts' = rest /\ UNCHANGED <<settings, starting, shown>>
        [] puts[i].by = "begin" -> /\ puts' = Append(rest, [by |-> "end", kv |-> next])
                                   /\ settings' = next
                                   /\ UNCHANGED <<starting, shown>>
        [] puts[i].by = "end"   -> /\ puts' = rest
                                   /\ starting' = Resting /\ shown' = FALSE
                                   /\ UNCHANGED settings

PutServed(i) ==
  /\ i = 1 \/ "puts_cross" \in Slips
  /\ stored' = puts[i].kv
  /\ GoesOn(i)
  /\ UNCHANGED <<rowVars, loads, picked, nClicks>>

\* The user is told; the page keeps what it has set.
PutFails(i) ==
  /\ "put_fails" \in Slips
  /\ GoesOn(i)
  /\ UNCHANGED <<rowVars, loads, picked, stored, nClicks>>

PlanNext ==
  \/ OpenPlan \/ ClosePlan \/ RollAll \/ Start
  \/ \E t \in Agenda : TogglePick(t) \/ \E op \in {"toggle", "today", "later"} : RunOp(t, op)
  \/ \E r \in runs : ServeOp(r)
  \/ \E i \in DOMAIN loads : ServeList(i) \/ LoadLands(i) \/ LoadFails(i)
  \/ \E i \in DOMAIN puts : PutServed(i) \/ PutFails(i)

PlanSpec == Init /\ [][PlanNext]_planVars

-----------------------------------------------------------------------------
PlanTypeOK ==
  /\ plan \in [Agenda -> [day : DaysOf, done : BOOLEAN]]
  /\ lateRows \subseteq Agenda /\ todayRows \subseteq Agenda /\ finished \subseteq Agenda
  /\ runs \subseteq [task : Agenda, op : {"toggle", "today", "later"}, sent : BOOLEAN]
  /\ shown \in BOOLEAN /\ picked \subseteq Agenda
  /\ settings \in Settings /\ stored \in Settings
  /\ puts \in Seq([by : {"pick", "begin", "end"}, kv : Settings])
  /\ starting \in [busy : BOOLEAN, saw : Settings]

\* What is ticked off in the dialog stays so, however often the row is clicked and in
\* whatever order operations on several rows and the lists after them go on.
DoneStaysDone == \A t \in finished : plan[t].done

\* When no save is under way, the picks of the dialog are those of the page and of the
\* server, after its two saves too.
PicksKept ==
  puts = <<>> => stored = settings /\ settings.focus = picked
=============================================================================
