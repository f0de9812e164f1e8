----------------------------- MODULE HabitsBoard ----------------------------
(***************************************************************************)
(* Checking in habits (web/src/components/HabitsView.tsx, and on the server *)
(* internal/store/habits.go).  With a connection a tap is a request of its  *)
(* own, one at a time for each habit, and the board is read again after it; *)
(* without one it is shown on the board and queued for later.               *)
(***************************************************************************)
EXTENDS Naturals, Sequences

CONSTANTS
  Habits,
  Target,     \* how often a day, of each habit
  Lapses,     \* of {"offline_full", "lost_answer", "overtake", "stale_board"}
  NoBoard,    \* model value
  MaxTaps     \* bound: what the user does, and requests that fail

VARIABLES
  logs,       \* the server's habit_logs: how often, for each habit and day
  seen,       \* the page's copy of them
  met,        \* its copy of the stats: habits whose target is met today
  wifi,
  queued,     \* check-ins waiting for the connection
  asking,     \* requests on their way
  look,       \* the board being read: NoBoard, or the logs it found
  reading,    \* whether it is being read, or the last read failed
  promised,   \* history: the counts the user was told
  nTaps

habitVars == <<logs, seen, met, wifi, queued, asking, look, reading, promised, nTaps>>

Days == {"today", "past"}

Boards == [Habits -> [Days -> Nat]]

ASSUME HabitAssumption == Target \in [Habits -> Nat] /\ NoBoard \notin Boards

\* What a request asks: one more, a count, or no record of that day.
Ops == {"more", "set", "none"}

-----------------------------------------------------------------------------
(* The server: CheckIn counts with one statement, Uncheck deletes the row.   *)

Done(b, h, d, op, n) ==
  [b EXCEPT ![h][d] = CASE op = "more" -> @ + 1 [] op = "set" -> n [] op = "none" -> 0]

MetToday(b) == {h \in Habits : b[h]["today"] >= Target[h]}

-----------------------------------------------------------------------------
HabitInit ==
  /\ logs \in {b \in [Habits -> [Days -> {0, 1}]] : \A h \in Habits : b[h]["past"] = 0}
  /\ seen = logs /\ promised = logs
  /\ met = MetToday(logs)
  /\ wifi = TRUE
  /\ queued = <<>> /\ asking = {}
  /\ look = NoBoard /\ reading = "no"
  /\ nTaps = 0

Tap == nTaps < MaxTaps /\ nTaps' = nTaps + 1

\* With a connection (run): a second tap on the same habit is ignored while the
\* first is on its way.  Without "overtake" the queue has been sent by then.
Ask(h, d, op) ==
  /\ wifi
  /\ "overtake" \notin Lapses => queued = <<>>
  /\ \A r \in asking : r.habit # h
  /\ asking' = asking \cup {[habit |-> h, day |-> d, op |-> op, stage |-> "sent"]}
  /\ UNCHANGED <<seen, queued, promised>>

\* Without one (applyLocalCheck, queueCheckIn): what is queued says the day and
\* whether to undo, not the count.  Without "offline_full" the count is one more;
\* without "stale_board" the board on the page shows the last request.
Note(h, d, undo, n) ==
  LET op == IF undo THEN "none" ELSE "set"
  IN  /\ ~wifi
      /\ "stale_board" \notin Lapses => reading = "no" /\ asking = {}
      /\ "offline_full" \in Lapses \/ undo \/ n = seen[h][d] + 1
      /\ seen' = Done(seen, h, d, op, n)
      /\ promised' = Done(promised, h, d, op, n)
      /\ queued' = Append(queued, [habit |-> h, day |-> d, undo |-> undo])
      /\ UNCHANGED asking

Check(h, d, undo) ==
  /\ Tap
  /\ \/ Ask(h, d, IF undo THEN "none" ELSE "set")
     \/ Note(h, d, undo, Target[h])
  /\ UNCHANGED <<logs, met, wifi, look, reading>>

\* The stats say whether today is met, the logs whether another day is.
ToggleToday(h)  == Check(h, "today", h \in met)
ToggleDay(h, d) == Check(h, d, seen[h][d] >= Target[h])

BumpToday(h) ==
  /\ Tap
  /\ \/ Ask(h, "today", "more")
     \/ Note(h, "today", FALSE, seen[h]["today"] + 1)
  /\ UNCHANGED <<logs, met, wifi, look, reading>>

Becomes(r, s) == asking' = (asking \ {r}) \cup {[r EXCEPT !.stage = s]}

Serve(r) ==
  /\ r.stage = "sent"
  /\ logs' = Done(logs, r.habit, r.day, r.op, Target[r.habit])
  /\ Becomes(r, "ok")
  /\ UNCHANGED <<seen, met, wifi, queued, look, reading, promised, nTaps>>

\* The request is lost, or its answer.
Fails(r) ==
  /\ \/ r.stage = "sent"
     \/ r.stage = "ok" /\ "lost_answer" \in Lapses
  /\ Tap
  /\ Becomes(r, "failed")
  /\ UNCHANGED <<logs, seen, met, wifi, queued, look, reading, promised>>

\* Mutant: a read still under way is not dropped.
Answered_LateRead(r) ==
  /\ r.stage \in {"ok", "failed"}
  /\ asking' = asking \ {r}
  /\ IF r.stage = "ok"
     THEN /\ promised' = Done(promised, r.habit, r.day, r.op, Target[r.habit])
          /\ reading' = "yes"
     ELSE UNCHANGED <<promised, reading>>
  /\ UNCHANGED <<logs, seen, met, wifi, queued, look, nTaps>>

\* The board is read again after a success; a read still under way is dropped.
Answered(r) ==
  /\ r.stage \in {"ok", "failed"}
  /\ asking' = asking \ {r}
  /\ IF r.stage = "ok"
     THEN /\ promised' = Done(promised, r.habit, r.day, r.op, Target[r.habit])
          /\ reading' = "yes" /\ look' = NoBoard
     ELSE UNCHANGED <<promised, reading, look>>
  /\ UNCHANGED <<logs, seen, met, wifi, queued, nTaps>>

-----------------------------------------------------------------------------
(* The board.                                                               *)

\* Opened again, or for another range of weeks; the copy that the service worker
\* keeps for a page without connection is left to ReadCache.
Reopen ==
  /\ Tap
  /\ "stale_board" \notin Lapses => queued = <<>>
  /\ reading' = "yes" /\ look' = NoBoard
  /\ UNCHANGED <<logs, seen, met, wifi, queued, asking, promised>>

HabitBoard ==
  /\ reading = "yes" /\ look = NoBoard
  /\ IF wifi THEN look' = logs /\ UNCHANGED reading
     ELSE reading' = "failed" /\ UNCHANGED look
  /\ UNCHANGED <<logs, seen, met, wifi, queued, asking, promised, nTaps>>

BoardLands ==
  /\ look # NoBoard
  /\ seen' = look /\ met' = MetToday(look)
  /\ look' = NoBoard /\ reading' = "no"
  /\ UNCHANGED <<logs, wifi, queued, asking, promised, nTaps>>

-----------------------------------------------------------------------------
(* The connection, and the queue (web/src/lib/offline.ts), sent in order.    *)

GoOffline ==
  /\ wifi /\ Tap
  /\ wifi' = FALSE
  /\ UNCHANGED <<logs, seen, met, queued, asking, look, reading, promised>>

GoOnline ==
  /\ ~wifi
  /\ wifi' = TRUE
  /\ UNCHANGED <<logs, seen, met, queued, asking, look, reading, promised, nTaps>>

\* replay: the server takes the first of the queue; it goes when the answer comes.
Replay ==
  /\ wifi /\ queued # <<>>
  /\ LET q == Head(queued)
     IN  logs' = Done(logs, q.habit, q.day, IF q.undo THEN "none" ELSE "more", 0)
  /\ \/ queued' = Tail(queued) /\ UNCHANGED nTaps
     \/ "lost_answer" \in Lapses /\ Tap /\ UNCHANGED queued
  /\ UNCHANGED <<seen, met, wifi, asking, look, reading, promised>>

HabitNext ==
  \/ \E h \in Habits : ToggleToday(h) \/ BumpToday(h)
  \/ \E h \in Habits, d \in Days : ToggleDay(h, d)
  \/ \E r \in asking : Serve(r) \/ Fails(r) \/ Answered(r)
  \/ Reopen \/ HabitBoard \/ BoardLands
  \/ GoOffline \/ GoOnline \/ Replay

HabitSpec == HabitInit /\ [][HabitNext]_habitVars

-----------------------------------------------------------------------------
HabitTypeOK ==
  /\ {logs, seen, promised} \subseteq Boards
  /\ met \subseteq Habits /\ wifi \in BOOLEAN /\ reading \in {"no", "yes", "failed"}
  /\ queued \in Seq([habit : Habits, day : Days, undo : BOOLEAN])
  /\ asking \subseteq [habit : Habits, day : Days, op : Ops, stage : {"sent", "ok", "failed"}]
  /\ look \in Boards \cup {NoBoard}

\* At rest the server has the counts the user was told, and the board shows them
\* unless it could not be read: a check-in made without a connection counts, and counts once.
CountsKept ==
  queued = <<>> /\ asking = {} =>
     /\ logs = promised
     /\ reading = "no" => seen = logs
=============================================================================
