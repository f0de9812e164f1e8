------------------------------ MODULE FocusTimer -----------------------------
(***************************************************************************)
(* The focus countdown (web/src/store/AppStore.tsx, the panel and the       *)
(* floating indicator of Overlays.tsx, the button of TaskDetail.tsx) and    *)
(* the sessions the server keeps (internal/store/stats.go).  Time is        *)
(* counted in half minutes: the code rounds to whole ones.                  *)
(***************************************************************************)
EXTENDS Naturals, FiniteSets

CONSTANTS
  FocusTasks,
  Nobody,        \* model value: a session without a task
  Lengths,       \* what the panel offers
  DetailLength,  \* what the button of a task starts
  MaxTime        \* bound: half minutes that pass

VARIABLES
  focus,         \* the countdown
  now,
  began,         \* when it was started
  adding,        \* sessions on their way to the server
  sessions       \* sessions the server has

focusVars == <<focus, now, began, adding, sessions>>

Stopped == [task |-> Nobody, length |-> DetailLength, running |-> FALSE,
            endsAt |-> 0, remaining |-> DetailLength]

Init ==
  /\ focus = Stopped
  /\ now = 0 /\ began = 0
  /\ adding = {} /\ sessions = {}

Elapsed == focus.length - focus.remaining

\* What the page sends: whole minutes, and nothing below one.
Session == [task |-> focus.task, minutes |-> (Elapsed + 1) \div 2, from |-> began, to |-> now]

StartFocus(t, n) ==
  /\ focus' = [task |-> t, length |-> n, running |-> TRUE, endsAt |-> now + n, remaining |-> n]
  /\ began' = now
  /\ UNCHANGED <<now, adding, sessions>>

StartInPanel == ~focus.running /\ \E t \in FocusTasks \cup {Nobody}, n \in Lengths : StartFocus(t, n)

\* The button of a task starts a session whether or not one is running.
StartInDetail == \E t \in FocusTasks : StartFocus(t, DetailLength)

\* Mutant: the end is recorded and the countdown goes on standing at zero.
FocusFinish_Stays == adding' = adding \cup {Session}

\* focusFinishRef holds an empty function, whatever render it is called from.
FocusFinish == UNCHANGED adding

\* The interval: a tick may be late, in a hidden page by minutes.  The effect that
\* follows a change of the remaining time calls focusFinishRef at zero.
TickFocus ==
  /\ focus.running
  /\ focus' = [focus EXCEPT !.remaining = IF focus.endsAt > now THEN focus.endsAt - now ELSE 0]
  /\ IF focus.remaining # 0 /\ focus'.remaining = 0 THEN FocusFinish ELSE UNCHANGED adding
  /\ UNCHANGED <<now, began, sessions>>

TimePasses ==
  /\ now < MaxTime /\ now' = now + 1
  /\ UNCHANGED <<focus, began, adding, sessions>>

\* "Give up" and "end early and record", both only in the panel.
StopFocus(completed) ==
  /\ focus.running
  /\ focus' = Stopped
  /\ adding' = IF completed /\ Elapsed >= 2 THEN adding \cup {Session} ELSE adding
  /\ UNCHANGED <<now, began, sessions>>

\* A refusal is shown to the user and the session is not sent again.
AddFocus(s) ==
  /\ adding' = adding \ {s}
  /\ sessions' \in {sessions, sessions \cup {s}}
  /\ UNCHANGED <<focus, now, began>>

FocusNext ==
  \/ StartInPanel \/ StartInDetail \/ TickFocus \/ TimePasses
  \/ \E completed \in BOOLEAN : StopFocus(completed)
  \/ \E s \in adding : AddFocus(s)

FocusSpec == Init /\ [][FocusNext]_focusVars

-----------------------------------------------------------------------------
FocusTypeOK ==
  /\ focus \in [task : FocusTasks \cup {Nobody}, length : Lengths \cup {DetailLength},
                running : BOOLEAN, endsAt : Nat, remaining : Nat]
  /\ now \in 0 .. MaxTime /\ began \in 0 .. MaxTime
  /\ adding \cup sessions \subseteq
       [task : FocusTasks \cup {Nobody}, minutes : Nat, from : Nat, to : Nat]

\* No minute is counted for two sessions, and none that has not passed, however
\* late the ticks are and wherever a session is started.
TimeCountedOnce ==
  \A s \in adding \cup sessions :
     /\ 2 * s.minutes <= s.to - s.from + 1
     /\ \A other \in (adding \cup sessions) \ {s} : s.to <= other.from \/ other.to <= s.from
=============================================================================
