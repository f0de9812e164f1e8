----------------------------- MODULE ReminderPoll -----------------------------
(***************************************************************************)
(* Reminders in the tabs of one browser (web/src/store/AppStore.tsx) and the  *)
(* ledger behind them (internal/store/reminders.go).  Every tab asks each     *)
(* half minute which reminders are due, shows a notification for those that   *)
(* are overdue and were not shown before, and tells the other tabs of it over *)
(* a BroadcastChannel.  What was shown is kept in localStorage, which a tab   *)
(* reads once and then only writes.                                           *)
(***************************************************************************)
EXTENDS Naturals, Sequences

CONSTANTS
  Tabs, Keys,      \* a key is a task or subtask with a time to fire at
  FireAt,          \* that time, per key
  SnoozeFor,       \* how long "later" puts a reminder off
  Tolerated,       \* of {"slow_mail", "stale_poll"}
  NoPoll, Waiting, \* model values
  MaxTime,         \* bound of the clock
  MaxActs          \* bound: reminders dismissed or put off, tabs loaded anew

VARIABLES
  clock,
  ledger,     \* reminder_log: fired_at is set, and snoozed_until
  stored,     \* the keys in localStorage
  known,      \* per tab: the copy it has of them
  reminders,  \* per tab: the list on the screen
  poll,       \* per tab: NoPoll, Waiting for the server, or its answer
  mail,       \* per tab: messages of the other tabs
  jobs,       \* requests to dismiss or put off a reminder
  rung,       \* history: notifications since the reminder last became due
  nActs

remindVars == <<clock, ledger, stored, known, reminders, poll, mail, jobs, rung, nActs>>

Job == [kind : {"ack", "snooze"}, key : Keys, tab : Tabs, done : BOOLEAN]
Msg == [type : {"seen", "dismiss", "snooze"}, keys : SUBSET Keys]
Hits == [all : SUBSET Keys, overdue : SUBSET Keys]

\* DueReminders: neither answered nor put off beyond now.  A reminder is listed
\* two hours ahead, which is before the first instant of the clock.
Listed(k)  == ~ledger[k].fired /\ ledger[k].until <= clock
Overdue(k) == Listed(k) /\ FireAt[k] < clock

\* Mutant: the other tabs are not told.
Tell_Nobody(t, type, keys) == t \in Tabs /\ UNCHANGED mail

Tell(t, type, keys) ==
  mail' = [u \in Tabs |-> IF u = t THEN mail[u] ELSE Append(mail[u], [type |-> type, keys |-> keys])]

\* rememberNotified and forgetNotified write the whole copy back.
Know(t, keys) ==
  /\ known' = [known EXCEPT ![t] = keys]
  /\ stored' = IF keys = known[t] THEN stored ELSE keys

Init ==
  /\ clock = 0
  /\ ledger = [k \in Keys |-> [fired |-> FALSE, until |-> 0]]
  /\ stored = {} /\ known = [t \in Tabs |-> {}]
  /\ reminders = [t \in Tabs |-> {}] /\ poll = [t \in Tabs |-> NoPoll]
  /\ mail = [t \in Tabs |-> <<>>] /\ jobs = {}
  /\ rung = [k \in Keys |-> 0] /\ nActs = 0

\* The answer to putting a reminder off comes before the time it is put off to.
Tick ==
  /\ \A j \in jobs : ~j.done
  /\ clock < MaxTime /\ clock' = clock + 1
  /\ UNCHANGED <<ledger, stored, known, reminders, poll, mail, jobs, rung, nActs>>

Act == nActs < MaxActs /\ nActs' = nActs + 1

\* A tab is loaded anew: it has what localStorage has.
Reload(t) ==
  /\ Act
  /\ \A j \in jobs : j.tab # t
  /\ "slow_mail" \notin Tolerated => \A u \in Tabs : mail[u] = <<>>
  /\ known' = [known EXCEPT ![t] = stored]
  /\ reminders' = [reminders EXCEPT ![t] = {}] /\ poll' = [poll EXCEPT ![t] = NoPoll]
  /\ mail' = [mail EXCEPT ![t] = <<>>]
  /\ UNCHANGED <<clock, ledger, stored, jobs, rung>>

PollStarts(t) ==
  /\ poll[t] = NoPoll
  /\ poll' = [poll EXCEPT ![t] = Waiting]
  /\ UNCHANGED <<clock, ledger, stored, known, reminders, mail, jobs, rung, nActs>>

ServerLists(t) ==
  /\ poll[t] = Waiting
  /\ poll' = [poll EXCEPT ![t] = [all |-> {k \in Keys : Listed(k)}, overdue |-> {k \in Keys : Overdue(k)}]]
  /\ UNCHANGED <<clock, ledger, stored, known, reminders, mail, jobs, rung, nActs>>

\* Without "slow_mail" the other tabs' messages are read before an answer.
PollLands(t) ==
  /\ poll[t] \notin {NoPoll, Waiting}
  /\ "slow_mail" \notin Tolerated => mail[t] = <<>>
  /\ LET fresh == poll[t].overdue \ known[t]
     IN  /\ Know(t, known[t] \cup fresh)
         /\ rung' = [k \in Keys |-> IF k \in fresh THEN rung[k] + 1 ELSE rung[k]]
         /\ IF fresh = {} THEN UNCHANGED mail ELSE Tell(t, "seen", fresh)
  /\ reminders' = [reminders EXCEPT ![t] = poll[t].all]
  /\ poll' = [poll EXCEPT ![t] = NoPoll]
  /\ UNCHANGED <<clock, ledger, jobs, nActs>>

\* dismissReminder: the row goes at once, and the server's answer is not awaited.
Dismiss(t, k) ==
  /\ Act
  /\ k \in reminders[t]
  /\ reminders' = [reminders EXCEPT ![t] = @ \ {k}]
  /\ jobs' = jobs \cup {[kind |-> "ack", key |-> k, tab |-> t, done |-> FALSE]}
  /\ Tell(t, "dismiss", {k})
  /\ UNCHANGED <<clock, ledger, stored, known, poll, rung>>

Snooze(t, k) ==
  /\ Act
  /\ k \in reminders[t]
  /\ jobs' = jobs \cup {[kind |-> "snooze", key |-> k, tab |-> t, done |-> FALSE]}
  /\ UNCHANGED <<clock, ledger, stored, known, reminders, poll, mail, rung>>

\* Without "stale_poll" no answer made before a reminder is put off is under way.
ServerRecords(j) ==
  /\ ~j.done
  /\ j.kind = "snooze" /\ "stale_poll" \notin Tolerated => \A t \in Tabs : poll[t] \in {NoPoll, Waiting}
  /\ ledger' = [ledger EXCEPT ![j.key] =
       IF j.kind = "ack" THEN [fired |-> TRUE, until |-> 0] ELSE [@ EXCEPT !.until = clock + SnoozeFor]]
  /\ rung' = IF j.kind = "snooze" THEN [rung EXCEPT ![j.key] = 0] ELSE rung
  /\ jobs' = (jobs \ {j}) \cup {i \in {[j EXCEPT !.done = TRUE]} : i.kind = "snooze"}
  /\ UNCHANGED <<clock, stored, known, reminders, poll, mail, nActs>>

\* The reminder that is put off counts as not shown in every tab.
SnoozeLands(j) ==
  /\ j.done
  /\ "slow_mail" \notin Tolerated => \A u \in Tabs : mail[u] = <<>>
  /\ jobs' = jobs \ {j}
  /\ reminders' = [reminders EXCEPT ![j.tab] = @ \ {j.key}]
  /\ Know(j.tab, known[j.tab] \ {j.key})
  /\ Tell(j.tab, "snooze", {j.key})
  /\ UNCHANGED <<clock, ledger, poll, rung, nActs>>

MailArrives(t) ==
  /\ mail[t] # <<>>
  /\ LET m == Head(mail[t])
     IN  /\ Know(t, IF m.type = "snooze" THEN known[t] \ m.keys ELSE known[t] \cup m.keys)
         /\ reminders' = IF m.type = "seen" THEN reminders ELSE [reminders EXCEPT ![t] = @ \ m.keys]
  /\ mail' = [mail EXCEPT ![t] = Tail(@)]
  /\ UNCHANGED <<clock, ledger, poll, jobs, rung, nActs>>

RemindNext ==
  \/ Tick
  \/ \E t \in Tabs :
       \/ Reload(t) \/ PollStarts(t) \/ ServerLists(t) \/ PollLands(t) \/ MailArrives(t)
       \/ \E k \in Keys : Dismiss(t, k) \/ Snooze(t, k)
  \/ \E j \in jobs : ServerRecords(j) \/ SnoozeLands(j)

RemindSpec == Init /\ [][RemindNext]_remindVars

RemindFairness ==
  /\ \A t \in Tabs : WF_remindVars(PollStarts(t) \/ ServerLists(t) \/ PollLands(t))
                     /\ WF_remindVars(MailArrives(t))
  /\ WF_remindVars(\E j \in jobs : ServerRecords(j) \/ SnoozeLands(j))

-----------------------------------------------------------------------------
RemindTypeOK ==
  /\ clock \in 0 .. MaxTime
  /\ ledger \in [Keys -> [fired : BOOLEAN, until : 0 .. MaxTime + SnoozeFor]]
  /\ stored \subseteq Keys /\ known \in [Tabs -> SUBSET Keys] /\ reminders \in [Tabs -> SUBSET Keys]
  /\ \A t \in Tabs : /\ poll[t] \in {NoPoll, Waiting} \/ poll[t] \in Hits
                     /\ mail[t] \in Seq(Msg)
  /\ jobs \subseteq Job

\* A reminder rings at most once in all tabs together until it is put off, and
\* not at all while it is put off.
RingsOnce ==
  \A k \in Keys : rung[k] <= IF ledger[k].until > clock THEN 0 ELSE 1

\* One that is overdue and neither answered nor put off rings in the end, also
\* the second time.
Rings ==
  \A k \in Keys : Overdue(k) ~> (rung[k] > 0 \/ ~Overdue(k))
=============================================================================
