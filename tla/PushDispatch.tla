---------------------------- MODULE PushDispatch ----------------------------
(***************************************************************************)
(* The scheduler that pushes reminders and the daily summary to the        *)
(* outside, through Apprise and through Web Push.                          *)
(*                                                                         *)
(*   internal/push/push.go      tick and what it calls                     *)
(*   internal/store/push.go     push_log: attempts, and what is done       *)
(*   internal/store/webpush.go  the subscriptions                          *)
(*                                                                         *)
(* One goroutine runs tick every 30 seconds; one unit of the clock is that *)
(* time.  A tick is four rounds, one after the other: reminders and daily  *)
(* summary through Apprise, then both through Web Push.  Every message     *)
(* sent and every write to the log is a step; meanwhile time passes, users *)
(* acknowledge reminders, subscriptions expire, and the server may restart.*)
(***************************************************************************)
EXTENDS Integers

CONSTANTS
  Reminders,   \* keys "R|id|time" of push_log
  Daily,       \* the key "D|day"
  Devices,     \* endpoints of Web Push
  LookBack,    \* how long a reminder is pushed after its time
  MaxAttempts, \* pushMaxAttempts
  Faults,      \* what may go wrong, from AllFaults
  MaxTime,     \* bound: the clock
  MaxCrashes   \* bound: restarts of the server

\* A message fails; one fails for the sender but has arrived; an endpoint expires; a
\* statement on the database fails.
AllFaults == {"fails", "unclear", "expires", "storage"}

NoKey == "none"

ASSUME ConstantsAssumption ==
  /\ Daily \notin Reminders /\ NoKey \notin Reminders \union {Daily}
  /\ Faults \subseteq AllFaults
  /\ LookBack \in Nat /\ MaxAttempts \in Nat \ {0}
  /\ MaxTime \in Nat /\ MaxCrashes \in Nat

Keys == Reminders \union {Daily}

VARIABLES
  now,      \* the clock
  fireAt,   \* reminder: its time; Daily: the time of the daily summary
  handled,  \* reminders acknowledged, snoozed, or of a task that is completed
  busy,     \* whether the day has open or overdue tasks
  subs,     \* table push_subscriptions
  expired,  \* the endpoints the push service has given up
  log,      \* table push_log: attempts and ok, by key
  round,    \* which round the tick is in, or "idle"
  at,       \* the time the tick began; between ticks that of the last one
  todo,     \* the keys this round has still to look at
  key,      \* the key it is busy with, or NoKey
  to,       \* the subscriptions read when the round began
  left,     \* those the message has still to be sent to
  anyOK,    \* broadcast: at least one success
  sent,     \* pushReminders: appriseOK
  apprise,  \* ghost: how often each key was delivered by Apprise
  web,      \* ghost: how often each key was delivered to each device
  tries,    \* ghost: how often Apprise tried each key
  offered,  \* ghost: the keys Web Push has tried
  crashes   \* bound counter

tick == <<round, at, todo, key, to, left, anyOK, sent>>
env  == <<now, fireAt, handled, busy, expired>>
gone == <<apprise, web, tries, offered>>
vars == <<now, fireAt, handled, busy, subs, expired, log, round, at, todo, key, to, left,
          anyOK, sent, apprise, web, tries, offered, crashes>>

AppriseRound == round \in {"apprise", "appriseDaily"}
WebRound     == round \in {"web", "webDaily"}

\* Mutant: only failures are counted.
Done_NotOk(k) == log[k].attempts >= MaxAttempts

\* PushState: delivered, or the attempts are used up.
Done(k) == log[k].ok \/ log[k].attempts >= MaxAttempts

\* RecordPush.
Succeeded(k) == log' = [log EXCEPT ![k] = [ok |-> TRUE,
                          attempts |-> IF @.attempts = 0 THEN 1 ELSE @.attempts]]
Failed(k)    == log' = [log EXCEPT ![k] = [ok |-> FALSE, attempts |-> @.attempts + 1]]

\* The callers of RecordPush go on when it fails.
Unlogged  == "storage" \in Faults /\ UNCHANGED log

-----------------------------------------------------------------------------
(* The rounds of a tick.                                                   *)

\* DueReminders at time t, with look-ahead 0.
Hits(t) == {k \in Reminders \ handled : fireAt[k] <= t /\ t <= fireAt[k] + LookBack}

\* The summary is due from its time on, all day.
DailyDue(t) == IF fireAt[Daily] <= t THEN {Daily} ELSE {}

Enter(r, t) ==
  /\ round' = r /\ key' = NoKey /\ left' = {} /\ anyOK' = FALSE
  /\ todo' = CASE r \in {"apprise", "web"}           -> Hits(t)
               [] r \in {"appriseDaily", "webDaily"} -> DailyDue(t)
               [] r = "idle"                         -> {}
  /\ to' = IF r \in {"web", "webDaily"} THEN subs ELSE {}

\* The ticker fires once in a unit.  With the switch of Apprise off, or without
\* addresses, straight to Web Push.
BeginTick ==
  /\ round = "idle" /\ at < now
  /\ at' = now /\ sent' = FALSE
  /\ \E r \in {"apprise", "web"} : Enter(r, now)
  /\ UNCHANGED <<env, subs, log, gone, crashes>>

\* Only reminders count: a delivered summary does not keep Web Push from running.
AfterApprise == IF sent THEN "idle" ELSE "web"

\* The summary may be switched off.
NextRound ==
  /\ round # "idle" /\ todo = {} /\ key = NoKey
  /\ \E r \in CASE round = "apprise"      -> {"appriseDaily", AfterApprise}
                [] round = "appriseDaily" -> {AfterApprise}
                [] round = "web"          -> {"webDaily", "idle"}
                [] round = "webDaily"     -> {"idle"} : Enter(r, at)
  /\ UNCHANGED <<env, subs, log, at, sent, gone, crashes>>

\* Nothing to do for a key, or its state (or the summary) cannot be read.
Skip ==
  /\ key = NoKey
  /\ \E k \in todo : (Done(k) \/ "storage" \in Faults) /\ todo' = todo \ {k}
  /\ UNCHANGED <<env, subs, log, round, at, key, to, left, anyOK, sent, gone, crashes>>

\* A day without tasks is recorded and not pushed; Web Push takes one whose summary it
\* cannot read for such a day.
EmptyDay ==
  /\ key = NoKey /\ Daily \in todo /\ ~Done(Daily)
  /\ ~busy \/ (round = "webDaily" /\ "storage" \in Faults)
  /\ round = "webDaily" => to # {}
  /\ Succeeded(Daily) \/ Unlogged
  /\ todo' = todo \ {Daily}
  /\ UNCHANGED <<env, subs, round, at, key, to, left, anyOK, sent, gone, crashes>>

-----------------------------------------------------------------------------
(* Apprise.                                                                *)

\* Not yet done; for the summary, there is something to tell.
Wanted(k) == ~Done(k) /\ (k = Daily => busy)

Tried(k) == tries' = [tries EXCEPT ![k] = @ + 1]

AppriseSends ==
  /\ AppriseRound /\ key = NoKey
  /\ \E k \in todo :
       /\ Wanted(k)
       /\ apprise' = [apprise EXCEPT ![k] = @ + 1]
       /\ Tried(k)
       /\ key' = k
  /\ UNCHANGED <<env, subs, log, round, at, todo, to, left, anyOK, sent, web, offered,
                 crashes>>

\* The success is written in a statement of its own.
AppriseRecords ==
  /\ AppriseRound /\ key # NoKey
  /\ Succeeded(key) \/ Unlogged
  /\ sent' = (sent \/ round = "apprise")
  /\ todo' = todo \ {key} /\ key' = NoKey
  /\ UNCHANGED <<env, subs, round, at, to, left, anyOK, gone, crashes>>

\* An error: the attempt is counted.  The message may have arrived all the same.
AppriseFails ==
  /\ AppriseRound /\ key = NoKey
  /\ \E k \in todo :
       /\ Wanted(k)
       /\ \/ "fails" \in Faults /\ UNCHANGED apprise
          \/ "unclear" \in Faults /\ apprise' = [apprise EXCEPT ![k] = @ + 1]
       /\ Tried(k)
       /\ Failed(k) \/ Unlogged
       /\ todo' = todo \ {k}
  /\ UNCHANGED <<env, subs, round, at, key, to, left, anyOK, sent, web, offered, crashes>>

-----------------------------------------------------------------------------
(* Web Push.                                                               *)

\* Without subscriptions the round is over.
NoSubscribers ==
  /\ WebRound /\ key = NoKey /\ todo # {} /\ to = {}
  /\ todo' = {}
  /\ UNCHANGED <<env, subs, log, round, at, key, to, left, anyOK, sent, gone, crashes>>

BroadcastBegins ==
  /\ WebRound /\ key = NoKey /\ to # {}
  /\ \E k \in todo : Wanted(k) /\ key' = k /\ offered' = offered \union {k}
  /\ left' = to /\ anyOK' = FALSE
  /\ UNCHANGED <<env, subs, log, round, at, todo, to, sent, apprise, web, tries, crashes>>

\* One subscription after the other: the message arrives ...
WebSends ==
  /\ WebRound /\ key # NoKey
  /\ \E d \in left \ expired :
       /\ web' = [web EXCEPT ![key][d] = @ + 1]
       /\ left' = left \ {d}
  /\ anyOK' = TRUE
  /\ UNCHANGED <<env, subs, log, round, at, todo, key, to, sent, apprise, tries, offered,
                 crashes>>

\* ... or fails (it may have arrived all the same) ...
WebFails ==
  /\ WebRound /\ key # NoKey
  /\ \E d \in left :
       /\ \/ "fails" \in Faults /\ UNCHANGED web
          \/ "unclear" \in Faults /\ d \notin expired
             /\ web' = [web EXCEPT ![key][d] = @ + 1]
       /\ left' = left \ {d}
  /\ UNCHANGED <<env, subs, log, round, at, todo, key, to, anyOK, sent, apprise, tries,
                 offered, crashes>>

\* ... or the endpoint turns out to be gone.
WebGone ==
  /\ WebRound /\ key # NoKey
  /\ \E d \in left \intersect expired :
       /\ subs' = subs \ {d} \/ ("storage" \in Faults /\ UNCHANGED subs)
       /\ left' = left \ {d}
  /\ anyOK' = FALSE
  /\ UNCHANGED <<env, log, round, at, todo, key, to, sent, gone, crashes>>

\* Mutant: recorded as delivered whatever became of it.
BroadcastEnds_Always ==
  /\ WebRound /\ key # NoKey /\ left = {}
  /\ Succeeded(key)
  /\ todo' = todo \ {key} /\ key' = NoKey
  /\ UNCHANGED <<env, subs, round, at, to, left, anyOK, sent, gone, crashes>>

\* Mutant: a success is not written down.
BroadcastEnds_Forgets ==
  /\ WebRound /\ key # NoKey /\ left = {}
  /\ todo' = todo \ {key} /\ key' = NoKey
  /\ UNCHANGED <<env, subs, log, round, at, to, left, anyOK, sent, gone, crashes>>

\* A failure is not counted on this channel.
BroadcastEnds ==
  /\ WebRound /\ key # NoKey /\ left = {}
  /\ IF anyOK THEN Succeeded(key) \/ Unlogged ELSE UNCHANGED log
  /\ todo' = todo \ {key} /\ key' = NoKey
  /\ UNCHANGED <<env, subs, round, at, to, left, anyOK, sent, gone, crashes>>

-----------------------------------------------------------------------------
(* Around the scheduler.                                                   *)

Advance ==
  /\ now < MaxTime /\ now' = now + 1
  /\ UNCHANGED <<fireAt, handled, busy, subs, expired, log, tick, gone, crashes>>

\* Acknowledged, snoozed, completed ...
Handle(k) ==
  /\ k \notin handled /\ handled' = handled \union {k}
  /\ UNCHANGED <<now, fireAt, busy, subs, expired, log, tick, gone, crashes>>

\* ... and due again when the snooze ends, or the task is reopened.
Return(k) ==
  /\ k \in handled /\ handled' = handled \ {k}
  /\ UNCHANGED <<now, fireAt, busy, subs, expired, log, tick, gone, crashes>>

\* An endpoint the push service gives up stays so: a new subscription has a new one.
Expire(d) ==
  /\ "expires" \in Faults /\ d \notin expired /\ expired' = expired \union {d}
  /\ UNCHANGED <<now, fireAt, handled, busy, subs, log, tick, gone, crashes>>

\* The server stops; started again it looks at once.
Crash ==
  /\ crashes > 0 /\ crashes' = crashes - 1
  /\ Enter("idle", now) /\ at' = now - 1 /\ sent' = FALSE
  /\ UNCHANGED <<env, subs, log, gone>>

Init ==
  /\ now = 0 /\ at = -1
  /\ fireAt \in [Keys -> 0 .. MaxTime]
  /\ handled = {} /\ busy \in BOOLEAN /\ expired = {} /\ subs = Devices
  /\ log = [k \in Keys |-> [ok |-> FALSE, attempts |-> 0]]
  /\ round = "idle" /\ todo = {} /\ key = NoKey /\ to = {} /\ left = {}
  /\ anyOK = FALSE /\ sent = FALSE
  /\ apprise = [k \in Keys |-> 0]
  /\ web = [k \in Keys |-> [d \in Devices |-> 0]]
  /\ tries = [k \in Keys |-> 0] /\ offered = {}
  /\ crashes = MaxCrashes

Ticks    == BeginTick \/ NextRound \/ Skip \/ EmptyDay
Apprises == AppriseSends \/ AppriseRecords \/ AppriseFails
Webs     == \/ NoSubscribers \/ BroadcastBegins \/ WebSends \/ WebFails \/ WebGone
            \/ BroadcastEnds
Around   == \/ Advance \/ Crash
            \/ (\E k \in Reminders : Handle(k) \/ Return(k)) \/ (\E d \in Devices : Expire(d))

Next == Ticks \/ Apprises \/ Webs \/ Around

Spec == Init /\ [][Next]_vars

-----------------------------------------------------------------------------
RoundOK ==
  /\ round \in {"idle", "apprise", "appriseDaily", "web", "webDaily"}
  /\ at \in -1 .. MaxTime /\ todo \subseteq Keys /\ key \in Keys \union {NoKey}
  /\ to \subseteq Devices /\ left \subseteq to /\ anyOK \in BOOLEAN /\ sent \in BOOLEAN
  /\ key # NoKey => key \in todo
  /\ round \in {"apprise", "web"} => todo \subseteq Reminders

StoreOK ==
  /\ now \in 0 .. MaxTime /\ fireAt \in [Keys -> 0 .. MaxTime]
  /\ handled \subseteq Reminders /\ busy \in BOOLEAN
  /\ subs \subseteq Devices /\ expired \subseteq Devices
  /\ log \in [Keys -> [ok : BOOLEAN, attempts : 0 .. MaxAttempts]]
  /\ apprise \in [Keys -> Nat] /\ web \in [Keys -> [Devices -> Nat]]
  /\ tries \in [Keys -> Nat] /\ offered \subseteq Keys
  /\ crashes \in 0 .. MaxCrashes

\* The log never counts more than MaxAttempts attempts, and the round holds what the
\* code puts there (pushMaxAttempts, PushState).
TypeOK == RoundOK /\ StoreOK

Delivered(k) == apprise[k] > 0 \/ \E d \in Devices : web[k][d] > 0

\* A step sends only what is neither recorded as delivered nor given up.
SendsOpenOnly ==
  \A k \in Keys : apprise'[k] # apprise[k] \/ web'[k] # web[k] =>
    ~log[k].ok /\ log[k].attempts < MaxAttempts

\* A message that is recorded as delivered, or given up, is never sent again, whatever
\* restarts or fails (RecordPush: "成功即永久去重").
NeverAgain == [][SendsOpenOnly]_vars

\* A reminder recorded as delivered has reached somebody (broadcast: "全挂了才是真失败").
LogIsTrue == \A k \in Reminders : log[k].ok => Delivered(k)

\* The summary of a day with tasks is recorded only when somebody got it: an empty one
\* is recorded without being sent, no other (pushDaily: "空概览不推，但照常落账").
SummaryTold == busy /\ log[Daily].ok => Delivered(Daily)

\* No address and no device gets a message twice (PushState, broadcast).
NeverTwice == \A k \in Keys : apprise[k] <= 1 /\ \A d \in Devices : web[k][d] <= 1

\* No message goes out on both channels ("任一条送达就不再投另一条", tick).
OneChannel == \A k \in Keys : apprise[k] > 0 => \A d \in Devices : web[k][d] = 0

\* Apprise tries a message MaxAttempts times at most (pushMaxAttempts).
AttemptsBounded == \A k \in Keys : tries[k] <= MaxAttempts

\* Apprise does not use up the attempts of a reminder before Web Push has tried it once
\* (the comment on the result of pushReminders).
WebGetsItsChance ==
  \A k \in Reminders : log[k].attempts >= MaxAttempts /\ ~log[k].ok => k \in offered
=============================================================================
