------------------------- MODULE PushDispatchProofs -------------------------
(***************************************************************************)
(* What holds of PushDispatch for every number of reminders, devices and   *)
(* attempts.  With all faults and restarts: the types, that nothing        *)
(* recorded or given up is sent again, and that the log is true.  Without  *)
(* faults but failing messages: nobody gets a message twice, nor on both   *)
(* channels, and the attempts stay within their bound.                     *)
(*                                                                         *)
(* The key a round is busy with is open: it is neither recorded nor given  *)
(* up (KeyOpen).  What has been delivered is either recorded, or the round *)
(* is just about to record it (the invariants Known and Once).             *)
(***************************************************************************)
EXTENDS PushDispatch, TLAPS

KeyOpen == key # NoKey => ~Done(key) /\ round # "idle"

\* What the round is about to record has been delivered.
Known == key # NoKey => \/ AppriseRound /\ apprise[key] > 0
                        \/ WebRound /\ (anyOK => \E d \in Devices : web[key][d] > 0)

IInv == TypeOK /\ KeyOpen /\ Known /\ LogIsTrue

Log == [Keys -> [ok : BOOLEAN, attempts : 0 .. MaxAttempts]]

-----------------------------------------------------------------------------
(* The operators the actions are built from.                               *)

\* A success is recorded.
LEMMA SucceededLog ==
  ASSUME log \in Log, NEW k \in Keys, Succeeded(k)
  PROVE  /\ log' \in Log /\ log'[k].ok
         /\ \A j \in Keys : j # k => log'[j] = log[j]
  <1>1. 1 \in 0 .. MaxAttempts
    BY ConstantsAssumption
  <1> QED BY <1>1 DEF Succeeded, Log

\* A failure is counted, within the bound.
LEMMA FailedLog ==
  ASSUME log \in Log, NEW k \in Keys, ~Done(k), Failed(k)
  PROVE  /\ log' \in Log /\ ~log'[k].ok /\ log'[k].attempts = log[k].attempts + 1
         /\ \A j \in Keys : j # k => log'[j] = log[j]
  <1>1. log[k].attempts + 1 \in 0 .. MaxAttempts
    BY ConstantsAssumption DEF Log, Done
  <1> QED BY <1>1 DEF Failed, Log

\* A round begins with no key, and no subscriber left to serve.
LEMMA EnterRound ==
  ASSUME NEW r \in {"idle", "apprise", "appriseDaily", "web", "webDaily"}, NEW t, Enter(r, t),
         subs \subseteq Devices
  PROVE  /\ round' = r /\ key' = NoKey /\ left' = {} /\ anyOK' = FALSE
         /\ todo' \subseteq Keys /\ to' \subseteq Devices
         /\ r \in {"apprise", "web"} => todo' \subseteq Reminders
  <1>1. round' = r /\ key' = NoKey /\ left' = {} /\ anyOK' = FALSE /\ to' \subseteq Devices
    BY DEF Enter
  <1>2. Hits(t) \subseteq Reminders /\ DailyDue(t) \subseteq Keys /\ Reminders \subseteq Keys
    BY DEF Hits, DailyDue, Keys
  <1>3. CASE r \in {"apprise", "web"}
    BY <1>1, <1>2, <1>3 DEF Enter
  <1>4. CASE r \in {"appriseDaily", "webDaily"}
    BY <1>1, <1>2, <1>4 DEF Enter
  <1>5. CASE r = "idle"
    BY <1>1, <1>5 DEF Enter
  <1> QED BY <1>3, <1>4, <1>5

\* A key in hand is none.
LEMMA KeyIsOne ==
  ASSUME NEW k \in Keys
  PROVE  k # NoKey
  BY ConstantsAssumption DEF Keys

-----------------------------------------------------------------------------
(* Types.                                                                  *)

\* What a tick does outside the two channels keeps the types.
LEMMA TicksKeepTypes ==
  ASSUME TypeOK, Ticks
  PROVE  TypeOK'
<1>0. subs \subseteq Devices /\ log \in Log /\ Daily \in Keys /\ at \in -1 .. MaxTime
  BY DEF TypeOK, StoreOK, RoundOK, Log, Keys
<1>1. CASE BeginTick
  <2>1. PICK r \in {"apprise", "web"} : Enter(r, now)
    BY <1>1 DEF BeginTick
  <2>2. /\ round' = r /\ key' = NoKey /\ left' = {} /\ anyOK' = FALSE
        /\ todo' \subseteq Keys /\ to' \subseteq Devices
        /\ r \in {"apprise", "web"} => todo' \subseteq Reminders
    BY <1>0, <2>1, EnterRound
  <2>3. at' \in -1 .. MaxTime /\ sent' = FALSE
    BY <1>1, ConstantsAssumption DEF BeginTick, TypeOK, StoreOK
  <2>4. RoundOK'
    BY <2>2, <2>3 DEF RoundOK
  <2> QED BY <1>1, <2>4 DEF BeginTick, TypeOK, StoreOK, env, gone
<1>2. CASE NextRound
  <2>1. PICK r \in {"idle", "apprise", "appriseDaily", "web", "webDaily"} : Enter(r, at)
    BY <1>2 DEF NextRound, AfterApprise, TypeOK, RoundOK
  <2>2. RoundOK'
    BY <1>0, <1>2, <2>1, EnterRound DEF NextRound, RoundOK, TypeOK
  <2> QED BY <1>2, <2>2 DEF NextRound, TypeOK, StoreOK, env, gone
<1>3. CASE Skip
  BY <1>3 DEF Skip, TypeOK, RoundOK, StoreOK, env, gone
<1>4. CASE EmptyDay
  <2>1. log' \in Log
    BY <1>0, <1>4, SucceededLog DEF EmptyDay, Unlogged
  <2> QED BY <1>4, <2>1 DEF EmptyDay, TypeOK, RoundOK, StoreOK, env, gone, Log
<1> QED BY <1>1, <1>2, <1>3, <1>4 DEF Ticks

\* Apprise keeps the types.
LEMMA ApprisesKeepTypes ==
  ASSUME TypeOK, KeyOpen, Apprises
  PROVE  TypeOK'
<1>0. log \in Log /\ todo \subseteq Keys
  BY DEF TypeOK, StoreOK, RoundOK, Log
<1>1. CASE AppriseSends
  BY <1>0, <1>1 DEF AppriseSends, TypeOK, RoundOK, StoreOK, env, Tried
<1>2. CASE AppriseRecords
  <2>1. log' \in Log
    BY <1>0, <1>2, SucceededLog DEF AppriseRecords, Unlogged, TypeOK, RoundOK
  <2> QED BY <1>2, <2>1 DEF AppriseRecords, TypeOK, RoundOK, StoreOK, env, gone, Log
<1>3. CASE AppriseFails
  <2>1. PICK k \in todo :
          /\ Wanted(k) /\ Tried(k) /\ todo' = todo \ {k}
          /\ apprise' = apprise \/ apprise' = [apprise EXCEPT ![k] = @ + 1]
          /\ Failed(k) \/ Unlogged
    BY <1>3 DEF AppriseFails
  <2>2. log' \in Log
    BY <1>0, <2>1, FailedLog DEF Wanted, Unlogged
  <2>3. apprise' \in [Keys -> Nat] /\ tries' \in [Keys -> Nat]
    <3>1. k \in Keys /\ apprise \in [Keys -> Nat] /\ tries \in [Keys -> Nat]
      BY <1>0 DEF TypeOK, StoreOK
    <3>2. tries' \in [Keys -> Nat]
      BY <2>1, <3>1 DEF Tried
    <3>3. apprise' \in [Keys -> Nat]
      BY <2>1, <3>1
    <3> QED BY <3>2, <3>3
  <2> QED BY <1>3, <2>1, <2>2, <2>3 DEF AppriseFails, TypeOK, RoundOK, StoreOK, env, Log
<1> QED BY <1>1, <1>2, <1>3 DEF Apprises

\* One more delivery to a device.
LEMMA OneMore ==
  ASSUME web \in [Keys -> [Devices -> Nat]], NEW k \in Keys, NEW d \in Devices,
         web' = [web EXCEPT ![k][d] = @ + 1]
  PROVE  /\ web' \in [Keys -> [Devices -> Nat]]
         /\ web'[k][d] = web[k][d] + 1 /\ web[k][d] \in Nat
         /\ \A j \in Keys, e \in Devices : j # k \/ e # d => web'[j][e] = web[j][e]
  <1> DEFINE row == [web[k] EXCEPT ![d] = @ + 1]
  <1>1. web[k] \in [Devices -> Nat] /\ web[k][d] \in Nat /\ web[k][d] + 1 \in Nat
    OBVIOUS
  <1>2. row \in [Devices -> Nat] /\ row[d] = web[k][d] + 1
        /\ \A e \in Devices : e # d => row[e] = web[k][e]
    BY <1>1
  <1>3. web' = [web EXCEPT ![k] = row]
    OBVIOUS
  <1> HIDE DEF row
  <1> QED BY <1>1, <1>2, <1>3

\* Web Push keeps the types.
LEMMA WebsKeepTypes ==
  ASSUME TypeOK, Webs
  PROVE  TypeOK'
<1>0. log \in Log /\ todo \subseteq Keys /\ left \subseteq Devices
      /\ (key # NoKey => key \in Keys) /\ web \in [Keys -> [Devices -> Nat]]
  BY DEF TypeOK, StoreOK, RoundOK, Log
<1>1. CASE NoSubscribers
  BY <1>1 DEF NoSubscribers, TypeOK, RoundOK, StoreOK, env, gone
<1>2. CASE BroadcastBegins
  BY <1>0, <1>2 DEF BroadcastBegins, TypeOK, RoundOK, StoreOK, env
<1>3. CASE WebSends
  <2>1. web' \in [Keys -> [Devices -> Nat]]
    BY <1>0, <1>3, OneMore DEF WebSends
  <2> QED BY <1>3, <2>1 DEF WebSends, TypeOK, RoundOK, StoreOK, env
<1>4. CASE WebFails
  <2>1. web' \in [Keys -> [Devices -> Nat]]
    BY <1>0, <1>4, OneMore DEF WebFails
  <2> QED BY <1>4, <2>1 DEF WebFails, TypeOK, RoundOK, StoreOK, env
<1>5. CASE WebGone
  BY <1>5 DEF WebGone, TypeOK, RoundOK, StoreOK, env, gone
<1>6. CASE BroadcastEnds
  <2>1. log' \in Log
    BY <1>0, <1>6, SucceededLog DEF BroadcastEnds, Unlogged
  <2> QED BY <1>6, <2>1 DEF BroadcastEnds, TypeOK, RoundOK, StoreOK, env, gone, Log
<1> QED BY <1>1, <1>2, <1>3, <1>4, <1>5, <1>6 DEF Webs

\* So does what happens around the scheduler.
LEMMA AroundKeepsTypes ==
  ASSUME TypeOK, Around
  PROVE  TypeOK'
<1>1. CASE Advance
  BY <1>1, ConstantsAssumption DEF Advance, TypeOK, RoundOK, StoreOK, tick, gone
<1>2. CASE \E k \in Reminders : Handle(k) \/ Return(k)
  BY <1>2 DEF Handle, Return, TypeOK, RoundOK, StoreOK, tick, gone
<1>3. CASE \E d \in Devices : Expire(d)
  BY <1>3 DEF Expire, TypeOK, RoundOK, StoreOK, tick, gone
<1>4. CASE Crash
  <2>1. subs \subseteq Devices /\ Enter("idle", now)
    BY <1>4 DEF Crash, TypeOK, StoreOK
  <2>2. now - 1 \in -1 .. MaxTime /\ crashes - 1 \in 0 .. MaxCrashes
    BY <1>4, ConstantsAssumption DEF Crash, TypeOK, StoreOK
  <2> QED BY <1>4, <2>1, <2>2, EnterRound DEF Crash, TypeOK, RoundOK, StoreOK, env, gone
<1> QED BY <1>1, <1>2, <1>3, <1>4 DEF Around

\* Initially all is well.
LEMMA InitIInv == Init => IInv
<1> SUFFICES ASSUME Init PROVE IInv
  OBVIOUS
<1>1. 0 \in 0 .. MaxTime /\ 0 \in 0 .. MaxAttempts /\ -1 \in -1 .. MaxTime
      /\ MaxCrashes \in 0 .. MaxCrashes /\ Reminders \subseteq Keys
  BY ConstantsAssumption DEF Keys
<1>2. TypeOK
  BY <1>1 DEF Init, TypeOK, RoundOK, StoreOK
<1>3. KeyOpen /\ Known /\ LogIsTrue
  BY <1>1 DEF Init, KeyOpen, Known, LogIsTrue
<1> QED BY <1>2, <1>3 DEF IInv

-----------------------------------------------------------------------------
(* With all faults: the log is true, and what is done is not sent again.   *)

\* Nothing that was delivered is taken back.
Grows ==
  \A k \in Keys : /\ apprise'[k] >= apprise[k]
                  /\ \A d \in Devices : web'[k][d] >= web[k][d]

\* A step that writes no success keeps the log true.
LEMMA StillTrue ==
  ASSUME TypeOK, LogIsTrue, Grows, apprise' \in [Keys -> Nat], web' \in [Keys -> [Devices -> Nat]],
         \A k \in Reminders : log'[k].ok => log[k].ok \/ Delivered(k)
  PROVE  LogIsTrue'
  <1>1. \A k \in Keys : Delivered(k) => Delivered(k)'
    <2> SUFFICES ASSUME NEW k \in Keys, Delivered(k) PROVE Delivered(k)'
      OBVIOUS
    <2>1. apprise[k] \in Nat /\ apprise'[k] \in Nat
      BY DEF TypeOK, StoreOK
    <2>2. CASE apprise[k] > 0
      BY <2>1, <2>2 DEF Grows, Delivered
    <2>3. CASE \E d \in Devices : web[k][d] > 0
      <3>1. PICK d \in Devices : web[k][d] > 0
        BY <2>3
      <3>2. web[k][d] \in Nat /\ web'[k][d] \in Nat /\ web'[k][d] >= web[k][d]
        BY DEF TypeOK, StoreOK, Grows
      <3> QED BY <3>1, <3>2 DEF Delivered
    <2> QED BY <2>2, <2>3 DEF Delivered
  <1>2. Reminders \subseteq Keys
    BY DEF Keys
  <1> QED BY <1>1, <1>2 DEF LogIsTrue

\* A step that delivers nothing.
LEMMA NothingSent ==
  ASSUME TypeOK, UNCHANGED <<apprise, web>>
  PROVE  Grows /\ SendsOpenOnly
  BY DEF Grows, SendsOpenOnly, TypeOK, StoreOK

\* Where the round goes on without a key, and no reminder is recorded.
LEMMA TicksKeepIInv ==
  ASSUME IInv, Ticks
  PROVE  IInv' /\ SendsOpenOnly
<1>1. TypeOK' /\ TypeOK /\ subs \subseteq Devices /\ LogIsTrue
  BY TicksKeepTypes DEF IInv, TypeOK, StoreOK
<1>2. UNCHANGED <<apprise, web>> /\ Grows /\ SendsOpenOnly
  BY <1>1, NothingSent DEF Ticks, BeginTick, NextRound, Skip, EmptyDay, gone
<1>3. key' = NoKey
  <2>1. CASE BeginTick
    BY <2>1 DEF BeginTick, Enter
  <2>2. CASE NextRound
    BY <2>2 DEF NextRound, Enter
  <2>3. CASE Skip \/ EmptyDay
    BY <2>3 DEF Skip, EmptyDay
  <2> QED BY <2>1, <2>2, <2>3 DEF Ticks
<1>4. \A k \in Reminders : log'[k].ok => log[k].ok
  <2>1. CASE EmptyDay
    <3>1. log' = log \/ Succeeded(Daily)
      BY <2>1 DEF EmptyDay, Unlogged
    <3>2. \A k \in Reminders : k \in Keys /\ k # Daily
      BY ConstantsAssumption DEF Keys
    <3>3. log \in Log /\ Daily \in Keys
      BY <1>1 DEF TypeOK, StoreOK, Log, Keys
    <3> QED BY <3>1, <3>2, <3>3, SucceededLog
  <2>2. CASE BeginTick \/ NextRound \/ Skip
    BY <2>2 DEF BeginTick, NextRound, Skip
  <2> QED BY <2>1, <2>2 DEF Ticks
<1>5. LogIsTrue'
  BY <1>1, <1>2, <1>4, StillTrue DEF TypeOK, StoreOK
<1> QED BY <1>1, <1>2, <1>3, <1>5 DEF IInv, KeyOpen, Known

\* Apprise.
LEMMA ApprisesKeepIInv ==
  ASSUME IInv, Apprises
  PROVE  IInv' /\ SendsOpenOnly
<1>1. TypeOK' /\ TypeOK /\ LogIsTrue /\ Known /\ KeyOpen
  BY ApprisesKeepTypes DEF IInv
<1>2. log \in Log /\ todo \subseteq Keys /\ (key # NoKey => key \in Keys)
      /\ apprise \in [Keys -> Nat] /\ apprise' \in [Keys -> Nat]
      /\ web \in [Keys -> [Devices -> Nat]] /\ Reminders \subseteq Keys
  BY <1>1 DEF TypeOK, StoreOK, RoundOK, Log, Keys
<1>3. CASE AppriseSends
  <2>1. PICK k \in todo : Wanted(k) /\ apprise' = [apprise EXCEPT ![k] = @ + 1] /\ key' = k
    BY <1>3 DEF AppriseSends
  <2>2. k \in Keys /\ ~Done(k) /\ UNCHANGED <<log, web, round>>
    BY <1>2, <1>3, <2>1 DEF Wanted, AppriseSends
  <2>3. Grows /\ apprise'[k] > 0 /\ \A j \in Keys : j # k => apprise'[j] = apprise[j]
    BY <1>2, <2>1, <2>2 DEF Grows
  <2>4. KeyOpen' /\ Known'
    BY <1>3, <2>1, <2>2, <2>3 DEF KeyOpen, Known, Done, AppriseSends, AppriseRound
  <2>5. log[k].attempts \in 0 .. MaxAttempts /\ SendsOpenOnly
    BY <1>2, <2>2, <2>3, ConstantsAssumption DEF SendsOpenOnly, Done, Log
  <2>6. LogIsTrue'
    BY <1>1, <1>2, <2>2, <2>3, StillTrue
  <2> QED BY <1>1, <2>4, <2>5, <2>6 DEF IInv
<1>4. CASE AppriseRecords
  <2>1. key \in Keys /\ apprise[key] > 0 /\ key' = NoKey /\ UNCHANGED <<apprise, web>>
    BY <1>1, <1>2, <1>4 DEF AppriseRecords, Known, AppriseRound, WebRound, gone
  <2>2. \A k \in Keys : log'[k].ok => log[k].ok \/ Delivered(k)
    BY <1>2, <1>4, <2>1, SucceededLog DEF AppriseRecords, Unlogged, Delivered
  <2>3. Grows /\ SendsOpenOnly
    BY <1>1, <2>1, NothingSent
  <2>4. LogIsTrue'
    BY <1>1, <1>2, <2>1, <2>2, <2>3, StillTrue
  <2> QED BY <1>1, <2>1, <2>3, <2>4 DEF IInv, KeyOpen, Known
<1>5. CASE AppriseFails
  <2>1. PICK k \in todo :
          /\ Wanted(k)
          /\ apprise' = apprise \/ apprise' = [apprise EXCEPT ![k] = @ + 1]
          /\ Failed(k) \/ Unlogged
    BY <1>5 DEF AppriseFails
  <2>2. k \in Keys /\ ~Done(k) /\ web' = web /\ key' = NoKey
    BY <1>2, <1>5, <2>1 DEF Wanted, AppriseFails
  <2>3. Grows /\ \A j \in Keys : j # k => apprise'[j] = apprise[j]
    BY <1>2, <2>1, <2>2 DEF Grows
  <2>4. \A j \in Keys : log'[j].ok => log[j].ok
    BY <1>2, <2>1, <2>2, FailedLog DEF Unlogged
  <2>5. log[k].attempts \in 0 .. MaxAttempts /\ SendsOpenOnly
    BY <1>2, <2>2, <2>3, ConstantsAssumption DEF SendsOpenOnly, Done, Log
  <2>6. LogIsTrue'
    BY <1>1, <1>2, <2>2, <2>3, <2>4, StillTrue
  <2> QED BY <1>1, <2>2, <2>5, <2>6 DEF IInv, KeyOpen, Known
<1> QED BY <1>3, <1>4, <1>5 DEF Apprises

\* Web Push.
LEMMA WebsKeepIInv ==
  ASSUME IInv, Webs
  PROVE  IInv' /\ SendsOpenOnly
<1>1. TypeOK' /\ TypeOK /\ LogIsTrue /\ Known /\ KeyOpen
  BY WebsKeepTypes DEF IInv
<1>2. log \in Log /\ todo \subseteq Keys /\ left \subseteq Devices
      /\ (key # NoKey => key \in Keys)
      /\ apprise \in [Keys -> Nat] /\ web \in [Keys -> [Devices -> Nat]]
      /\ web' \in [Keys -> [Devices -> Nat]] /\ Reminders \subseteq Keys
  BY <1>1 DEF TypeOK, StoreOK, RoundOK, Log, Keys
<1>3. CASE NoSubscribers \/ BroadcastBegins \/ WebGone
  <2>1. UNCHANGED <<apprise, web, log, round>>
    BY <1>3 DEF NoSubscribers, BroadcastBegins, WebGone, gone
  <2>2. Grows /\ SendsOpenOnly
    BY <1>1, <2>1, NothingSent
  <2>3. LogIsTrue'
    BY <1>1, <1>2, <2>1, <2>2, StillTrue
  <2>4. KeyOpen' /\ Known'
    BY <1>1, <1>2, <1>3, <2>1
      DEF NoSubscribers, BroadcastBegins, WebGone, KeyOpen, Known, Done, Wanted, WebRound
  <2> QED BY <1>1, <2>2, <2>3, <2>4 DEF IInv
<1>4. CASE WebSends \/ WebFails
  <2>1. /\ key \in Keys /\ WebRound
        /\ UNCHANGED <<apprise, log, round, key>>
        /\ WebSends \/ anyOK' = anyOK
    BY <1>2, <1>4 DEF WebSends, WebFails
  <2>2. CASE web' = web
    <3>1. Grows /\ SendsOpenOnly
      BY <1>1, <2>1, <2>2, NothingSent
    <3>2. LogIsTrue'
      BY <1>1, <1>2, <2>1, <3>1, StillTrue
    <3>3. ~WebSends
      <4>1. ASSUME NEW d \in left, web' = [web EXCEPT ![key][d] = @ + 1] PROVE FALSE
        BY <1>2, <2>1, <2>2, <4>1, OneMore
      <4> QED BY <4>1 DEF WebSends
    <3>4. KeyOpen' /\ Known'
      BY <1>1, <2>1, <2>2, <3>3 DEF KeyOpen, Known, Done, WebRound, AppriseRound
    <3> QED BY <1>1, <3>1, <3>2, <3>4 DEF IInv
  <2>3. CASE web' # web
    <3>1. PICK d \in left : web' = [web EXCEPT ![key][d] = @ + 1]
      BY <1>4, <2>3 DEF WebSends, WebFails
    <3>2. d \in Devices
      BY <1>2
    <3>3. /\ web'[key][d] = web[key][d] + 1 /\ web[key][d] \in Nat
          /\ \A j \in Keys, e \in Devices : j # key \/ e # d => web'[j][e] = web[j][e]
      BY <1>2, <2>1, <3>1, <3>2, OneMore
    <3>4. \A j \in Keys, e \in Devices : web[j][e] \in Nat /\ web'[j][e] >= web[j][e]
      BY <1>2, <3>3
    <3>5. Grows
      BY <1>2, <2>1, <3>4 DEF Grows
    <3>6. \A j \in Keys : j # key => web'[j] = web[j]
      BY <2>1, <3>1
    <3>7. SendsOpenOnly
      <4>1. ~Done(key) /\ log[key].attempts \in 0 .. MaxAttempts
        BY <1>1, <1>2, <2>1, KeyIsOne DEF KeyOpen, Log
      <4>2. ~log[key].ok /\ log[key].attempts < MaxAttempts
        BY <4>1, ConstantsAssumption DEF Done
      <4> QED BY <2>1, <3>6, <4>2 DEF SendsOpenOnly
    <3>8. LogIsTrue'
      BY <1>1, <1>2, <2>1, <3>5, StillTrue
    <3>9. web'[key][d] > 0
      BY <3>3
    <3>10. KeyOpen' /\ Known'
      BY <1>1, <2>1, <3>2, <3>9 DEF KeyOpen, Known, Done, WebRound
    <3> QED BY <1>1, <3>7, <3>8, <3>10 DEF IInv
  <2> QED BY <2>2, <2>3
<1>5. CASE BroadcastEnds
  <2>1. key \in Keys /\ key' = NoKey /\ UNCHANGED <<apprise, web>> /\ WebRound
    BY <1>2, <1>5 DEF BroadcastEnds, gone
  <2>2. ~AppriseRound
    BY <2>1 DEF WebRound, AppriseRound
  <2>3. anyOK => Delivered(key)
    BY <1>1, <2>1, <2>2, KeyIsOne DEF Known, Delivered
  <2>4. \A k \in Keys : log'[k].ok => log[k].ok \/ Delivered(k)
    BY <1>2, <1>5, <2>1, <2>3, SucceededLog DEF BroadcastEnds, Unlogged
  <2>5. Grows /\ SendsOpenOnly
    BY <1>1, <2>1, NothingSent
  <2>6. LogIsTrue'
    BY <1>1, <1>2, <2>1, <2>4, <2>5, StillTrue
  <2> QED BY <1>1, <2>1, <2>5, <2>6 DEF IInv, KeyOpen, Known
<1> QED BY <1>3, <1>4, <1>5 DEF Webs

\* Around the scheduler, and a step that changes nothing.
LEMMA AroundKeepsIInv ==
  ASSUME IInv, Around \/ UNCHANGED vars
  PROVE  IInv' /\ SendsOpenOnly
<1>1. TypeOK' /\ TypeOK
  <2>1. CASE UNCHANGED vars
    BY <2>1 DEF IInv, vars, TypeOK, RoundOK, StoreOK
  <2> QED BY <2>1, AroundKeepsTypes DEF IInv
<1>2. UNCHANGED <<apprise, web, log>>
  BY DEF Around, Advance, Handle, Return, Expire, Crash, vars, gone
<1>3. key' = NoKey \/ UNCHANGED <<round, key, anyOK>>
  <2>1. CASE Crash
    BY <2>1 DEF Crash, Enter
  <2>2. CASE ~Crash
    BY <2>2 DEF Around, Advance, Handle, Return, Expire, vars, tick
  <2> QED BY <2>1, <2>2
<1>4. SendsOpenOnly
  BY <1>1, <1>2, NothingSent
<1>5. KeyOpen' /\ Known' /\ LogIsTrue'
  BY <1>2, <1>3 DEF IInv, KeyOpen, Known, LogIsTrue, Done, AppriseRound, WebRound, Delivered
<1> QED BY <1>1, <1>4, <1>5 DEF IInv

\* Every step keeps the invariant, and sends only what is open.
LEMMA EveryStep ==
  ASSUME IInv, [Next]_vars
  PROVE  IInv' /\ SendsOpenOnly
  BY TicksKeepIInv, ApprisesKeepIInv, WebsKeepIInv, AroundKeepsIInv DEF Next

LEMMA Invariance == Spec => []IInv
<1>1. IInv /\ [Next]_vars => IInv'
  BY EveryStep
<1> QED BY InitIInv, <1>1, PTL DEF Spec

\* The log, the round and the tables hold what the code puts there, and the log never
\* counts more than MaxAttempts attempts.
THEOREM TypeCorrect == Spec => []TypeOK
<1>1. IInv => TypeOK
  BY DEF IInv
<1> QED BY <1>1, Invariance, PTL

\* A reminder recorded as delivered has reached somebody, whatever fails or restarts.
THEOREM LogTrue == Spec => []LogIsTrue
<1>1. IInv => LogIsTrue
  BY DEF IInv
<1> QED BY <1>1, Invariance, PTL

\* What is recorded as delivered, or given up, is never sent again, whatever fails or
\* restarts.
THEOREM DoneIsDone == Spec => NeverAgain
<1>1. IInv /\ [Next]_vars => [SendsOpenOnly]_vars
  BY EveryStep
<1> QED BY <1>1, Invariance, PTL DEF Spec, NeverAgain

-----------------------------------------------------------------------------
(* Where messages may fail and nothing else goes wrong: one message is one *)
(* delivery.  What was delivered is recorded, or the round holds its key.  *)

Mild == Faults \subseteq {"fails"} /\ MaxCrashes = 0

\* Apprise delivers a message once; until it is recorded the round holds its key.
AppriseOnce(k) ==
  apprise[k] \in {0, 1} /\ (apprise[k] = 1 => log[k].ok \/ (AppriseRound /\ key = k))

\* So does Web Push to each device, and only where Apprise did not.
WebOnce(k, d) ==
  /\ web[k][d] \in {0, 1}
  /\ web[k][d] = 1 => /\ apprise[k] = 0
                      /\ log[k].ok \/ (WebRound /\ key = k /\ anyOK /\ d \notin left)

\* The log counts the attempts of Apprise, until the message is delivered.
TriesCounted(k) ==
  /\ tries[k] <= MaxAttempts
  /\ ~log[k].ok => tries[k] = log[k].attempts + IF AppriseRound /\ key = k THEN 1 ELSE 0

Once == \A k \in Keys : /\ AppriseOnce(k) /\ TriesCounted(k)
                        /\ \A d \in Devices : WebOnce(k, d)

Calm == expired = {} /\ crashes = 0 /\ Once /\ SummaryTold

\* The step of a round that sends nothing and has no key, before or after.
LEMMA NoKeyStep ==
  ASSUME Once, TypeOK, key = NoKey, UNCHANGED <<apprise, web, tries>>,
         key' = NoKey \/ ~AppriseRound',
         \A k \in Keys : log'[k] = log[k] \/ log'[k].ok
  PROVE  Once'
<1> SUFFICES ASSUME NEW k \in Keys
             PROVE  (AppriseOnce(k) /\ TriesCounted(k) /\ \A d \in Devices : WebOnce(k, d))'
  BY DEF Once
<1>1. k # NoKey /\ (log'[k] = log[k] \/ log'[k].ok)
      /\ AppriseOnce(k) /\ TriesCounted(k) /\ \A d \in Devices : WebOnce(k, d)
  BY KeyIsOne DEF Once
<1>2. (apprise[k] = 1 => log[k].ok) /\ (\A d \in Devices : web[k][d] = 1 => log[k].ok)
  BY <1>1 DEF AppriseOnce, WebOnce
<1>3. AppriseOnce(k)'
  BY <1>1, <1>2 DEF AppriseOnce
<1>4. \A d \in Devices : WebOnce(k, d)'
  BY <1>1, <1>2 DEF WebOnce
<1>5. TriesCounted(k)'
  BY <1>1 DEF TriesCounted
<1> QED BY <1>3, <1>4, <1>5

\* A step outside the rounds.
LEMMA IdleStep ==
  ASSUME Once, UNCHANGED <<apprise, web, tries, log, round, key, anyOK, left>>
  PROVE  Once'
  BY DEF Once, AppriseOnce, WebOnce, TriesCounted, AppriseRound, WebRound

\* The summary stays told as long as no success is recorded for it.
LEMMA SummaryStill ==
  ASSUME SummaryTold, Grows, TypeOK, UNCHANGED busy,
         apprise' \in [Keys -> Nat], web' \in [Keys -> [Devices -> Nat]],
         busy /\ log'[Daily].ok => log[Daily].ok \/ Delivered(Daily)
  PROVE  SummaryTold'
<1>1. Daily \in Keys /\ apprise[Daily] \in Nat /\ apprise'[Daily] \in Nat
  BY DEF Keys, TypeOK, StoreOK
<1>2. SUFFICES ASSUME Delivered(Daily) PROVE Delivered(Daily)'
  BY DEF SummaryTold
<1>3. CASE apprise[Daily] > 0
  BY <1>1, <1>3 DEF Grows, Delivered
<1>4. CASE \E d \in Devices : web[Daily][d] > 0
  <2>1. PICK d \in Devices : web[Daily][d] > 0
    BY <1>4
  <2>2. web[Daily][d] \in Nat /\ web'[Daily][d] \in Nat /\ web'[Daily][d] >= web[Daily][d]
    BY <1>1 DEF TypeOK, StoreOK, Grows
  <2> QED BY <2>1, <2>2 DEF Delivered
<1> QED BY <1>2, <1>3, <1>4 DEF Delivered

\* The tick outside the channels: an empty summary is recorded, a full one is not.
LEMMA TicksKeepCalm ==
  ASSUME Mild, IInv, Calm, Ticks
  PROVE  Calm'
<1>1. TypeOK /\ TypeOK' /\ Once /\ SummaryTold /\ expired = {} /\ crashes = 0
  BY TicksKeepTypes DEF IInv, Calm
<1>2. UNCHANGED <<apprise, web, tries, expired, crashes, busy>>
  BY DEF Ticks, BeginTick, NextRound, Skip, EmptyDay, gone, env
<1>3. Grows
  BY <1>1, <1>2, NothingSent
<1>4. key = NoKey /\ key' = NoKey
  <2>1. CASE BeginTick
    BY <2>1 DEF BeginTick, Enter, IInv, KeyOpen
  <2>2. CASE NextRound
    BY <2>2 DEF NextRound, Enter
  <2>3. CASE Skip \/ EmptyDay
    BY <2>3 DEF Skip, EmptyDay
  <2> QED BY <2>1, <2>2, <2>3 DEF Ticks
<1>5. (\A k \in Keys : log'[k] = log[k] \/ log'[k].ok) /\ (busy => log' = log)
  <2>1. CASE EmptyDay
    <3>1. ~busy /\ Succeeded(Daily)
      BY <2>1 DEF EmptyDay, Unlogged, Mild
    <3>2. log \in Log /\ Daily \in Keys
      BY <1>1 DEF TypeOK, StoreOK, Log, Keys
    <3> QED BY <3>1, <3>2, SucceededLog
  <2>2. CASE BeginTick \/ NextRound \/ Skip
    BY <2>2 DEF BeginTick, NextRound, Skip
  <2> QED BY <2>1, <2>2 DEF Ticks
<1>6. Once'
  BY <1>1, <1>2, <1>4, <1>5, NoKeyStep
<1>7. SummaryTold'
  BY <1>1, <1>2, <1>3, <1>5, SummaryStill DEF TypeOK, StoreOK
<1> QED BY <1>1, <1>2, <1>6, <1>7 DEF Calm

\* Apprise.
LEMMA ApprisesKeepCalm ==
  ASSUME Mild, IInv, Calm, Apprises
  PROVE  Calm'
<1>1. TypeOK /\ TypeOK' /\ Once /\ SummaryTold /\ expired = {} /\ crashes = 0 /\ Known
  BY ApprisesKeepTypes DEF IInv, Calm
<1>2. log \in Log /\ todo \subseteq Keys /\ (key # NoKey => key \in Keys)
      /\ apprise \in [Keys -> Nat] /\ apprise' \in [Keys -> Nat]
      /\ tries \in [Keys -> Nat] /\ Daily \in Keys
      /\ web' \in [Keys -> [Devices -> Nat]]
  BY <1>1 DEF TypeOK, StoreOK, RoundOK, Log, Keys
<1>3. UNCHANGED <<web, expired, crashes, busy, round>>
  BY DEF Apprises, AppriseSends, AppriseRecords, AppriseFails, gone, env
<1>4. CASE AppriseSends
  <2>1. PICK k \in todo : /\ Wanted(k) /\ apprise' = [apprise EXCEPT ![k] = @ + 1]
                          /\ tries' = [tries EXCEPT ![k] = @ + 1] /\ key' = k
    BY <1>4 DEF AppriseSends, Tried
  <2>2. k \in Keys /\ key = NoKey /\ AppriseRound /\ UNCHANGED log
        /\ ~log[k].ok /\ log[k].attempts < MaxAttempts /\ log[k].attempts \in Nat
    <3>1. k \in Keys /\ ~Done(k) /\ log[k].attempts \in 0 .. MaxAttempts
      BY <1>2, <2>1 DEF Wanted, Log
    <3> QED BY <1>4, <3>1, ConstantsAssumption DEF AppriseSends, Done
  <2>3. apprise[k] = 0 /\ (\A d \in Devices : web[k][d] = 0) /\ tries[k] = log[k].attempts
    BY <1>1, <2>2, KeyIsOne DEF Once, AppriseOnce, WebOnce, TriesCounted
  <2>4. SUFFICES ASSUME NEW j \in Keys
                 PROVE (AppriseOnce(j) /\ TriesCounted(j) /\ \A d \in Devices : WebOnce(j, d))'
    <3>1. Grows
      BY <1>1, <1>2, <1>3, <2>1 DEF Grows, TypeOK, StoreOK
    <3>2. SummaryTold'
      BY <1>1, <1>2, <1>3, <2>2, <3>1, SummaryStill
    <3> QED BY <1>1, <1>3, <2>4, <3>2 DEF Calm, Once
  <2>5. CASE j = k
    <3>1. apprise'[k] = 1 /\ tries'[k] = log[k].attempts + 1 /\ tries'[k] <= MaxAttempts
      BY <1>2, <2>1, <2>2, <2>3, ConstantsAssumption
    <3>2. AppriseRound' /\ key' = k
      BY <1>3, <2>1, <2>2 DEF AppriseRound
    <3> QED BY <1>3, <2>2, <2>3, <2>5, <3>1, <3>2 DEF AppriseOnce, TriesCounted, WebOnce
  <2>6. CASE j # k
    <3>1. apprise'[j] = apprise[j] /\ tries'[j] = tries[j] /\ j # key /\ j # key'
      BY <1>2, <2>1, <2>2, <2>6, KeyIsOne
    <3>2. AppriseOnce(j) /\ TriesCounted(j) /\ \A d \in Devices : WebOnce(j, d)
      BY <1>1 DEF Once
    <3> QED BY <1>3, <2>2, <3>1, <3>2 DEF AppriseOnce, TriesCounted, WebOnce
  <2> QED BY <2>5, <2>6
<1>5. CASE AppriseRecords
  <2>1. key \in Keys /\ key' = NoKey /\ Succeeded(key) /\ UNCHANGED <<apprise, web, tries>>
        /\ AppriseRound
    BY <1>2, <1>5 DEF AppriseRecords, Unlogged, Mild, gone
  <2>2. log'[key].ok /\ \A j \in Keys : j # key => log'[j] = log[j]
    BY <1>2, <2>1, SucceededLog
  <2>3. apprise[key] > 0
    BY <1>1, <1>2, <2>1, KeyIsOne DEF Known, AppriseRound, WebRound
  <2>4. SummaryTold'
    <3>1. Grows
      BY <1>1, <2>1, NothingSent
    <3>2. log'[Daily].ok => log[Daily].ok \/ Delivered(Daily)
      BY <1>2, <2>2, <2>3 DEF Delivered
    <3> QED BY <1>1, <1>2, <1>3, <3>1, <3>2, SummaryStill
  <2>5. SUFFICES ASSUME NEW j \in Keys
                 PROVE (AppriseOnce(j) /\ TriesCounted(j) /\ \A d \in Devices : WebOnce(j, d))'
    BY <1>1, <1>3, <2>4, <2>5 DEF Calm, Once
  <2>6. AppriseOnce(j) /\ TriesCounted(j) /\ \A d \in Devices : WebOnce(j, d)
    BY <1>1 DEF Once
  <2>7. CASE j = key
    BY <2>1, <2>2, <2>6, <2>7 DEF AppriseOnce, TriesCounted, WebOnce
  <2>8. CASE j # key
    <3>1. j # key' /\ log'[j] = log[j]
      BY <2>1, <2>2, <2>8, KeyIsOne
    <3> QED BY <1>3, <2>1, <2>6, <2>8, <3>1 DEF AppriseOnce, TriesCounted, WebOnce
  <2> QED BY <2>7, <2>8
<1>6. CASE AppriseFails
  <2>1. PICK k \in todo : /\ Wanted(k) /\ apprise' = apprise
                          /\ tries' = [tries EXCEPT ![k] = @ + 1] /\ Failed(k)
    BY <1>6 DEF AppriseFails, Tried, Unlogged, Mild
  <2>2. k \in Keys /\ key = NoKey /\ key' = NoKey /\ ~Done(k)
        /\ ~log[k].ok /\ log[k].attempts < MaxAttempts /\ log[k].attempts \in Nat
    <3>1. k \in Keys /\ ~Done(k) /\ log[k].attempts \in 0 .. MaxAttempts
      BY <1>2, <2>1 DEF Wanted, Log
    <3> QED BY <1>6, <3>1, ConstantsAssumption DEF AppriseFails, Done
  <2>3. ~log'[k].ok /\ log'[k].attempts = log[k].attempts + 1
        /\ \A j \in Keys : j # k => log'[j] = log[j]
    BY <1>2, <2>1, <2>2, FailedLog
  <2>4. tries[k] = log[k].attempts
    BY <1>1, <2>2, KeyIsOne DEF Once, TriesCounted
  <2>5. SummaryTold'
    <3>1. Grows
      BY <1>1, <1>3, <2>1, NothingSent
    <3>2. log'[Daily].ok => log[Daily].ok
      BY <1>2, <2>3
    <3> QED BY <1>1, <1>2, <1>3, <3>1, <3>2, SummaryStill
  <2>6. SUFFICES ASSUME NEW j \in Keys
                 PROVE (AppriseOnce(j) /\ TriesCounted(j) /\ \A d \in Devices : WebOnce(j, d))'
    BY <1>1, <1>3, <2>5, <2>6 DEF Calm, Once
  <2>7. AppriseOnce(j) /\ TriesCounted(j) /\ (\A d \in Devices : WebOnce(j, d)) /\ j # NoKey
    BY <1>1, KeyIsOne DEF Once
  <2>8. CASE j = k
    <3>1. tries'[k] = log'[k].attempts /\ tries'[k] <= MaxAttempts
      BY <1>2, <2>1, <2>2, <2>3, <2>4, ConstantsAssumption
    <3>2. log'[k].attempts + 0 = log'[k].attempts
      BY <2>2, <2>3
    <3>3. apprise'[k] = 0 /\ \A d \in Devices : web'[k][d] = 0
      BY <1>3, <2>1, <2>2, <2>7, <2>8 DEF AppriseOnce, WebOnce
    <3> QED BY <2>2, <2>7, <2>8, <3>1, <3>2, <3>3 DEF AppriseOnce, TriesCounted, WebOnce
  <2>9. CASE j # k
    <3>1. tries'[j] = tries[j] /\ log'[j] = log[j]
      BY <1>2, <2>1, <2>3, <2>9
    <3> QED BY <1>3, <2>1, <2>2, <2>7, <3>1 DEF AppriseOnce, TriesCounted, WebOnce
  <2> QED BY <2>8, <2>9
<1> QED BY <1>4, <1>5, <1>6 DEF Apprises

\* Web Push.
LEMMA WebsKeepCalm ==
  ASSUME Mild, IInv, Calm, Webs
  PROVE  Calm'
<1>1. TypeOK /\ TypeOK' /\ Once /\ SummaryTold /\ expired = {} /\ crashes = 0
      /\ Known /\ KeyOpen
  BY WebsKeepTypes DEF IInv, Calm
<1>2. log \in Log /\ todo \subseteq Keys /\ left \subseteq Devices
      /\ (key # NoKey => key \in Keys) /\ Daily \in Keys
      /\ web \in [Keys -> [Devices -> Nat]] /\ web' \in [Keys -> [Devices -> Nat]]
      /\ apprise' \in [Keys -> Nat]
  BY <1>1 DEF TypeOK, StoreOK, RoundOK, Log, Keys
<1>3. UNCHANGED <<apprise, tries, expired, crashes, busy, round>> /\ WebRound
  BY DEF Webs, NoSubscribers, BroadcastBegins, WebSends, WebFails, WebGone, BroadcastEnds,
         gone, env, WebRound
<1>4. ~AppriseRound /\ ~AppriseRound' /\ WebRound'
  BY <1>3 DEF WebRound, AppriseRound
<1>5. CASE NoSubscribers \/ BroadcastBegins
  <2>1. key = NoKey /\ UNCHANGED <<web, log>>
    BY <1>5 DEF NoSubscribers, BroadcastBegins, gone
  <2>2. Once'
    BY <1>1, <1>3, <1>4, <2>1, NoKeyStep
  <2>3. Grows
    BY <1>1, <1>3, <2>1, NothingSent
  <2>4. SummaryTold'
    BY <1>1, <1>2, <1>3, <2>1, <2>3, SummaryStill
  <2> QED BY <1>1, <1>3, <2>2, <2>4 DEF Calm
<1>6. CASE WebSends
  <2>1. PICK d \in left : web' = [web EXCEPT ![key][d] = @ + 1] /\ left' = left \ {d}
    BY <1>6 DEF WebSends
  <2>2. key \in Keys /\ key' = key /\ anyOK' /\ UNCHANGED log /\ d \in Devices
    BY <1>2, <1>6 DEF WebSends
  <2>3. /\ web'[key][d] = web[key][d] + 1 /\ web[key][d] \in Nat
        /\ \A j \in Keys, e \in Devices : j # key \/ e # d => web'[j][e] = web[j][e]
    BY <1>2, <2>1, <2>2, OneMore
  <2>4. ~log[key].ok
    BY <1>1, <2>2, KeyIsOne DEF KeyOpen, Done
  <2>5. apprise[key] = 0 /\ web[key][d] = 0
    BY <1>1, <1>4, <2>1, <2>2, <2>4 DEF Once, AppriseOnce, WebOnce
  <2>6. SummaryTold'
    <3>1. Grows
      <4>1. \A j \in Keys, e \in Devices : web[j][e] \in Nat /\ web'[j][e] >= web[j][e]
        BY <1>2, <2>3
      <4> QED BY <1>1, <1>3, <4>1 DEF Grows, TypeOK, StoreOK
    <3> QED BY <1>1, <1>2, <1>3, <2>2, <3>1, SummaryStill
  <2>7. SUFFICES ASSUME NEW j \in Keys
                 PROVE (AppriseOnce(j) /\ TriesCounted(j) /\ \A e \in Devices : WebOnce(j, e))'
    BY <1>1, <1>3, <2>6, <2>7 DEF Calm, Once
  <2>8. AppriseOnce(j) /\ TriesCounted(j) /\ \A e \in Devices : WebOnce(j, e)
    BY <1>1 DEF Once
  <2>9. AppriseOnce(j)' /\ TriesCounted(j)'
    BY <1>3, <1>4, <2>2, <2>8 DEF AppriseOnce, TriesCounted
  <2>10. ASSUME NEW e \in Devices PROVE WebOnce(j, e)'
    <3>1. CASE j = key /\ e = d
      BY <1>3, <1>4, <2>1, <2>2, <2>3, <2>5, <3>1 DEF WebOnce
    <3>2. CASE ~(j = key /\ e = d)
      <4>1. web'[j][e] = web[j][e] /\ WebOnce(j, e)
        BY <2>3, <2>8, <3>2
      <4> QED BY <1>3, <1>4, <2>1, <2>2, <4>1 DEF WebOnce
    <3> QED BY <3>1, <3>2
  <2> QED BY <2>9, <2>10
<1>7. CASE WebFails
  <2>1. left' \subseteq left /\ UNCHANGED <<web, key, anyOK, log>>
    BY <1>7 DEF WebFails, Mild
  <2>2. Once'
    BY <1>1, <1>3, <2>1 DEF Once, AppriseOnce, WebOnce, TriesCounted, AppriseRound, WebRound
  <2>3. Grows
    BY <1>1, <1>3, <2>1, NothingSent
  <2>4. SummaryTold'
    BY <1>1, <1>2, <1>3, <2>1, <2>3, SummaryStill
  <2> QED BY <1>1, <1>3, <2>2, <2>4 DEF Calm
<1>8. CASE WebGone
  BY <1>1, <1>8 DEF WebGone
<1>9. CASE BroadcastEnds
  <2>1. key \in Keys /\ key' = NoKey /\ UNCHANGED web
    BY <1>2, <1>9 DEF BroadcastEnds, gone
  <2>2. IF anyOK THEN Succeeded(key) ELSE UNCHANGED log
    BY <1>9 DEF BroadcastEnds, Unlogged, Mild
  <2>3. (anyOK => log'[key].ok) /\ (\A j \in Keys : log'[j] = log[j] \/ log'[j].ok)
        /\ (\A j \in Keys : j # key => log'[j] = log[j])
    BY <1>2, <2>1, <2>2, SucceededLog
  <2>4. SummaryTold'
    <3>1. Grows
      BY <1>1, <1>3, <2>1, NothingSent
    <3>2. anyOK => Delivered(key)
      BY <1>1, <1>4, <2>1, KeyIsOne DEF Known, Delivered
    <3>3. log'[Daily].ok => log[Daily].ok \/ Delivered(Daily)
      BY <1>2, <2>2, <2>3, <3>2
    <3> QED BY <1>1, <1>2, <1>3, <3>1, <3>3, SummaryStill
  <2>5. SUFFICES ASSUME NEW j \in Keys
                 PROVE (AppriseOnce(j) /\ TriesCounted(j) /\ \A e \in Devices : WebOnce(j, e))'
    BY <1>1, <1>3, <2>4, <2>5 DEF Calm, Once
  <2>6. AppriseOnce(j) /\ TriesCounted(j) /\ (\A e \in Devices : WebOnce(j, e))
        /\ (log'[j] = log[j] \/ log'[j].ok)
    BY <1>1, <2>3 DEF Once
  <2>7. (AppriseOnce(j) /\ TriesCounted(j))'
    BY <1>3, <1>4, <2>6 DEF AppriseOnce, TriesCounted
  <2>8. \A e \in Devices : WebOnce(j, e)'
    BY <1>3, <1>4, <2>1, <2>3, <2>6 DEF WebOnce
  <2> QED BY <2>7, <2>8
<1> QED BY <1>5, <1>6, <1>7, <1>8, <1>9 DEF Webs

\* Around the scheduler nothing expires and nothing restarts.
LEMMA AroundKeepsCalm ==
  ASSUME Mild, IInv, Calm, Around \/ UNCHANGED vars
  PROVE  Calm'
<1>1. ~Crash /\ \A d \in Devices : ~Expire(d)
  BY DEF Mild, Calm, Crash, Expire
<1>2. UNCHANGED <<apprise, web, tries, log, round, key, anyOK, left, expired, crashes, busy>>
  BY <1>1 DEF Around, Advance, Handle, Return, vars, gone, tick
<1>3. Once' /\ SummaryTold'
  BY <1>2, IdleStep DEF Calm, SummaryTold, Delivered
<1> QED BY <1>2, <1>3 DEF Calm

LEMMA CalmInvariance == Mild => (Spec => []Calm)
<1> SUFFICES ASSUME Mild PROVE Spec => []Calm
  OBVIOUS
<1>1. Init => Calm
  <2> SUFFICES ASSUME Init PROVE Calm
    OBVIOUS
  <2>1. Daily \in Keys /\ MaxAttempts \in Nat
    BY ConstantsAssumption DEF Keys
  <2>2. \A k \in Keys : /\ apprise[k] = 0 /\ tries[k] = 0 /\ log[k].attempts = 0 /\ ~log[k].ok
                        /\ k # key /\ \A d \in Devices : web[k][d] = 0
    BY KeyIsOne DEF Init
  <2>3. Once
    BY <2>1, <2>2 DEF Once, AppriseOnce, WebOnce, TriesCounted
  <2>4. SummaryTold
    BY <2>1, <2>2 DEF SummaryTold
  <2> QED BY <2>3, <2>4 DEF Init, Calm, Mild
<1>2. IInv /\ Calm /\ [Next]_vars => Calm'
  BY TicksKeepCalm, ApprisesKeepCalm, WebsKeepCalm, AroundKeepsCalm DEF Next
<1> QED BY <1>1, <1>2, Invariance, PTL DEF Spec

\* Where messages may fail and nothing else goes wrong, nobody gets a message twice from
\* either channel.
THEOREM OnceToEach == Mild => (Spec => []NeverTwice)
<1>1. Calm => NeverTwice
  BY DEF Calm, Once, AppriseOnce, WebOnce, NeverTwice
<1>2. CASE Mild
  BY <1>1, <1>2, CalmInvariance, PTL
<1> QED BY <1>2

\* There, no message goes out on both channels.
THEOREM OnOneChannel == Mild => (Spec => []OneChannel)
<1>1. Calm => OneChannel
  BY DEF Calm, Once, AppriseOnce, WebOnce, OneChannel
<1>2. CASE Mild
  BY <1>1, <1>2, CalmInvariance, PTL
<1> QED BY <1>2

\* There, Apprise tries a message MaxAttempts times at most.
THEOREM AttemptsCounted == Mild => (Spec => []AttemptsBounded)
<1>1. Calm => AttemptsBounded
  BY DEF Calm, Once, TriesCounted, AttemptsBounded
<1>2. CASE Mild
  BY <1>1, <1>2, CalmInvariance, PTL
<1> QED BY <1>2

\* There, the summary of a day with tasks is recorded only when somebody got it.
THEOREM SummaryIsTold == Mild => (Spec => []SummaryTold)
<1>1. Calm => SummaryTold
  BY DEF Calm
<1>2. CASE Mild
  BY <1>1, <1>2, CalmInvariance, PTL
<1> QED BY <1>2
=============================================================================
