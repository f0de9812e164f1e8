----------------------------- MODULE PartsProofs -----------------------------
(***************************************************************************)
(* Proofs about the parts that MCParts runs, for every value of their        *)
(* constants: check-ins of habits, the source of a change, cached reads,     *)
(* reminders, operations on many tasks, the dialogs, what a user puts in     *)
(* (forms, gestures, the panel of a task), the list of tasks, the links      *)
(* between tasks and the tree of folders.                                    *)
(***************************************************************************)
EXTENDS MCParts, SequenceTheorems, FiniteSetTheorems, TLAPS

-----------------------------------------------------------------------------
(* Habits: the counts of the server, and those the user was told.            *)

CheckIns == [habit : Habits, day : Days, undo : BOOLEAN]

Answers == \E r \in asking : r.stage = "ok"

\* Sending a queued check-in to the server.
Sent(b, q) == Done(b, q.habit, q.day, IF q.undo THEN "none" ELSE "more", 0)

\* What is queued waits alone: no request and no reading of the board beside it.
QueueAlone == queued # <<>> => asking = {} /\ reading = "no" /\ seen = promised

OneAtATime == \A r, q \in asking : r.habit = q.habit => r = q

\* The server is behind what the user was told by the answers that are on their way ...
Owed ==
  queued = <<>> => \A hb \in Habits :
    /\ \A r \in asking : r.habit = hb /\ r.stage = "ok" =>
         logs[hb] = Done(promised, hb, r.day, r.op, Target[hb])[hb]
    /\ (\A r \in asking : r.habit = hb => r.stage # "ok") => logs[hb] = promised[hb]

\* ... or by what is queued: sent in order, it leads from the one to the other.
Leads ==
  asking = {} =>
    \E path \in [0 .. Len(queued) -> Boards] :
      /\ path[0] = logs /\ path[Len(queued)] = promised
      /\ \A i \in 1 .. Len(queued) : path[i] = Sent(path[i - 1], queued[i])

\* The board shows, or is about to, what the server has.
BoardFresh ==
  /\ look # NoBoard => reading = "yes" /\ (~Answers => look = logs)
  /\ reading = "no" /\ ~Answers /\ queued = <<>> => seen = logs

HInv == HabitTypeOK /\ QueueAlone /\ OneAtATime /\ Owed /\ Leads /\ BoardFresh

-----------------------------------------------------------------------------
\* What a day's count becomes.
Count(x, op, n) == IF op = "more" THEN x + 1 ELSE IF op = "set" THEN n ELSE 0

LEMMA DoneIs ==
  ASSUME NEW b \in Boards, NEW i \in Habits, NEW d \in Days, NEW op \in Ops, NEW n \in Nat
  PROVE  Done(b, i, d, op, n) = [b EXCEPT ![i] = [b[i] EXCEPT ![d] = Count(b[i][d], op, n)]]
BY DEF Done, Count, Ops

LEMMA DoneType ==
  ASSUME NEW b \in Boards, NEW i \in Habits, NEW d \in Days, NEW op \in Ops, NEW n \in Nat
  PROVE  /\ Done(b, i, d, op, n) \in Boards
         /\ Done(b, i, d, op, n)[i] = [b[i] EXCEPT ![d] = Count(b[i][d], op, n)]
<1>1. b[i] \in [Days -> Nat] /\ b[i][d] \in Nat
  BY DEF Boards
<1>2. Count(b[i][d], op, n) \in Nat
  BY <1>1 DEF Count
<1> HIDE DEF Count
<1> DEFINE f == [b[i] EXCEPT ![d] = Count(b[i][d], op, n)]
<1>3. f \in [Days -> Nat]
  BY <1>1, <1>2
<1>4. Done(b, i, d, op, n) = [b EXCEPT ![i] = f]
  BY DoneIs
<1> HIDE DEF f
<1>5. [b EXCEPT ![i] = f] \in Boards /\ b \in [Habits -> [Days -> Nat]]
  BY <1>3 DEF Boards
<1> QED BY <1>4, <1>5 DEF f

LEMMA DoneElsewhere ==
  ASSUME NEW b \in Boards, NEW i \in Habits, NEW d \in Days, NEW op \in Ops, NEW n \in Nat,
         NEW g \in Habits, g # i
  PROVE  Done(b, i, d, op, n)[g] = b[g]
BY DoneIs DEF Boards

\* What a request does to a habit follows from the counts of that habit alone.
LEMMA DoneLocal ==
  ASSUME NEW b \in Boards, NEW c \in Boards, NEW i \in Habits, NEW d \in Days, NEW op \in Ops,
         NEW n \in Nat, b[i] = c[i]
  PROVE  Done(b, i, d, op, n)[i] = Done(c, i, d, op, n)[i]
<1>1. Done(b, i, d, op, n)[i] = [b[i] EXCEPT ![d] = Count(b[i][d], op, n)]
  BY DoneType
<1>2. Done(c, i, d, op, n)[i] = [c[i] EXCEPT ![d] = Count(c[i][d], op, n)]
  BY DoneType
<1> QED BY <1>1, <1>2

\* With every habit's count as told, the way from the one to the other is empty.
LEMMA NoWay ==
  ASSUME NEW b \in Boards, NEW c \in Boards, \A i \in Habits : b[i] = c[i]
  PROVE  /\ b = c
         /\ \E path \in [0 .. 0 -> Boards] : path[0] = b /\ path[0] = c
<1>1. b = c
  BY DEF Boards
<1> DEFINE p == [i \in 0 .. 0 |-> b]
<1>2. p \in [0 .. 0 -> Boards] /\ p[0] = b
  OBVIOUS
<1> QED BY <1>1, <1>2

\* A check-in noted without a connection adds its own step to the way.
LEMMA OneStepMore ==
  ASSUME NEW q, NEW s \in Seq(CheckIns), NEW path \in [0 .. Len(s) -> Boards], NEW last \in Boards,
         q \in CheckIns, last = Sent(path[Len(s)], q),
         \A i \in 1 .. Len(s) : path[i] = Sent(path[i - 1], s[i])
  PROVE  \E way \in [0 .. Len(Append(s, q)) -> Boards] :
           /\ way[0] = path[0] /\ way[Len(Append(s, q))] = last
           /\ \A i \in 1 .. Len(Append(s, q)) : way[i] = Sent(way[i - 1], Append(s, q)[i])
<1> DEFINE t == Append(s, q)
           n == Len(s)
           way == [i \in 0 .. n + 1 |-> IF i = n + 1 THEN last ELSE path[i]]
<1>1. n \in Nat /\ Len(t) = n + 1 /\ t[n + 1] = q /\ \A i \in 1 .. n : t[i] = s[i]
  OBVIOUS
<1>2. way \in [0 .. n + 1 -> Boards]
  BY <1>1
<1>3. way[0] = path[0] /\ way[n + 1] = last
  BY <1>1
<1>4. ASSUME NEW i \in 1 .. n + 1 PROVE way[i] = Sent(way[i - 1], t[i])
  <2>0. i - 1 \in 0 .. n + 1 /\ i - 1 # n + 1
    BY <1>1
  <2>1. way[i - 1] = path[i - 1]
    BY <2>0
  <2>2. CASE i = n + 1
    BY <1>1, <2>2, <2>1
  <2>3. CASE i # n + 1
    BY <1>1, <2>3, <2>1
  <2> QED BY <2>2, <2>3
<1> HIDE DEF way, t, n
<1>5. \E x \in [0 .. Len(t) -> Boards] :
        /\ x[0] = path[0] /\ x[Len(t)] = last
        /\ \A i \in 1 .. Len(t) : x[i] = Sent(x[i - 1], t[i])
  BY <1>1, <1>2, <1>3, <1>4
<1> QED BY <1>5 DEF t

\* What was sent first is no longer on the way.
LEMMA OneStepLess ==
  ASSUME NEW s \in Seq(CheckIns), s # <<>>, NEW path \in [0 .. Len(s) -> Boards],
         \A i \in 1 .. Len(s) : path[i] = Sent(path[i - 1], s[i])
  PROVE  /\ path[1] = Sent(path[0], Head(s)) /\ path[1] \in Boards
         /\ \E way \in [0 .. Len(Tail(s)) -> Boards] :
              /\ way[0] = path[1] /\ way[Len(Tail(s))] = path[Len(s)]
              /\ \A i \in 1 .. Len(Tail(s)) : way[i] = Sent(way[i - 1], Tail(s)[i])
<1> DEFINE n == Len(Tail(s))
           way == [i \in 0 .. n |-> path[i + 1]]
<1>1. n \in Nat /\ Len(s) = n + 1 /\ Head(s) = s[1] /\ \A i \in 1 .. n : Tail(s)[i] = s[i + 1]
  OBVIOUS
<1>2. path[1] = Sent(path[0], Head(s)) /\ path[1] \in Boards
  BY <1>1
<1>3. way \in [0 .. n -> Boards] /\ way[0] = path[1] /\ way[n] = path[Len(s)]
  BY <1>1
<1>4. ASSUME NEW i \in 1 .. n PROVE way[i] = Sent(way[i - 1], Tail(s)[i])
  BY <1>1
<1> HIDE DEF way, n
<1>5. \E x \in [0 .. n -> Boards] :
        /\ x[0] = path[1] /\ x[n] = path[Len(s)]
        /\ \A i \in 1 .. n : x[i] = Sent(x[i - 1], Tail(s)[i])
  BY <1>3, <1>4
<1> QED BY <1>2, <1>5 DEF n

-----------------------------------------------------------------------------
LEMMA SentIs ==
  ASSUME NEW b \in Boards, NEW q \in CheckIns
  PROVE  /\ Sent(b, q) \in Boards
         /\ Sent(b, q) = [b EXCEPT ![q.habit] = [b[q.habit] EXCEPT
                           ![q.day] = IF q.undo THEN 0 ELSE b[q.habit][q.day] + 1]]
<1> DEFINE op == IF q.undo THEN "none" ELSE "more"
<1>1. q.habit \in Habits /\ q.day \in Days /\ q.undo \in BOOLEAN /\ op \in Ops /\ 0 \in Nat
  BY DEF CheckIns, Ops
<1>2. Sent(b, q) = Done(b, q.habit, q.day, op, 0)
  BY DEF Sent
<1>3. \A x : Count(x, op, 0) = IF q.undo THEN 0 ELSE x + 1
  BY DEF Count
<1> HIDE DEF op
<1>4. Done(b, q.habit, q.day, op, 0) = [b EXCEPT ![q.habit] = [b[q.habit] EXCEPT
                                          ![q.day] = Count(b[q.habit][q.day], op, 0)]]
  BY <1>1, DoneIs
<1>5. Done(b, q.habit, q.day, op, 0) \in Boards
  BY <1>1, DoneType, Zenon
<1>6. Count(b[q.habit][q.day], op, 0) = IF q.undo THEN 0 ELSE b[q.habit][q.day] + 1
  BY <1>3
<1> QED BY <1>2, <1>4, <1>5, <1>6, Zenon

LEMMA AskKeeps ==
  ASSUME HInv, Lapses = {}, NEW i \in Habits, NEW d \in Days, NEW op \in Ops, Ask(i, d, op),
         UNCHANGED <<logs, met, wifi, look, reading>>
  PROVE  HInv'
<1> DEFINE new == [habit |-> i, day |-> d, op |-> op, stage |-> "sent"]
<1>1. /\ queued = <<>> /\ UNCHANGED <<logs, seen, met, wifi, look, reading, queued, promised>>
      /\ asking' = asking \cup {new}
      /\ \A r \in asking : r.habit # i
  BY DEF Ask
<1>2. new.habit = i /\ new.stage = "sent"
      /\ new \in [habit : Habits, day : Days, op : Ops, stage : {"sent", "ok", "failed"}]
  OBVIOUS
<1> HIDE DEF new
<1>3. HabitTypeOK'
  BY <1>1, <1>2 DEF HInv, HabitTypeOK
<1>4. QueueAlone' /\ OneAtATime'
  BY <1>1, <1>2 DEF HInv, QueueAlone, OneAtATime
<1>5. Owed'
  BY <1>1, <1>2 DEF HInv, Owed
<1>6. Answers' <=> Answers
  BY <1>1, <1>2 DEF Answers
<1>7. Leads' /\ BoardFresh'
  BY <1>1, <1>6 DEF HInv, Leads, BoardFresh
<1> QED BY <1>3, <1>4, <1>5, <1>7 DEF HInv

LEMMA NoteKeeps ==
  ASSUME HInv, Lapses = {}, NEW i \in Habits, NEW d \in Days, NEW undo \in BOOLEAN, NEW n \in Nat,
         Note(i, d, undo, n), UNCHANGED <<logs, met, wifi, look, reading>>
  PROVE  HInv'
<1> DEFINE op == IF undo THEN "none" ELSE "set"
           q == [habit |-> i, day |-> d, undo |-> undo]
<1>1. /\ reading = "no" /\ asking = {} /\ asking' = asking
      /\ undo \/ n = seen[i][d] + 1
      /\ promised' = Done(promised, i, d, op, n) /\ seen' = Done(seen, i, d, op, n)
      /\ queued' = Append(queued, q)
      /\ UNCHANGED <<logs, met, wifi, look, reading>>
  BY DEF Note
<1>2. q \in CheckIns /\ op \in Ops /\ q.habit = i /\ q.day = d /\ q.undo = undo
  BY DEF CheckIns, Ops
<1>3. /\ logs \in Boards /\ promised \in Boards /\ seen \in Boards /\ queued \in Seq(CheckIns)
      /\ QueueAlone /\ Owed /\ Leads /\ BoardFresh
  BY DEF HInv, HabitTypeOK, CheckIns
<1>4. seen = promised
  <2>1. CASE queued = <<>>
    BY <1>1, <1>3, <2>1, NoWay DEF Owed, BoardFresh, Answers
  <2>2. CASE queued # <<>>
    BY <1>3, <2>2 DEF QueueAlone
  <2> QED BY <2>1, <2>2
<1>5. promised' = Sent(promised, q) /\ promised' \in Boards /\ seen' = promised'
  <2>1. promised' = [promised EXCEPT ![i] = [promised[i] EXCEPT ![d] = Count(promised[i][d], op, n)]]
    BY <1>1, <1>2, <1>3, DoneIs
  <2>2. Count(promised[i][d], op, n) = IF undo THEN 0 ELSE promised[i][d] + 1
    BY <1>1, <1>4 DEF Count
  <2>3. Sent(promised, q) = [promised EXCEPT ![i] = [promised[i] EXCEPT
                              ![d] = IF undo THEN 0 ELSE promised[i][d] + 1]]
    BY <1>2, <1>3, SentIs
  <2>4. Sent(promised, q) \in Boards
    BY <1>2, <1>3, SentIs
  <2> QED BY <1>1, <1>4, <2>1, <2>2, <2>3, <2>4
<1> HIDE DEF q, op
<1>6. queued' \in Seq(CheckIns) /\ queued' # <<>>
  BY <1>1, <1>2, <1>3
<1>7. HabitTypeOK'
  BY <1>1, <1>5, <1>6 DEF HInv, HabitTypeOK, CheckIns
<1>8. QueueAlone' /\ OneAtATime' /\ Owed' /\ BoardFresh'
  BY <1>1, <1>3, <1>5, <1>6 DEF QueueAlone, OneAtATime, Owed, BoardFresh, Answers
<1>9. Leads'
  <2>1. PICK path \in [0 .. Len(queued) -> Boards] :
          /\ path[0] = logs /\ path[Len(queued)] = promised
          /\ \A j \in 1 .. Len(queued) : path[j] = Sent(path[j - 1], queued[j])
    BY <1>1, <1>3 DEF Leads
  <2>2. promised' = Sent(path[Len(queued)], q)
    BY <1>5, <2>1
  <2>3. \E way \in [0 .. Len(queued') -> Boards] :
           /\ way[0] = path[0] /\ way[Len(queued')] = promised'
           /\ \A j \in 1 .. Len(queued') : way[j] = Sent(way[j - 1], queued'[j])
    <3>1. /\ queued' = Append(queued, q) /\ q \in CheckIns
          /\ queued \in Seq(CheckIns) /\ promised' \in Boards
      BY <1>1, <1>2, <1>3, <1>5
    <3>2. /\ path \in [0 .. Len(queued) -> Boards]
          /\ \A j \in 1 .. Len(queued) : path[j] = Sent(path[j - 1], queued[j])
      BY <2>1
    <3> QED BY <2>2, <3>1, <3>2, OneStepMore
  <2> QED BY <1>1, <2>1, <2>3 DEF Leads
<1> QED BY <1>7, <1>8, <1>9 DEF HInv

LEMMA RequestKeeps ==
  ASSUME HInv, Lapses = {}, NEW r \in asking, Serve(r) \/ Fails(r) \/ Answered(r)
  PROVE  HInv'
<1>0. /\ logs \in Boards /\ promised \in Boards /\ Target[r.habit] \in Nat
      /\ r \in [habit : Habits, day : Days, op : Ops, stage : {"sent", "ok", "failed"}]
      /\ r.habit \in Habits /\ r.day \in Days /\ r.op \in Ops
      /\ HabitTypeOK /\ QueueAlone /\ OneAtATime /\ Owed /\ Leads /\ BoardFresh
  BY HabitAssumption DEF HInv, HabitTypeOK
<1>1. queued = <<>> /\ queued' = queued
  BY <1>0 DEF QueueAlone, Serve, Fails, Answered
<1> DEFINE As(s) == [r EXCEPT !.stage = s]
<1>2. \A s \in {"sent", "ok", "failed"} :
        /\ As(s).habit = r.habit /\ As(s).day = r.day /\ As(s).op = r.op /\ As(s).stage = s
        /\ As(s) \in [habit : Habits, day : Days, op : Ops, stage : {"sent", "ok", "failed"}]
  BY <1>0
<1> HIDE DEF As
<1>3. CASE Serve(r)
  <2>1. /\ logs' = Done(logs, r.habit, r.day, r.op, Target[r.habit])
        /\ asking' = (asking \ {r}) \cup {As("ok")} /\ r.stage = "sent"
        /\ UNCHANGED <<seen, met, wifi, queued, look, reading, promised>>
    BY <1>3 DEF Serve, Becomes, As
  <2>2. logs' \in Boards /\ \A g \in Habits : g # r.habit => logs'[g] = logs[g]
    <3>1. logs' \in Boards
      BY <1>0, <2>1, DoneType
    <3>2. \A g \in Habits : g # r.habit => logs'[g] = logs[g]
      BY <1>0, <2>1, DoneElsewhere
    <3> QED BY <3>1, <3>2
  <2>3. \A q \in asking : q.habit = r.habit => q = r
    BY <1>0 DEF OneAtATime
  <2>4. logs[r.habit] = promised[r.habit]
    BY <1>0, <1>1, <2>1, <2>3 DEF Owed
  <2>5. logs'[r.habit] = Done(promised, r.habit, r.day, r.op, Target[r.habit])[r.habit]
    BY <1>0, <2>1, <2>4, DoneLocal
  <2>6. HabitTypeOK' /\ QueueAlone' /\ OneAtATime'
    BY <1>0, <1>1, <1>2, <2>1, <2>2, <2>3 DEF HabitTypeOK, QueueAlone, OneAtATime
  <2>7. Answers' /\ asking' # {}
    BY <1>2, <2>1 DEF Answers
  <2>8. Leads' /\ BoardFresh'
    BY <1>0, <2>1, <2>7 DEF Leads, BoardFresh
  <2>9. Owed'
    <3> SUFFICES ASSUME NEW g \in Habits
                 PROVE  /\ \A q \in asking' : q.habit = g /\ q.stage = "ok" =>
                             logs'[g] = Done(promised', g, q.day, q.op, Target[g])[g]
                        /\ (\A q \in asking' : q.habit = g => q.stage # "ok") => logs'[g] = promised'[g]
      BY DEF Owed
    <3>1. CASE g = r.habit
      BY <1>2, <2>1, <2>3, <3>1, <2>5
    <3>2. CASE g # r.habit
      BY <1>2, <2>1, <3>2, <1>0, <1>1, <2>2 DEF Owed
    <3> QED BY <3>1, <3>2
  <2> QED BY <2>6, <2>8, <2>9 DEF HInv
<1>4. CASE Fails(r)
  BY <1>4, <1>2, <1>0, <1>1 DEF Fails, Becomes, As, HabitTypeOK, QueueAlone, OneAtATime, Answers,
     Leads, BoardFresh, Owed, HInv
<1>5. CASE Answered(r)
  <2>1. /\ asking' = asking \ {r} /\ r.stage \in {"ok", "failed"}
        /\ UNCHANGED <<logs, seen, met, wifi, queued>>
    BY <1>5 DEF Answered
  <2>2. \A q \in asking' : q.habit # r.habit
    BY <1>0, <2>1 DEF OneAtATime
  <2>3. CASE r.stage = "ok"
    <3>1. /\ promised' = Done(promised, r.habit, r.day, r.op, Target[r.habit])
          /\ reading' = "yes" /\ look' = NoBoard
      BY <1>5, <2>3 DEF Answered
    <3>2. promised' \in Boards /\ \A g \in Habits : g # r.habit => promised'[g] = promised[g]
      <4>1. promised' \in Boards
        BY <1>0, <3>1, DoneType
      <4>2. \A g \in Habits : g # r.habit => promised'[g] = promised[g]
        BY <1>0, <3>1, DoneElsewhere
      <4> QED BY <4>1, <4>2
    <3>3. logs[r.habit] = promised'[r.habit]
      BY <1>0, <1>1, <2>3, <3>1 DEF Owed
    <3>4. HabitTypeOK' /\ QueueAlone' /\ OneAtATime' /\ BoardFresh'
      BY <1>0, <1>1, <2>1, <3>1, <3>2 DEF HabitTypeOK, QueueAlone, OneAtATime, BoardFresh
    <3>5. Owed'
      <4> SUFFICES ASSUME NEW g \in Habits
                   PROVE  /\ \A q \in asking' : q.habit = g /\ q.stage = "ok" =>
                               logs[g] = Done(promised', g, q.day, q.op, Target[g])[g]
                          /\ (\A q \in asking' : q.habit = g => q.stage # "ok") => logs[g] = promised'[g]
        BY <2>1 DEF Owed
      <4>1. CASE g = r.habit
        BY <2>2, <3>3, <4>1
      <4>2. CASE g # r.habit
        <5>1. \A q \in asking : q.habit = g => q \in asking'
          BY <2>1, <4>2
        <5>2. promised'[g] = promised[g]
          BY <3>2, <4>2
        <5>3. ASSUME NEW q \in asking', q.habit = g, q.stage = "ok"
              PROVE  logs[g] = Done(promised', g, q.day, q.op, Target[g])[g]
          BY <1>0, <2>1, HabitAssumption, <1>1, <5>3, <3>2, <5>2, DoneLocal DEF HabitTypeOK, Owed
        <5>4. (\A q \in asking' : q.habit = g => q.stage # "ok") => logs[g] = promised'[g]
          BY <1>0, <1>1, <5>1, <5>2 DEF Owed
        <5> QED BY <5>3, <5>4
      <4> QED BY <4>1, <4>2
    <3>6. Leads'
      BY <1>1, <2>1, <3>5, <1>0, <3>2, NoWay DEF Owed, Leads
    <3> QED BY <3>4, <3>5, <3>6 DEF HInv
  <2>4. CASE r.stage = "failed"
    <3>1. UNCHANGED <<promised, reading, look>>
      BY <1>5, <2>4 DEF Answered
    <3>2. \A q : q.stage = "ok" => (q \in asking' <=> q \in asking)
      BY <2>1, <2>4
    <3>3. HabitTypeOK' /\ QueueAlone' /\ OneAtATime'
      BY <1>0, <1>1, <2>1, <3>1 DEF HabitTypeOK, QueueAlone, OneAtATime
    <3>4. Answers' <=> Answers
      BY <3>2 DEF Answers
    <3>5. Owed' /\ BoardFresh'
      BY <1>0, <2>1, <3>1, <3>2, <3>4 DEF Owed, BoardFresh
    <3>6. Leads'
      BY <1>1, <2>1, <3>1, <3>5, <1>0, NoWay DEF Owed, Leads
    <3> QED BY <3>3, <3>5, <3>6 DEF HInv
  <2> QED BY <2>1, <2>3, <2>4
<1> QED BY <1>3, <1>4, <1>5

LEMMA ReplayKeeps ==
  ASSUME HInv, Lapses = {}, Replay
  PROVE  HInv'
<1> DEFINE q == Head(queued)
<1>0. /\ logs \in Boards /\ promised \in Boards /\ queued \in Seq(CheckIns) /\ queued # <<>>
      /\ HabitTypeOK /\ QueueAlone /\ OneAtATime /\ Owed /\ Leads /\ BoardFresh
  BY DEF HInv, HabitTypeOK, CheckIns, Replay
<1>1. /\ logs' = Sent(logs, q) /\ queued' = Tail(queued)
      /\ UNCHANGED <<seen, met, wifi, asking, look, reading, promised>>
      /\ asking = {} /\ reading = "no" /\ seen = promised /\ look = NoBoard
  BY <1>0 DEF Replay, Sent, QueueAlone, BoardFresh
<1>2. PICK path \in [0 .. Len(queued) -> Boards] :
          /\ path[0] = logs /\ path[Len(queued)] = promised
          /\ \A j \in 1 .. Len(queued) : path[j] = Sent(path[j - 1], queued[j])
  BY <1>0, <1>1 DEF Leads
<1>3. /\ logs' = path[1] /\ path[1] \in Boards
      /\ \E way \in [0 .. Len(Tail(queued)) -> Boards] :
              /\ way[0] = path[1] /\ way[Len(Tail(queued))] = path[Len(queued)]
              /\ \A i \in 1 .. Len(Tail(queued)) : way[i] = Sent(way[i - 1], Tail(queued)[i])
  BY <1>0, <1>1, <1>2, OneStepLess
<1>4. HabitTypeOK' /\ QueueAlone' /\ OneAtATime'
  BY <1>0, <1>1, <1>3 DEF HabitTypeOK, QueueAlone, OneAtATime, CheckIns
<1>5. Leads'
  BY <1>1, <1>2, <1>3 DEF Leads
<1>6. queued' = <<>> => logs' = promised'
  BY <1>0, <1>1, <1>2, <1>3
<1>7. Owed' /\ BoardFresh'
  BY <1>1, <1>6 DEF Owed, BoardFresh
<1> QED BY <1>4, <1>5, <1>7 DEF HInv

LEMMA HabitStep == Lapses = {} /\ HInv /\ [HabitNext]_habitVars => HInv'
<1> SUFFICES ASSUME Lapses = {}, HInv, [HabitNext]_habitVars PROVE HInv'
  OBVIOUS
<1>0. /\ logs \in Boards /\ seen \in Boards
      /\ HabitTypeOK /\ QueueAlone /\ OneAtATime /\ Owed /\ Leads /\ BoardFresh
      /\ "today" \in Days /\ {"set", "more", "none"} \subseteq Ops
  BY DEF HInv, HabitTypeOK, Days, Ops
<1>1. ASSUME NEW i \in Habits, NEW d \in Days, NEW undo \in BOOLEAN, Check(i, d, undo) PROVE HInv'
  BY HabitAssumption, <1>1, AskKeeps, NoteKeeps DEF Ops, Check
<1>2. ASSUME NEW i \in Habits, BumpToday(i) PROVE HInv'
  <2>1. seen[i]["today"] + 1 \in Nat
    BY <1>0 DEF Boards
  <2> QED BY <1>0, <1>2, <2>1, AskKeeps, NoteKeeps DEF BumpToday
<1>3. ASSUME NEW i \in Habits, ToggleToday(i) PROVE HInv'
  <2>1. (i \in met) \in BOOLEAN
    OBVIOUS
  <2> QED BY <1>0, <1>1, <1>3, <2>1 DEF ToggleToday
<1>4. ASSUME NEW i \in Habits, NEW d \in Days, ToggleDay(i, d) PROVE HInv'
  <2>1. (seen[i][d] >= Target[i]) \in BOOLEAN
    OBVIOUS
  <2> QED BY <1>1, <1>4, <2>1 DEF ToggleDay
<1>5. ASSUME NEW r \in asking, Serve(r) \/ Fails(r) \/ Answered(r) PROVE HInv'
  BY <1>5, RequestKeeps
<1>6. CASE Reopen
  BY <1>6, <1>0 DEF Reopen, HInv, HabitTypeOK, QueueAlone, OneAtATime, Owed, Leads, BoardFresh
<1>7. CASE HabitBoard
  BY <1>7, <1>0 DEF HabitBoard, HInv, HabitTypeOK, QueueAlone, OneAtATime, Owed, Leads, BoardFresh
<1>8. CASE BoardLands
  BY <1>8, <1>0 DEF BoardLands, MetToday, HabitTypeOK, BoardFresh, QueueAlone, OneAtATime, Owed,
     Leads, Answers, HInv
<1>9. CASE GoOffline \/ GoOnline \/ UNCHANGED habitVars
  <2>1. /\ wifi' \in BOOLEAN /\ UNCHANGED <<logs, seen, met, queued, asking, look, reading, promised>>
    BY <1>0, <1>9 DEF GoOffline, GoOnline, habitVars, HabitTypeOK
  <2>2. HabitTypeOK'
    BY <1>0, <2>1 DEF HabitTypeOK
  <2>3. QueueAlone' /\ OneAtATime' /\ Owed' /\ Leads' /\ BoardFresh'
    BY <1>0, <2>1 DEF QueueAlone, OneAtATime, Owed, Leads, BoardFresh, Answers
  <2> QED BY <2>2, <2>3 DEF HInv
<1>10. CASE Replay
  BY <1>10, ReplayKeeps
<1> QED
  BY <1>2, <1>3, <1>4, <1>5, <1>6, <1>7, <1>8, <1>9, <1>10 DEF HabitNext

LEMMA HabitStart == HabitInit => HInv
<1> SUFFICES ASSUME HabitInit PROVE HInv
  OBVIOUS
<1>1. logs \in [Habits -> [Days -> {0, 1}]] /\ seen = logs /\ promised = logs /\ asking = {}
      /\ queued = <<>> /\ look = NoBoard /\ reading = "no" /\ wifi = TRUE /\ met = MetToday(logs)
  BY DEF HabitInit
<1>2. logs \in Boards
  BY <1>1 DEF Boards
<1>3. HabitTypeOK
  BY <1>1, <1>2 DEF MetToday, HabitTypeOK
<1>4. Leads
  BY <1>1, <1>2, NoWay DEF Leads
<1> QED BY <1>1, <1>3, <1>4 DEF HInv, QueueAlone, OneAtATime, Owed, BoardFresh

\* With nothing on its way the server has the counts the user was told, and the board shows
\* them unless it could not be read, whatever was tapped with a connection and without one:
\* HabitsView.tsx and the queue of offline.ts count every check-in once (requests whose answer
\* is lost and the other lapses of the module are excepted).
THEOREM CheckInsCountOnce == Lapses = {} => (HabitSpec => []CountsKept)
<1> SUFFICES ASSUME Lapses = {} PROVE HabitSpec => []CountsKept
  OBVIOUS
<1>1. HInv => CountsKept
  <2> SUFFICES ASSUME HInv, queued = <<>>, asking = {}
               PROVE  logs = promised /\ (reading = "no" => seen = logs)
    BY DEF CountsKept
  <2>1. \A g \in Habits : logs[g] = promised[g]
    BY DEF HInv, Owed
  <2>2. logs = promised
    BY <2>1, NoWay DEF HInv, HabitTypeOK
  <2> QED BY <2>2 DEF HInv, BoardFresh, Answers
<1>2. HInv /\ [HabitNext]_habitVars => HInv'
  BY HabitStep
<1> QED BY <1>1, <1>2, HabitStart, PTL DEF HabitSpec

-----------------------------------------------------------------------------
(* The source of a change.                                                  *)

\* What the frame of a request set, and what it found and puts back.
Sets(f)  == IF f[2] = 2 THEN "import" ELSE SourceOf[f[1]]
Put(f) == prev[f[1]][f[2]]

\* The frames begun one within the other: each is still open, and found what the one before it
\* set; the newest has set the source, and without any crossing the first found none.
SInv ==
  /\ \A r \in Requests : Len(prev[r]) <= 2
  /\ \A i \in 1 .. Len(nest) : nest[i][2] <= Len(prev[nest[i][1]])
  /\ \A i, j \in 1 .. Len(nest) : i < j => nest[i] # nest[j]
  /\ nest # <<>> => srcCur = Sets(nest[Len(nest)])
  /\ \A i \in 2 .. Len(nest) : Put(nest[i]) = Sets(nest[i - 1])
  /\ ~crossed /\ nest = <<>> => srcCur = Unset
  /\ ~crossed /\ nest # <<>> => Put(nest[1]) = Unset
  /\ \A i \in DOMAIN activities : activities[i].newest => activities[i].source = activities[i].own

SLines == [own : Sources, source : Sources, newest : BOOLEAN, served : BOOLEAN]

\* A frame is a request and a depth.
LEMMA Frame ==
  ASSUME NEW f \in Requests \X {1, 2}
  PROVE  /\ f[1] \in Requests /\ f[2] \in {1, 2} /\ f = <<f[1], f[2]>>
         /\ SourceTypeOK => Sets(f) \in Sources
BY SourceAssumption DEF Sets, Sources, SourceTypeOK

LEMMA SourceStart == SourceInit => SourceTypeOK /\ SInv
<1> SUFFICES ASSUME SourceInit PROVE SourceTypeOK /\ SInv
  OBVIOUS
<1>1. /\ srcCur = Unset /\ prev = [r \in Requests |-> <<>>] /\ activities = <<>>
      /\ nest = <<>> /\ crossed = FALSE
  BY DEF SourceInit
<1>2. activities \in Seq(SLines) /\ nest \in Seq(Requests \X {1, 2})
  BY <1>1
<1>3. prev \in [Requests -> Seq(Sources \cup {Unset})]
  BY <1>1
<1>4. SourceTypeOK
  BY <1>1, <1>2, <1>3 DEF SourceTypeOK, SLines
<1>5. SInv
  BY <1>1 DEF SInv
<1> QED BY <1>4, <1>5

\* A new frame, which finds what the newest has set.
LEMMA Pushed ==
  ASSUME SourceTypeOK, SInv, NEW r \in Requests, Enter(r) \/ ImportFile(r)
  PROVE  SourceTypeOK' /\ SInv'
<1> DEFINE d == Len(prev[r]) + 1
           new == <<r, d>>
           S == Sources \cup {Unset}
<1>0. /\ SourceOf \in [Requests -> Sources] /\ Unset \notin Sources /\ "import" \in Sources
      /\ srcCur \in S /\ prev \in [Requests -> Seq(S)] /\ nest \in Seq(Requests \X {1, 2})
  BY SourceAssumption DEF SourceTypeOK, Sources
<1>1. /\ d \in {1, 2} /\ Len(prev[r]) < d
      /\ SetActivitySource(r, Sets(new))
  <2>1. CASE Enter(r)
    BY <1>0, <2>1 DEF Enter, Sets
  <2>2. CASE ImportFile(r)
    BY <1>0, <2>2 DEF ImportFile, Sets
  <2> QED BY <2>1, <2>2
<1>2. /\ activities' = activities /\ crossed' = crossed /\ srcCur' = Sets(new)
      /\ prev' = [prev EXCEPT ![r] = Append(prev[r], srcCur)]
      /\ nest' = Append(nest, new)
  BY <1>1 DEF SetActivitySource
<1>3. new \in Requests \X {1, 2} /\ new[1] = r /\ new[2] = d /\ Sets(new) \in Sources
  BY <1>0, <1>1, Frame
<1> HIDE DEF new
<1> DEFINE n == Len(nest)
<1>4. /\ n \in Nat /\ Len(nest') = n + 1 /\ nest' \in Seq(Requests \X {1, 2}) /\ nest' # <<>>
      /\ nest'[n + 1] = new /\ \A i \in 1 .. n : nest'[i] = nest[i]
  BY <1>0, <1>2, <1>3
<1>5. /\ prev'[r] \in Seq(S) /\ Len(prev'[r]) = d /\ prev'[r][d] = srcCur
      /\ \A k \in 1 .. Len(prev[r]) : prev'[r][k] = prev[r][k]
      /\ \A q \in Requests : q # r => prev'[q] = prev[q]
      /\ prev' \in [Requests -> Seq(S)]
  BY <1>0, <1>2
<1>6. \A i \in 1 .. n : /\ nest[i] \in Requests \X {1, 2} /\ nest[i][1] \in Requests
                         /\ nest[i][2] \in {1, 2} /\ nest[i][2] <= Len(prev[nest[i][1]])
  BY <1>0, Frame DEF SInv
<1>7. \A i \in 1 .. n : /\ prev'[nest[i][1]][nest[i][2]] = Put(nest[i])
                         /\ nest[i][2] <= Len(prev'[nest[i][1]])
  <2> TAKE i \in 1 .. n
  <2>1. CASE nest[i][1] = r
    <3>1. nest[i][2] \in 1 .. Len(prev[r]) /\ nest[i][2] <= d
      <4>1. Len(prev[r]) \in Nat
        BY <1>0
      <4>2. nest[i][2] \in {1, 2} /\ nest[i][2] <= Len(prev[r])
        BY <1>6, <2>1
      <4> QED BY <4>1, <4>2
    <3> QED BY <1>5, <2>1, <3>1 DEF Put
  <2>2. CASE nest[i][1] # r
    BY <1>5, <1>6, <2>2 DEF Put
  <2> QED BY <2>1, <2>2
<1>8. SourceTypeOK'
  BY <1>0, <1>2, <1>3, <1>4, <1>5 DEF SourceTypeOK
<1>9. SInv'
  <2>1. \A q \in Requests : Len(prev'[q]) <= 2
    BY <1>1, <1>5 DEF SInv
  <2>2. \A i \in 1 .. n + 1 : nest'[i][2] <= Len(prev'[nest'[i][1]])
    <3> TAKE i \in 1 .. n + 1
    <3>1. CASE i \in 1 .. n
      BY <1>4, <1>7, <3>1
    <3>2. CASE i = n + 1
      BY <1>1, <1>3, <1>4, <1>5, <3>2
    <3> QED BY <1>4, <3>1, <3>2
  <2>3. \A i, j \in 1 .. n + 1 : i < j => nest'[i] # nest'[j]
    <3> SUFFICES ASSUME NEW i \in 1 .. n + 1, NEW j \in 1 .. n + 1, i < j
                 PROVE  nest'[i] # nest'[j]
      OBVIOUS
    <3>1. CASE j \in 1 .. n
      <4>1. i \in 1 .. n
        BY <1>4, <3>1
      <4>2. nest[i] # nest[j]
        BY <3>1, <4>1 DEF SInv
      <4>3. nest'[i] = nest[i] /\ nest'[j] = nest[j]
        BY <1>4, <3>1, <4>1
      <4> QED BY <4>2, <4>3
    <3>2. CASE j = n + 1
      <4>1. nest'[i] = nest[i] /\ nest[i][2] <= Len(prev[nest[i][1]]) /\ nest'[j] = new
        BY <1>4, <1>6, <3>2
      <4>2. nest[i] # new
        BY <1>0, <1>1, <1>3, <4>1
      <4> QED BY <4>1, <4>2
    <3>3. j \in 1 .. n \/ j = n + 1
      <4>1. n \in Nat
        BY <1>4
      <4> HIDE DEF n
      <4> QED BY <4>1
    <3> QED BY <3>1, <3>2, <3>3
  <2>4. srcCur' = Sets(nest'[n + 1])
    BY <1>2, <1>4
  <2>5. \A i \in 2 .. n + 1 : prev'[nest'[i][1]][nest'[i][2]] = Sets(nest'[i - 1])
    <3> TAKE i \in 2 .. n + 1
    <3>1. CASE i \in 2 .. n
      BY <1>4, <1>7, <3>1 DEF SInv
    <3>2. CASE i = n + 1
      <4>1. n \in 1 .. n /\ i - 1 = n
        BY <1>4, <3>2
      <4>2. nest # <<>> /\ nest'[i] = new /\ nest'[i - 1] = nest[n]
        BY <1>0, <1>4, <3>2, <4>1
      <4>3. srcCur = Sets(nest[n])
        BY <4>2 DEF SInv
      <4> QED BY <1>3, <1>5, <4>2, <4>3
    <3> QED BY <1>4, <3>1, <3>2
  <2>6. ~crossed' => prev'[nest'[1][1]][nest'[1][2]] = Unset
    <3>1. CASE nest = <<>>
      <4>1. n = 0 /\ nest'[1] = new
        BY <1>4, <3>1
      <4>2. ~crossed' => srcCur = Unset
        BY <1>2, <3>1 DEF SInv
      <4> QED BY <1>3, <1>5, <4>1, <4>2
    <3>2. CASE nest # <<>>
      <4>1. 1 \in 1 .. n
        BY <1>0, <1>4, <3>2
      <4>2. ~crossed' => Put(nest[1]) = Unset
        BY <1>2, <3>2 DEF SInv
      <4> QED BY <1>4, <1>7, <4>1, <4>2
    <3> QED BY <3>1, <3>2
  <2>7. \A i \in DOMAIN activities' : activities'[i].newest => activities'[i].source = activities'[i].own
    BY <1>2 DEF SInv
  <2>8. Len(nest') = n + 1 /\ nest' # <<>>
    BY <1>4
  <2>9. (\A i \in 2 .. Len(nest) : Put(nest[i]) = Sets(nest[i - 1]))'
    BY <2>5, <2>8 DEF Put
  <2>10. (~crossed /\ nest # <<>> => Put(nest[1]) = Unset)'
    BY <2>6 DEF Put
  <2>11. (nest # <<>> => srcCur = Sets(nest[Len(nest)]))'
    BY <2>4, <2>8
  <2> QED BY <2>1, <2>2, <2>3, <2>7, <2>8, <2>9, <2>10, <2>11 DEF SInv
<1> QED BY <1>8, <1>9

\* The newest frame puts back what the one before it set; any other crosses.
LEMMA Popped ==
  ASSUME SourceTypeOK, SInv, NEW r \in Requests, Restore(r)
  PROVE  SourceTypeOK' /\ SInv'
<1> DEFINE d == Len(prev[r])
           S == Sources \cup {Unset}
           n == Len(nest)
<1>0. /\ srcCur \in S /\ prev \in [Requests -> Seq(S)] /\ nest \in Seq(Requests \X {1, 2})
      /\ crossed \in BOOLEAN /\ activities \in Seq(SLines)
      /\ prev[r] # <<>> /\ activities' = activities
      /\ srcCur' = prev[r][d] /\ prev' = [prev EXCEPT ![r] = SubSeq(prev[r], 1, d - 1)]
  BY DEF SourceTypeOK, Restore, SLines
<1>1. d \in {1, 2} /\ n \in Nat
  <2>1. d \in Nat /\ d # 0 /\ n \in Nat
    BY <1>0
  <2>2. d <= 2
    BY DEF SInv
  <2> HIDE DEF d
  <2> QED BY <2>1, <2>2
<1>2. /\ prev'[r] \in Seq(S) /\ Len(prev'[r]) = d - 1 /\ srcCur' \in S
      /\ \A k \in 1 .. d - 1 : prev'[r][k] = prev[r][k]
      /\ \A q \in Requests : q # r => prev'[q] = prev[q]
      /\ prev' \in [Requests -> Seq(S)]
  <2>1. /\ SubSeq(prev[r], 1, d - 1) \in Seq(S) /\ Len(SubSeq(prev[r], 1, d - 1)) = d - 1
        /\ \A k \in 1 .. d - 1 : SubSeq(prev[r], 1, d - 1)[k] = prev[r][k]
    <3>1. prev[r] \in Seq(S) /\ 1 \in 1 .. d + 1 /\ d - 1 \in 0 .. d
      BY <1>0, <1>1
    <3> HIDE DEF S
    <3> QED BY <1>1, <3>1, SubSeqProperties
  <2>2. prev[r][d] \in S
    BY <1>0, <1>1
  <2> QED BY <1>0, <2>1, <2>2
<1>3. \A q \in Requests : Len(prev'[q]) <= 2
  <2> SUFFICES ASSUME NEW q \in Requests
               PROVE  Len(prev'[q]) <= 2
    OBVIOUS
  <2>1. CASE q = r
    <3>1. Len(prev'[r]) = d - 1
      BY <1>2
    <3> HIDE DEF d
    <3> QED BY <1>1, <2>1, <3>1
  <2>2. CASE q # r
    <3>1. prev'[q] = prev[q]
      BY <1>2, <2>2
    <3> QED BY <3>1 DEF SInv
  <2> QED BY <2>1, <2>2
<1>4. CASE ~Newest(r)
  <2>1. nest' = <<>> /\ crossed' = TRUE
    BY <1>4 DEF Restore, Leaves
  <2>2. SourceTypeOK'
    BY <1>0, <1>2, <2>1 DEF SourceTypeOK, SLines
  <2>3. SInv'
    BY <1>0, <1>3, <2>1 DEF SInv
  <2> QED BY <2>2, <2>3
<1>5. CASE Newest(r)
  <2>1. /\ n > 0 /\ nest[n] = <<r, d>> /\ nest' = SubSeq(nest, 1, n - 1) /\ crossed' = crossed
    BY <1>0, <1>1, <1>5 DEF Restore, Leaves, Newest
  <2>2. /\ nest' \in Seq(Requests \X {1, 2}) /\ Len(nest') = n - 1
        /\ \A i \in 1 .. n - 1 : nest'[i] = nest[i]
    <3> DEFINE Frames == Requests \X {1, 2}
    <3>1. nest \in Seq(Frames) /\ 1 \in 1 .. n + 1 /\ n - 1 \in 0 .. n
      BY <1>0, <1>1, <2>1
    <3> HIDE DEF Frames
    <3>2. /\ SubSeq(nest, 1, n - 1) \in Seq(Frames) /\ Len(SubSeq(nest, 1, n - 1)) = n - 1
          /\ \A i \in 1 .. n - 1 : SubSeq(nest, 1, n - 1)[i] = nest[i]
      <4>1. SubSeq(nest, 1, n - 1) \in Seq(Frames)
        BY <1>1, <3>1, SubSeqProperties
      <4>2. Len(SubSeq(nest, 1, n - 1)) = n - 1
        <5>1. Len(SubSeq(nest, 1, n - 1)) = IF 1 <= n - 1 THEN (n - 1) - 1 + 1 ELSE 0
          BY <3>1, SubSeqProperties
        <5> HIDE DEF n
        <5> QED BY <1>1, <2>1, <5>1
      <4>3. \A i \in 1 .. n - 1 : SubSeq(nest, 1, n - 1)[i] = nest[1 + i - 1]
        BY <1>1, <3>1, <4>2, SubSeqProperties
      <4> QED BY <1>1, <4>1, <4>2, <4>3
    <3> QED BY <2>1, <3>2 DEF Frames
  <2>3. \A i \in 1 .. n : nest[i][1] \in Requests /\ nest[i][2] \in {1, 2} /\ nest[i] = <<nest[i][1], nest[i][2]>>
    BY <1>0, Frame
  <2>4. \A i \in 1 .. n - 1 : /\ nest'[i][2] <= Len(prev'[nest'[i][1]])
                              /\ prev'[nest'[i][1]][nest'[i][2]] = Put(nest[i])
    <3> TAKE i \in 1 .. n - 1
    <3>1. nest'[i] = nest[i] /\ nest[i] # <<r, d>> /\ nest[i][2] <= Len(prev[nest[i][1]])
      <4>1. i \in 1 .. n /\ n \in 1 .. n /\ i < n
        BY <1>1, <2>1
      <4> QED BY <2>1, <2>2, <4>1 DEF SInv
    <3>2. CASE nest[i][1] = r
      <4>1. i \in 1 .. n
        BY <1>1
      <4>2. nest[i][2] \in {1, 2} /\ nest[i][2] # d
        BY <2>3, <3>1, <3>2, <4>1
      <4>3. nest[i][2] \in 1 .. d - 1
        BY <1>1, <3>1, <3>2, <4>2
      <4>4. prev'[r][nest[i][2]] = prev[r][nest[i][2]] /\ nest[i][2] <= Len(prev'[r])
        <5>1. /\ Len(prev'[r]) = d - 1
              /\ \A k \in 1 .. d - 1 : prev'[r][k] = prev[r][k]
          BY <1>2
        <5>2. nest[i][2] <= d - 1
          <6> HIDE DEF d
          <6> QED BY <1>1, <4>3
        <5> HIDE DEF d
        <5>3. prev'[r][nest[i][2]] = prev[r][nest[i][2]]
          BY <4>3, <5>1
        <5> QED BY <5>1, <5>2, <5>3
      <4> QED BY <3>1, <3>2, <4>4 DEF Put
    <3>3. CASE nest[i][1] # r
      <4>1. nest[i][1] \in Requests
        BY <1>1, <2>3
      <4> QED BY <1>2, <3>1, <3>3, <4>1 DEF Put
    <3> QED BY <3>2, <3>3
  <2>5. srcCur' = Put(nest[n])
    BY <1>0, <2>1 DEF Put
  <2>6. SourceTypeOK'
    BY <1>0, <1>2, <2>1, <2>2 DEF SourceTypeOK, SLines
  <2>7. \A i, j \in 1 .. n - 1 : i < j => nest'[i] # nest'[j]
    BY <1>1, <2>2 DEF SInv
  <2>8. nest' # <<>> => srcCur' = Sets(nest'[n - 1])
    BY <1>1, <2>2, <2>5 DEF SInv
  <2>9. \A i \in 2 .. n - 1 : prev'[nest'[i][1]][nest'[i][2]] = Sets(nest'[i - 1])
    BY <1>1, <2>2, <2>4 DEF SInv
  <2>10. ~crossed' /\ nest' = <<>> => srcCur' = Unset
    <3>1. nest' = <<>> => n = 1 /\ nest # <<>>
      <4>1. nest' = <<>> => Len(nest') = 0
        OBVIOUS
      <4> QED BY <1>1, <2>1, <2>2, <4>1
    <3> QED BY <2>1, <2>5, <3>1 DEF SInv
  <2>11. ~crossed' /\ nest' # <<>> => prev'[nest'[1][1]][nest'[1][2]] = Unset
    BY <1>1, <2>1, <2>2, <2>4 DEF SInv
  <2>12. (\A i \in 1 .. Len(nest) : nest[i][2] <= Len(prev[nest[i][1]]))'
    BY <2>2, <2>4
  <2>13. (\A i, j \in 1 .. Len(nest) : i < j => nest[i] # nest[j])'
    BY <2>2, <2>7
  <2>14. (nest # <<>> => srcCur = Sets(nest[Len(nest)]))'
    BY <2>2, <2>8 DEF Sets
  <2>15. (\A i \in 2 .. Len(nest) : Put(nest[i]) = Sets(nest[i - 1]))'
    BY <2>2, <2>9 DEF Put, Sets
  <2>16. (~crossed /\ nest # <<>> => Put(nest[1]) = Unset)'
    BY <2>11 DEF Put
  <2>17. (\A i \in DOMAIN activities : activities[i].newest => activities[i].source = activities[i].own)'
    BY <1>0 DEF SInv
  <2>18. SInv'
    BY <1>3, <2>10, <2>12, <2>13, <2>14, <2>15, <2>16, <2>17 DEF SInv
  <2> QED BY <2>6, <2>18
<1> QED BY <1>4, <1>5

LEMMA Logged ==
  ASSUME SourceTypeOK, SInv, NEW r \in Requests, LogActivity(r)
  PROVE  SourceTypeOK' /\ SInv'
<1> DEFINE line == [own |-> Own(r), source |-> ActiveSource, newest |-> Newest(r),
                    served |-> \E q \in Served : ActiveSource \in {SourceOf[q], Own(q)}]
           True(s) == \A i \in DOMAIN s : s[i].newest => s[i].source = s[i].own
<1>0. /\ SourceOf \in [Requests -> Sources] /\ Unset \notin Sources /\ prev[r] # <<>>
      /\ srcCur \in Sources \cup {Unset} /\ nest \in Seq(Requests \X {1, 2})
      /\ activities \in Seq(SLines) /\ UNCHANGED <<srcCur, prev, nest, crossed>>
      /\ \/ activities' = Append(activities, line)
         \/ activities' = Tail(Append(activities, line))
  BY SourceAssumption DEF SourceTypeOK, LogActivity, SLines
<1>1. Own(r) \in Sources /\ ActiveSource \in Sources
  BY <1>0 DEF Own, ActiveSource, Sources
<1>2. Newest(r) => ActiveSource = Own(r)
  <2> SUFFICES ASSUME Newest(r) PROVE ActiveSource = Own(r)
    OBVIOUS
  <2>1. srcCur = Sets(<<r, Len(prev[r])>>)
    BY DEF Newest, SInv
  <2>2. srcCur = Own(r)
    BY <2>1 DEF Sets, Own
  <2> QED BY <1>0, <1>1, <2>2 DEF ActiveSource
<1>3. line \in SLines /\ (line.newest => line.source = line.own)
  <2>1. Newest(r) \in BOOLEAN
    BY DEF Newest
  <2> QED BY <1>1, <1>2, <2>1 DEF SLines
<1>4. True(activities)
  BY DEF SInv
<1> HIDE DEF line
<1>5. activities' \in Seq(SLines) /\ True(activities')
  <2> DEFINE all == Append(activities, line)
  <2>1. all \in Seq(SLines) /\ all # <<>>
    <3>1. line \in SLines /\ activities \in Seq(SLines)
      BY <1>0, <1>3
    <3> QED BY <3>1, AppendProperties
  <2>2. True(all)
    <3>1. DOMAIN all = 1 .. Len(activities) + 1 /\ DOMAIN activities = 1 .. Len(activities)
      BY <1>0, <1>3
    <3>2. \A i \in 1 .. Len(activities) : all[i] = activities[i]
      BY <1>0, <1>3
    <3>3. all[Len(activities) + 1] = line
      BY <1>0, <1>3
    <3> HIDE DEF all
    <3> QED BY <1>0, <1>3, <1>4, <3>1, <3>2, <3>3
  <2> HIDE DEF all
  <2>3. Tail(all) \in Seq(SLines) /\ True(Tail(all))
    BY <2>1, <2>2
  <2> QED BY <1>0, <2>1, <2>2, <2>3 DEF all
<1>6. SourceTypeOK'
  BY <1>0, <1>5 DEF SourceTypeOK, SLines
<1>7. SInv'
  BY <1>0, <1>5 DEF SInv, Put
<1> QED BY <1>6, <1>7

\* With requests served at the same time, any number of them, a line of the history names the
\* source of the newest of those begun one within the other, whatever was left behind before, in
\* imports and over lines the history drops; and none is left set after the last of them when none
\* outlived one it began in (internal/store/activity.go).
THEOREM LinesNameTheirSource == SourceSpec => []SourceTrue
<1>1. SourceTypeOK /\ SInv /\ [SourceNext]_sourceVars => (SourceTypeOK /\ SInv)'
  <2> SUFFICES ASSUME SourceTypeOK, SInv, [SourceNext]_sourceVars PROVE (SourceTypeOK /\ SInv)'
    OBVIOUS
  <2>1. CASE SourceNext
    BY <2>1, Pushed, Popped, Logged DEF SourceNext
  <2>2. CASE UNCHANGED sourceVars
    BY <2>2 DEF SourceTypeOK, SInv, Put, sourceVars
  <2> QED BY <2>1, <2>2
<1>2. SourceTypeOK /\ SInv => SourceTrue
  <2> SUFFICES ASSUME SourceTypeOK, SInv PROVE ~crossed /\ Served = {} => srcCur = Unset
    BY DEF SInv, SourceTrue
  <2>1. ASSUME nest # <<>> PROVE Served # {}
    <3>1. /\ nest[1] \in Requests \X {1, 2} /\ 1 \in 1 .. Len(nest)
          /\ prev \in [Requests -> Seq(Sources \cup {Unset})]
      BY <2>1 DEF SourceTypeOK
    <3>2. nest[1][1] \in Requests /\ nest[1][2] \in {1, 2} /\ nest[1][2] <= Len(prev[nest[1][1]])
      BY <3>1, Frame DEF SInv
    <3>3. prev[nest[1][1]] # <<>>
      BY <3>1, <3>2
    <3> QED BY <3>2, <3>3 DEF Served
  <2> QED BY <2>1 DEF SInv
<1> QED BY <1>1, <1>2, SourceStart, PTL DEF SourceSpec

-----------------------------------------------------------------------------
(* The service worker: what the page shows and what the network answered.    *)

Fetches == [url : Urls, no : Nat, had : Nat, page : {"waits", "given", "done"}, reply : Nat,
            handed : BOOLEAN, net : {"out", "back", "done"}, answer : Nat]

CacheNumbers ==
  /\ version \in Nat /\ cached \in [Urls -> Nat] /\ due \in Nat /\ seenPlace \in Nat
  /\ nFetches \in Nat /\ messages \in Nat
  /\ fetches \subseteq Fetches /\ place \in Urls

\* The requests are numbered in the order they are made.
Numbered ==
  /\ \A f \in fetches : f.no <= nFetches
  /\ \A f, g \in fetches : f.no = g.no => f = g

\* What the network answers a request with it answers once.
NotAnsweredYet ==
  \A f \in fetches : /\ f.no = nFetches /\ f.net # "done" => due = 0
                     /\ f.page = "waits" => ~f.handed /\ f.net # "done"

\* The page shows what the network answered, or is told, or has it on its way.
Hears ==
  \/ due = 0 \/ messages > 0 \/ recon
  \/ seenPlace >= due /\ \A f \in fetches : f.no = nFetches => f.page # "given"
  \/ \E f \in fetches : f.no = nFetches /\ f.page = "given" /\ f.reply = due

CacheInv == CacheNumbers /\ Numbered /\ NotAnsweredYet /\ Hears

LEMMA AskStarts ==
  ASSUME CacheInv, NEW u \in Urls, Cache!Ask(u), seenPlace' \in Nat, place' \in Urls,
         UNCHANGED <<version, cached, messages>>
  PROVE  CacheInv'
<1> DEFINE new == [url |-> u, no |-> nFetches + 1, had |-> cached[u], page |-> "waits", reply |-> 0,
                   handed |-> FALSE, net |-> "out", answer |-> 0]
<1>1. /\ nFetches' = nFetches + 1 /\ due' = 0
      /\ fetches' = fetches \cup {new}
  BY DEF Cache!Ask, Cache!None
<1>2. new \in Fetches /\ new.no = nFetches + 1 /\ ~new.handed /\ new.net = "out"
  BY DEF CacheInv, CacheNumbers, Fetches
<1> HIDE DEF new
<1>3. CacheNumbers'
  BY <1>1, <1>2 DEF CacheInv, CacheNumbers
<1>4. Numbered'
  BY <1>1, <1>2 DEF CacheInv, CacheNumbers, Fetches, Numbered
<1>5. NotAnsweredYet' /\ Hears'
  BY <1>1, <1>2 DEF CacheInv, NotAnsweredYet, Hears
<1> QED BY <1>3, <1>4, <1>5 DEF CacheInv

\* A request goes on, and keeps its number.
LEMMA GoesOnNumbered ==
  ASSUME CacheInv, NEW f \in fetches, NEW g \in Fetches, g.no = f.no, Cache!Becomes(f, g),
         UNCHANGED nFetches
  PROVE  /\ fetches' \subseteq Fetches /\ Numbered'
         /\ \A x \in fetches' : x = g \/ x \in fetches
         /\ \A x \in fetches' : x.no = nFetches => IF f.no = nFetches THEN x = g ELSE x \in fetches
         /\ g.page # "done" \/ g.net # "done" => g \in fetches'
         /\ \A x \in fetches : x # f => x \in fetches'
BY DEF Cache!Becomes, CacheInv, Numbered, CacheNumbers

LEMMA FetchKeeps ==
  ASSUME CacheInv, "burst" \notin Weather, NEW f \in fetches,
         \/ Cache!PageLands(f) \/ Cache!ServerAnswers(f) \/ Cache!Deadline(f)
         \/ Cache!AnswerArrives(f) \/ Cache!NetFails(f) \/ Cache!Cancelled(f)
  PROVE  CacheInv'
<1>0. /\ f \in Fetches /\ f.no \in Nat /\ f.url \in Urls /\ f.had \in Nat /\ f.reply \in Nat
      /\ f.answer \in Nat /\ CacheNumbers /\ Numbered /\ NotAnsweredYet /\ Hears
      /\ \A x \in fetches : x.no = f.no => x = f
  BY DEF CacheInv, CacheNumbers, Fetches, Numbered
<1>1. CASE Cache!PageLands(f)
  <2> DEFINE g == [f EXCEPT !.page = "done"]
  <2>1. /\ f.page = "given" /\ Cache!Becomes(f, g)
        /\ UNCHANGED <<version, keys, cached, place, lost, messages, recon, hush, due, nFetches>>
        /\ seenPlace' = IF f.no = nFetches /\ f.reply # 0 THEN f.reply ELSE seenPlace
    BY <1>1 DEF Cache!PageLands, Cache!Newest, Cache!None
  <2>2. g \in Fetches /\ g.no = f.no /\ g.net = f.net /\ g.page = "done"
    BY <1>0 DEF Fetches
  <2> HIDE DEF g
  <2>3. /\ fetches' \subseteq Fetches /\ Numbered'
        /\ \A x \in fetches' : x = g \/ x \in fetches
        /\ \A x \in fetches' : x.no = nFetches => IF f.no = nFetches THEN x = g ELSE x \in fetches
        /\ \A x \in fetches : x # f => x \in fetches'
    BY <2>1, <2>2, GoesOnNumbered
  <2>4. CacheNumbers'
    BY <1>0, <2>1, <2>3 DEF CacheNumbers
  <2>5. NotAnsweredYet'
    BY <1>0, <2>1, <2>2, <2>3 DEF NotAnsweredYet
  <2>6. Hears'
    BY <1>0, <2>1, <2>2, <2>3 DEF Hears, CacheNumbers, NotAnsweredYet
  <2> QED BY <2>3, <2>4, <2>5, <2>6 DEF CacheInv
<1>2. CASE Cache!ServerAnswers(f)
  <2> DEFINE g == [f EXCEPT !.net = "back", !.answer = version]
  <2>1. /\ f.net = "out" /\ Cache!Becomes(f, g)
        /\ UNCHANGED <<version, keys, cached, place, seenPlace, lost, messages, recon, hush, due, nFetches>>
    BY <1>2 DEF Cache!ServerAnswers
  <2>2. /\ g \in Fetches /\ g.no = f.no /\ g.net = "back"
        /\ g.page = f.page /\ g.reply = f.reply /\ g.handed = f.handed
    BY <1>0 DEF Fetches, CacheNumbers
  <2> HIDE DEF g
  <2>3. /\ fetches' \subseteq Fetches /\ Numbered'
        /\ \A x \in fetches' : x = g \/ x \in fetches
        /\ \A x \in fetches' : x.no = nFetches => IF f.no = nFetches THEN x = g ELSE x \in fetches
        /\ g.page # "done" \/ g.net # "done" => g \in fetches'
        /\ \A x \in fetches : x # f => x \in fetches'
    BY <2>1, <2>2, GoesOnNumbered
  <2>4. CacheNumbers'
    BY <1>0, <2>1, <2>3 DEF CacheNumbers
  <2>5. NotAnsweredYet'
    BY <1>0, <2>1, <2>2, <2>3 DEF NotAnsweredYet
  <2>6. Hears'
    BY <1>0, <2>1, <2>2, <2>3 DEF Hears, CacheNumbers
  <2> QED BY <2>3, <2>4, <2>5, <2>6 DEF CacheInv
<1>3. CASE Cache!Deadline(f)
  <2> DEFINE g == [f EXCEPT !.page = "given", !.reply = f.had, !.handed = TRUE]
  <2>1. /\ f.page = "waits" /\ Cache!Becomes(f, g)
        /\ UNCHANGED <<version, keys, cached, place, seenPlace, lost, messages, recon, hush, due, nFetches>>
    BY <1>3 DEF Cache!Deadline
  <2>2. g \in Fetches /\ g.no = f.no /\ g.net = f.net /\ g.page # "waits"
    BY <1>0 DEF Fetches
  <2> HIDE DEF g
  <2>3. /\ fetches' \subseteq Fetches /\ Numbered'
        /\ \A x \in fetches' : x = g \/ x \in fetches
        /\ \A x \in fetches' : x.no = nFetches => IF f.no = nFetches THEN x = g ELSE x \in fetches
        /\ \A x \in fetches : x # f => x \in fetches'
    BY <2>1, <2>2, GoesOnNumbered
  <2>4. CacheNumbers'
    BY <1>0, <2>1, <2>3 DEF CacheNumbers
  <2>5. NotAnsweredYet'
    BY <1>0, <2>1, <2>2, <2>3 DEF NotAnsweredYet
  <2>6. Hears'
    BY <1>0, <2>1, <2>2, <2>3 DEF Hears, CacheNumbers, NotAnsweredYet
  <2> QED BY <2>3, <2>4, <2>5, <2>6 DEF CacheInv
<1>4. CASE Cache!AnswerArrives(f)
  <2> DEFINE g == IF f.handed THEN [f EXCEPT !.net = "done"]
                              ELSE [f EXCEPT !.net = "done", !.page = "given", !.reply = f.answer]
  <2>1. /\ f.net = "back" /\ (f.handed => ~hush)
        /\ Cache!Put(f.url, f.answer)
        /\ due' = IF f.no = nFetches THEN f.answer ELSE due
        /\ Cache!Becomes(f, g)
        /\ IF f.handed THEN Cache!Notify ELSE UNCHANGED <<messages, hush>>
        /\ UNCHANGED <<version, place, seenPlace, lost, recon, nFetches>>
    BY <1>4 DEF Cache!AnswerArrives, Cache!Newest
  <2>2. /\ g \in Fetches /\ g.no = f.no /\ g.net = "done" /\ g.page # "waits"
        /\ ~f.handed => g.page = "given" /\ g.reply = f.answer
    BY <1>0 DEF Fetches, NotAnsweredYet
  <2> HIDE DEF g
  <2>3. /\ fetches' \subseteq Fetches /\ Numbered'
        /\ \A x \in fetches' : x = g \/ x \in fetches
        /\ \A x \in fetches' : x.no = nFetches => IF f.no = nFetches THEN x = g ELSE x \in fetches
        /\ g.page # "done" \/ g.net # "done" => g \in fetches'
        /\ \A x \in fetches : x # f => x \in fetches'
    BY <2>1, <2>2, GoesOnNumbered
  <2>4. cached' \in [Urls -> Nat]
    BY <1>0, <2>1 DEF Cache!Put, Cache!None, CacheNumbers
  <2>5. messages' \in Nat /\ (f.handed => messages' > 0) /\ messages' >= messages
    BY <1>0, <2>1 DEF Cache!Notify, CacheNumbers
  <2>6. CacheNumbers'
    BY <1>0, <2>1, <2>3, <2>4, <2>5 DEF CacheNumbers
  <2>7. NotAnsweredYet'
    BY <1>0, <2>1, <2>2, <2>3 DEF NotAnsweredYet
  <2>8. Hears'
    BY <2>5, <2>1, <2>2, <2>3, <1>0 DEF Hears, CacheNumbers
  <2> QED BY <2>3, <2>6, <2>7, <2>8 DEF CacheInv
<1>5. CASE Cache!NetFails(f)
  <2> DEFINE g == IF f.page = "waits"
                  THEN [f EXCEPT !.net = "done", !.page = "given",
                                 !.reply = IF f.had # 0 THEN f.had ELSE cached[f.url]]
                  ELSE [f EXCEPT !.net = "done"]
  <2>1. /\ f.net = "out" /\ Cache!Becomes(f, g)
        /\ UNCHANGED <<version, keys, cached, place, seenPlace, messages, recon, hush, due, nFetches>>
    BY <1>5 DEF Cache!NetFails, Cache!None
  <2>2. g \in Fetches /\ g.no = f.no /\ g.net = "done" /\ g.page # "waits"
    BY <1>0 DEF CacheNumbers, Fetches, NotAnsweredYet
  <2> HIDE DEF g
  <2>3. /\ fetches' \subseteq Fetches /\ Numbered'
        /\ \A x \in fetches' : x = g \/ x \in fetches
        /\ \A x \in fetches' : x.no = nFetches => IF f.no = nFetches THEN x = g ELSE x \in fetches
        /\ \A x \in fetches : x # f => x \in fetches'
    BY <2>1, <2>2, GoesOnNumbered
  <2>4. CacheNumbers'
    BY <1>0, <2>1, <2>3 DEF CacheNumbers
  <2>5. NotAnsweredYet'
    BY <1>0, <2>1, <2>2, <2>3 DEF NotAnsweredYet
  <2>6. Hears'
    BY <1>0, <2>1, <2>2, <2>3 DEF Hears, CacheNumbers, NotAnsweredYet
  <2> QED BY <2>3, <2>4, <2>5, <2>6 DEF CacheInv
<1>6. CASE Cache!Cancelled(f)
  BY <1>6, <1>0 DEF Cache!Cancelled, Cache!Newest, CacheInv, CacheNumbers, Numbered,
     NotAnsweredYet, Hears
<1> QED BY <1>1, <1>2, <1>3, <1>4, <1>5, <1>6

LEMMA CacheKeeps ==
  ASSUME CacheInv, "burst" \notin Weather, Cache!CacheNext
  PROVE  CacheInv'
<1>0. CacheNumbers /\ Numbered /\ NotAnsweredYet /\ Hears
  BY DEF CacheInv
<1>1. ASSUME NEW u \in Urls, Cache!Go(u)
      PROVE  CacheInv'
  BY <1>0, <1>1, AskStarts DEF Cache!Go, Cache!None, CacheNumbers
<1>2. CASE Cache!ReconcileFires
  BY <1>2, <1>0, AskStarts DEF Cache!ReconcileFires, CacheNumbers
<1>3. CASE Cache!MessageArrives
  BY <1>3, <1>0 DEF Cache!MessageArrives, CacheInv, CacheNumbers, Numbered, NotAnsweredYet, Hears
<1>4. CASE Cache!ServerChanges
  BY <1>4, <1>0 DEF Cache!ServerChanges, CacheInv, CacheNumbers, Numbered, NotAnsweredYet, Hears
<1>5. CASE Cache!FiveSecondsLater
  BY <1>5, <1>0 DEF Cache!FiveSecondsLater, CacheInv, CacheNumbers, Numbered, NotAnsweredYet,
     Hears
<1> QED BY <1>1, <1>2, <1>3, <1>4, <1>5, FetchKeeps DEF Cache!CacheNext

\* A page that was handed the cached answer hears of the later one: at rest it shows
\* nothing older than what the network answered its newest request with, for any number
\* of lists, cached answers and requests (staleWhileRevalidate and notifyRevalidated of
\* sw.js; late answers five seconds apart).
THEOREM CachedPageCatchesUp == "burst" \notin Weather => (PartsSpec => []CatchesUp)
<1> SUFFICES ASSUME "burst" \notin Weather
             PROVE  PartsSpec => []CatchesUp
  OBVIOUS
<1> DEFINE Inv == part = "cache" => CacheInv
<1>1. PartsInit => Inv
  BY DEF PartsInit, Cache!Init, Cache!None, CacheInv, CacheNumbers, Numbered, NotAnsweredYet, Hears
<1>2. Inv /\ [PartsNext]_partVars => Inv'
  <2> SUFFICES ASSUME Inv, [PartsNext]_partVars, part' = "cache" PROVE CacheInv'
    OBVIOUS
  <2>1. part = "cache" /\ (Cache!CacheNext \/ UNCHANGED cacheVars)
    BY DEF PartsNext, partVars
  <2>2. CASE UNCHANGED cacheVars
    BY <2>1, <2>2 DEF cacheVars, CacheInv, CacheNumbers, Numbered, NotAnsweredYet, Hears
  <2> QED BY <2>1, <2>2, CacheKeeps
<1>3. Inv => CatchesUp
  BY DEF CacheInv, CacheNumbers, Hears, CatchesUp, Cache!CatchesUp
<1> QED BY <1>1, <1>2, <1>3, PTL DEF PartsSpec

-----------------------------------------------------------------------------
(* Reminders: which tab knows that one has rung.                             *)

Orders   == [kind : {"ack", "snooze"}, key : Keys, tab : Tabs, done : BOOLEAN]
Messages == [type : {"seen", "dismiss", "snooze"}, keys : SUBSET Keys]

HasAnswer(p) == p \notin {NoPoll, Waiting}

RemindTypes ==
  /\ clock \in Nat /\ ledger \in [Keys -> [fired : BOOLEAN, until : Nat]]
  /\ known \in [Tabs -> SUBSET Keys] /\ stored \subseteq Keys
  /\ mail \in [Tabs -> Seq(Messages)] /\ rung \in [Keys -> Nat]
  /\ orders \subseteq Orders
  /\ poll = [t \in Tabs |-> poll[t]]
  /\ \A t \in Tabs : HasAnswer(poll[t]) => poll[t].overdue \subseteq Keys

\* What a tab that knows the keys in kn will know when it has read its messages m.
Forgets(x, k) == k \in x.keys /\ x.type = "snooze"
Settled(kn, m, k) ==
  \/ \E i \in 1 .. Len(m) :
       /\ k \in m[i].keys /\ m[i].type # "snooze"
       /\ \A j \in i + 1 .. Len(m) : ~Forgets(m[j], k)
  \/ k \in kn /\ \A j \in 1 .. Len(m) : ~Forgets(m[j], k)

\* localStorage is the copy of the tab that wrote it last.
OneCopy == \A t \in Tabs : \E w \in Tabs : stored = known[w]

\* Of what has rung every tab knows, or will when it has read its messages.
Heard == \A k \in Keys : rung[k] > 0 => \A t \in Tabs : Settled(known[t], mail[t], k)

\* No answer that names the key as overdue is on its way, and none can be made.
Silent(k) == rung[k] = 0 /\ \A t \in Tabs : HasAnswer(poll[t]) => k \notin poll[t].overdue
Asleep   == \A k \in Keys : ledger[k].until > clock => Silent(k)
Landing  ==
  \A j \in orders : j.done => /\ ledger[j.key].until > clock \/ ledger[j.key].fired
                              /\ Silent(j.key)

AtMostOnce == \A k \in Keys : rung[k] <= 1

RemindInv == RemindTypes /\ OneCopy /\ Heard /\ Asleep /\ Landing /\ AtMostOnce

-----------------------------------------------------------------------------
LEMMA SettledByLast ==
  ASSUME NEW kn, NEW m \in Seq(Messages), NEW x \in Messages, NEW k,
         k \in x.keys, x.type # "snooze"
  PROVE  Settled(kn, Append(m, x), k)
<1> DEFINE a == Append(m, x)
<1>1. Len(a) = Len(m) + 1 /\ Len(m) \in Nat /\ a[Len(m) + 1] = x
  OBVIOUS
<1> HIDE DEF a
<1>2. \E i \in 1 .. Len(a) : /\ k \in a[i].keys /\ a[i].type # "snooze"
                            /\ \A j \in i + 1 .. Len(a) : ~Forgets(a[j], k)
  BY <1>1
<1> QED BY <1>2 DEF Settled, a

LEMMA SettledStays ==
  ASSUME NEW kn, NEW m \in Seq(Messages), NEW x \in Messages, NEW k,
         Settled(kn, m, k), ~Forgets(x, k)
  PROVE  Settled(kn, Append(m, x), k)
<1> DEFINE a == Append(m, x)
<1>1. /\ Len(a) = Len(m) + 1 /\ Len(m) \in Nat /\ a[Len(m) + 1] = x
      /\ \A j \in 1 .. Len(m) : a[j] = m[j]
  OBVIOUS
<1> HIDE DEF a
<1>2. CASE k \in kn /\ \A j \in 1 .. Len(m) : ~Forgets(m[j], k)
  BY <1>1, <1>2 DEF Settled, a
<1>3. ASSUME NEW i \in 1 .. Len(m), k \in m[i].keys, m[i].type # "snooze",
             \A j \in i + 1 .. Len(m) : ~Forgets(m[j], k)
      PROVE  Settled(kn, a, k)
  <2>1. i \in 1 .. Len(a) /\ a[i] = m[i]
    BY <1>1
  <2>2. ASSUME NEW j \in i + 1 .. Len(a) PROVE ~Forgets(a[j], k)
    BY <1>1, <1>3
  <2> QED BY <1>3, <2>1, <2>2 DEF Settled
<1> QED BY <1>2, <1>3 DEF Settled, a

LEMMA SettledByReading ==
  ASSUME NEW kn, NEW m \in Seq(Messages), m # <<>>, NEW k, Settled(kn, m, k)
  PROVE  Settled(IF Head(m).type = "snooze" THEN kn \ Head(m).keys ELSE kn \cup Head(m).keys, Tail(m), k)
<1> DEFINE b == Tail(m)
           kk == IF Head(m).type = "snooze" THEN kn \ Head(m).keys ELSE kn \cup Head(m).keys
<1>1. /\ Len(m) = Len(b) + 1 /\ Len(b) \in Nat /\ Head(m) = m[1]
      /\ \A j \in 1 .. Len(b) : b[j] = m[j + 1]
  OBVIOUS
<1>2. k \in kk <=> IF m[1].type = "snooze" THEN k \in kn /\ k \notin m[1].keys ELSE k \in kn \/ k \in m[1].keys
  BY <1>1
<1> HIDE DEF b, kk
<1>3. CASE k \in kn /\ \A j \in 1 .. Len(m) : ~Forgets(m[j], k)
  <2>1. ASSUME NEW j \in 1 .. Len(b) PROVE ~Forgets(b[j], k)
    BY <1>1, <1>3
  <2>2. 1 \in 1 .. Len(m)
    BY <1>1
  <2>3. k \in kk
    BY <1>2, <1>3, <2>2 DEF Forgets
  <2> QED BY <2>1, <2>3 DEF Settled, b, kk
<1>4. ASSUME NEW i \in 1 .. Len(m), k \in m[i].keys, m[i].type # "snooze",
             \A j \in i + 1 .. Len(m) : ~Forgets(m[j], k)
      PROVE  Settled(kk, b, k)
  <2>1. CASE i = 1
    <3>1. ASSUME NEW j \in 1 .. Len(b) PROVE ~Forgets(b[j], k)
      BY <1>1, <2>1, <1>4
    <3>2. k \in kk
      BY <1>2, <1>4, <2>1
    <3> QED BY <3>1, <3>2 DEF Settled
  <2>2. CASE i # 1
    <3>1. i - 1 \in 1 .. Len(b) /\ (i - 1) + 1 = i
      BY <1>1, <2>2
    <3>2. b[i - 1] = m[i]
      BY <1>1, <3>1
    <3>3. ASSUME NEW j \in (i - 1) + 1 .. Len(b) PROVE ~Forgets(b[j], k)
      BY <1>1, <3>1, <1>4
    <3> QED BY <1>4, <3>1, <3>2, <3>3 DEF Settled
  <2> QED BY <2>1, <2>2
<1> QED BY <1>3, <1>4 DEF Settled, b, kk

LEMMA SettledAtRest ==
  ASSUME NEW kn, NEW k
  PROVE  Settled(kn, <<>>, k) <=> k \in kn
BY DEF Settled

LEMMA SettledMore ==
  ASSUME NEW kn, NEW km, kn \subseteq km, NEW m, NEW k, Settled(kn, m, k)
  PROVE  Settled(km, m, k)
BY DEF Settled

-----------------------------------------------------------------------------
\* A tab writes its copy back: it is the one that wrote last.
LEMMA CopyWritten ==
  ASSUME RemindTypes, OneCopy, NEW t \in Tabs, NEW keys1 \in SUBSET Keys, Remind!Know(t, keys1)
  PROVE  OneCopy' /\ known' \in [Tabs -> SUBSET Keys] /\ stored' \subseteq Keys
         /\ known'[t] = keys1 /\ \A u \in Tabs : u # t => known'[u] = known[u]
<1>1. known' = [known EXCEPT ![t] = keys1] /\ stored' = IF keys1 = known[t] THEN stored ELSE keys1
  BY DEF Remind!Know
<1>2. known \in [Tabs -> SUBSET Keys] /\ stored \subseteq Keys
  BY DEF RemindTypes
<1>3. known' \in [Tabs -> SUBSET Keys] /\ known'[t] = keys1 /\ \A u \in Tabs : u # t => known'[u] = known[u]
  BY <1>1, <1>2
<1>4. OneCopy'
  <2>1. CASE keys1 = known[t]
    BY <1>3, <2>1, <1>1 DEF OneCopy
  <2>2. CASE keys1 # known[t]
    BY <1>1, <1>3, <2>2 DEF OneCopy
  <2> QED BY <2>1, <2>2
<1> QED BY <1>1, <1>2, <1>3, <1>4

\* A tab tells the others.
LEMMA OthersTold ==
  ASSUME RemindTypes, NEW t \in Tabs, NEW type \in {"seen", "dismiss", "snooze"}, NEW ks \in SUBSET Keys,
         Remind!Tell(t, type, ks)
  PROVE  /\ mail' \in [Tabs -> Seq(Messages)] /\ mail'[t] = mail[t]
         /\ \E x \in Messages : /\ x.type = type /\ x.keys = ks
                                /\ \A u \in Tabs : u # t => mail'[u] = Append(mail[u], x)
<1> DEFINE x == [type |-> type, keys |-> ks]
<1>1. mail' = [u \in Tabs |-> IF u = t THEN mail[u] ELSE Append(mail[u], x)]
  BY DEF Remind!Tell
<1>2. x \in Messages /\ x.type = type /\ x.keys = ks
  BY DEF Messages
<1> HIDE DEF x
<1>3. mail' \in [Tabs -> Seq(Messages)]
  BY <1>1, <1>2 DEF RemindTypes
<1> QED BY <1>1, <1>2, <1>3

LEMMA PollsKeep ==
  ASSUME RemindInv, Tolerated = {}, NEW t \in Tabs,
         Remind!PollStarts(t) \/ Remind!ServerLists(t)
  PROVE  RemindInv'
<1>0. RemindTypes /\ OneCopy /\ Heard /\ Asleep /\ Landing /\ AtMostOnce
  BY DEF RemindInv
<1>1. UNCHANGED <<clock, ledger, stored, known, reminders, mail, orders, rung, nRings>>
  BY DEF Remind!PollStarts, Remind!ServerLists
<1>2. /\ poll' = [u \in Tabs |-> poll'[u]]
      /\ \A u \in Tabs : u # t => poll'[u] = poll[u]
      /\ HasAnswer(poll'[t]) => poll'[t].overdue \subseteq Keys
      /\ HasAnswer(poll'[t]) => \A k \in poll'[t].overdue : ~ledger[k].fired /\ ledger[k].until <= clock
  <2>1. CASE Remind!PollStarts(t)
    BY <2>1, <1>0 DEF Remind!PollStarts, RemindTypes, HasAnswer
  <2>2. CASE Remind!ServerLists(t)
    <3> DEFINE hits == [all |-> {k \in Keys : Remind!Listed(k)}, overdue |-> {k \in Keys : Remind!Overdue(k)}]
    <3>1. poll' = [poll EXCEPT ![t] = hits]
      BY <2>2 DEF Remind!ServerLists
    <3>2. hits.overdue \subseteq Keys /\ \A k \in hits.overdue : ~ledger[k].fired /\ ledger[k].until <= clock
      BY DEF Remind!Overdue, Remind!Listed
    <3> HIDE DEF hits
    <3> QED BY <1>0, <3>1, <3>2 DEF RemindTypes
  <2> QED BY <2>1, <2>2
<1>3. RemindTypes' /\ OneCopy' /\ Heard' /\ AtMostOnce'
  BY <1>0, <1>1, <1>2 DEF RemindTypes, OneCopy, Heard, AtMostOnce
<1>4. ASSUME NEW k \in Keys, Silent(k), ledger[k].until > clock \/ ledger[k].fired PROVE Silent(k)'
  <2>1. HasAnswer(poll'[t]) => k \notin poll'[t].overdue
    BY <1>0, <1>2, <1>4 DEF RemindTypes
  <2> QED BY <1>1, <1>2, <1>4, <2>1 DEF Silent
<1>5. Asleep'
  BY <1>0, <1>1, <1>4 DEF Asleep
<1>6. Landing'
  BY <1>0, <1>1, <1>4 DEF RemindTypes, Orders, Landing
<1> QED BY <1>3, <1>5, <1>6 DEF RemindInv

LEMMA PollLandsKeeps ==
  ASSUME RemindInv, Tolerated = {}, NEW t \in Tabs, Remind!PollLands(t)
  PROVE  RemindInv'
<1> DEFINE fresh == poll[t].overdue \ known[t]
<1>0. RemindTypes /\ OneCopy /\ Heard /\ Asleep /\ Landing /\ AtMostOnce
  BY DEF RemindInv
<1>1. /\ HasAnswer(poll[t]) /\ mail[t] = <<>>
      /\ Remind!Know(t, known[t] \cup fresh)
      /\ rung' = [k \in Keys |-> IF k \in fresh THEN rung[k] + 1 ELSE rung[k]]
      /\ IF fresh = {} THEN UNCHANGED mail ELSE Remind!Tell(t, "seen", fresh)
      /\ poll' = [poll EXCEPT ![t] = NoPoll]
      /\ UNCHANGED <<clock, ledger, orders, nRings>>
  BY DEF Remind!PollLands, HasAnswer
<1>2. fresh \subseteq Keys /\ known[t] \cup fresh \in SUBSET Keys
  BY <1>0, <1>1 DEF RemindTypes
<1>3. \A k \in fresh : k \in poll[t].overdue /\ k \notin known[t]
  OBVIOUS
<1> HIDE DEF fresh
<1>4. /\ OneCopy' /\ known' \in [Tabs -> SUBSET Keys] /\ stored' \subseteq Keys
      /\ known'[t] = known[t] \cup fresh /\ \A u \in Tabs : u # t => known'[u] = known[u]
  BY <1>0, <1>1, <1>2, CopyWritten
<1>5. /\ mail' \in [Tabs -> Seq(Messages)] /\ mail'[t] = mail[t]
      /\ \/ fresh = {} /\ mail' = mail
         \/ \E x \in Messages : /\ x.type = "seen" /\ x.keys = fresh
                                /\ \A u \in Tabs : u # t => mail'[u] = Append(mail[u], x)
  BY <1>0, <1>1, <1>2, OthersTold DEF RemindTypes
<1>6. rung' \in [Keys -> Nat] /\ \A k \in Keys : rung'[k] = IF k \in fresh THEN rung[k] + 1 ELSE rung[k]
  BY <1>0, <1>1 DEF RemindTypes
<1>7. /\ poll' = [u \in Tabs |-> poll'[u]]
      /\ \A u \in Tabs : HasAnswer(poll'[u]) => u # t /\ poll'[u] = poll[u]
  BY <1>0, <1>1 DEF RemindTypes, HasAnswer
<1>8. RemindTypes'
  BY <1>0, <1>1, <1>4, <1>5, <1>6, <1>7 DEF RemindTypes
\* What is new to the tab has not rung.
<1>9. \A k \in fresh : rung[k] = 0
  <2> SUFFICES ASSUME NEW k \in fresh, rung[k] # 0 PROVE FALSE
    OBVIOUS
  <2>1. k \in Keys /\ rung[k] > 0
    BY <1>0, <1>2 DEF RemindTypes
  <2>2. Settled(known[t], <<>>, k)
    BY <1>0, <1>1, <2>1 DEF Heard
  <2> QED BY <1>3, <2>2, SettledAtRest
<1>10. AtMostOnce'
  <2> SUFFICES ASSUME NEW k \in Keys PROVE rung'[k] <= 1
    BY DEF AtMostOnce
  <2>1. CASE k \in fresh
    BY <1>6, <1>9, <2>1
  <2>2. CASE k \notin fresh
    BY <1>0, <1>6, <2>2 DEF AtMostOnce
  <2> QED BY <2>1, <2>2
<1>11. Heard'
  <2> SUFFICES ASSUME NEW k \in Keys, rung'[k] > 0, NEW u \in Tabs
               PROVE  Settled(known'[u], mail'[u], k)
    BY DEF Heard
  <2>1. mail[u] \in Seq(Messages) /\ mail[t] \in Seq(Messages)
    BY <1>0 DEF RemindTypes
  <2>2. k \notin fresh => Settled(known[u], mail[u], k)
    BY <1>0, <1>6 DEF Heard
  <2>3. CASE u = t
    <3>1. k \in known'[t]
      BY <1>1, <2>2, <2>3, SettledAtRest, <1>4
    <3> QED BY <1>1, <1>5, <2>3, <3>1, SettledAtRest
  <2>4. CASE u # t /\ fresh = {} /\ mail' = mail
    BY <1>4, <2>2, <2>4
  <2>5. ASSUME NEW x \in Messages, x.type = "seen", x.keys = fresh,
               \A v \in Tabs : v # t => mail'[v] = Append(mail[v], x), u # t
        PROVE  Settled(known'[u], mail'[u], k)
    <3>1. mail'[u] = Append(mail[u], x) /\ known'[u] = known[u] /\ ~Forgets(x, k)
      BY <1>4, <2>5 DEF Forgets
    <3>2. CASE k \in fresh
      BY <2>1, <2>5, <3>1, <3>2, SettledByLast
    <3>3. CASE k \notin fresh
      BY <2>1, <2>2, <3>1, <3>3, SettledStays
    <3> QED BY <3>2, <3>3
  <2> QED BY <1>5, <2>3, <2>4, <2>5
<1>12. ASSUME NEW k \in Keys, Silent(k) PROVE Silent(k)'
  BY <1>1, <1>3, <1>12, <1>6, <1>7 DEF Silent
<1>13. Asleep'
  BY <1>0, <1>1, <1>12 DEF Asleep
<1>14. Landing'
  BY <1>0, <1>1, <1>12 DEF RemindTypes, Orders, Landing
<1> QED BY <1>4, <1>8, <1>10, <1>11, <1>13, <1>14 DEF RemindInv

\* What leaves the ledger, the answers and the bells as they are keeps what is quiet.
LEMMA StaysQuiet ==
  ASSUME RemindTypes, Asleep, Landing, AtMostOnce, UNCHANGED <<clock, ledger, rung>>,
         \A j \in orders' : j.done => j \in orders,
         \A u \in Tabs : HasAnswer(poll'[u]) => poll'[u] = poll[u]
  PROVE  Asleep' /\ Landing' /\ AtMostOnce'
BY DEF Silent, RemindTypes, Orders, Asleep, Landing, AtMostOnce

LEMMA ReloadKeeps ==
  ASSUME RemindInv, Tolerated = {}, NEW t \in Tabs, Remind!Reload(t)
  PROVE  RemindInv'
<1>0. RemindTypes /\ OneCopy /\ Heard /\ Asleep /\ Landing /\ AtMostOnce
  BY DEF RemindInv
<1>1. /\ \A u \in Tabs : mail[u] = <<>>
      /\ known' = [known EXCEPT ![t] = stored]
      /\ poll' = [poll EXCEPT ![t] = NoPoll]
      /\ mail' = [mail EXCEPT ![t] = <<>>]
      /\ UNCHANGED <<clock, ledger, stored, orders, rung>>
  BY DEF Remind!Reload
<1>2. /\ known' \in [Tabs -> SUBSET Keys] /\ known'[t] = stored
      /\ \A u \in Tabs : u # t => known'[u] = known[u]
  BY <1>0, <1>1 DEF RemindTypes
<1>3. mail' \in [Tabs -> Seq(Messages)] /\ \A u \in Tabs : mail'[u] = <<>>
  BY <1>0, <1>1 DEF RemindTypes
<1>4. /\ poll' = [u \in Tabs |-> poll'[u]]
      /\ \A u \in Tabs : HasAnswer(poll'[u]) => poll'[u] = poll[u]
  BY <1>0, <1>1 DEF RemindTypes, HasAnswer
<1>5. RemindTypes'
  BY <1>0, <1>1, <1>2, <1>3, <1>4 DEF RemindTypes
<1>6. OneCopy'
  BY <1>0, <1>1, <1>2 DEF OneCopy
<1>7. Heard'
  <2> SUFFICES ASSUME NEW k \in Keys, rung[k] > 0, NEW u \in Tabs
               PROVE  Settled(known'[u], <<>>, k)
    BY <1>1, <1>3 DEF Heard
  <2>1. \A v \in Tabs : k \in known[v]
    BY <1>0, <1>1, SettledAtRest DEF Heard
  <2>2. k \in stored
    BY <1>0, <2>1 DEF OneCopy
  <2> QED BY <1>2, <2>1, <2>2, SettledAtRest
<1>8. Asleep' /\ Landing' /\ AtMostOnce'
  BY <1>0, <1>1, <1>4, StaysQuiet
<1> QED BY <1>5, <1>6, <1>7, <1>8 DEF RemindInv

\* Messages other than "snooze" make no tab forget.
LEMMA DismissKeeps ==
  ASSUME RemindInv, Tolerated = {}, NEW t \in Tabs, NEW k \in Keys,
         Remind!Dismiss(t, k) \/ Remind!Snooze(t, k)
  PROVE  RemindInv'
<1>0. RemindTypes /\ OneCopy /\ Heard /\ Asleep /\ Landing /\ AtMostOnce
  BY DEF RemindInv
<1>1. /\ UNCHANGED <<clock, ledger, stored, known, poll, rung>>
      /\ \E j \in Orders : ~j.done /\ orders' = orders \cup {j}
      /\ UNCHANGED mail \/ Remind!Tell(t, "dismiss", {k})
  BY DEF Remind!Dismiss, Remind!Snooze, Orders
<1>2. orders' \subseteq Orders /\ \A j \in orders' : j.done => j \in orders
  BY <1>0, <1>1 DEF RemindTypes
<1>3. CASE UNCHANGED mail
  BY <1>0, <1>1, <1>2, <1>3, StaysQuiet DEF RemindTypes, OneCopy, Heard, RemindInv
<1>4. CASE Remind!Tell(t, "dismiss", {k})
  <2>1. /\ mail' \in [Tabs -> Seq(Messages)] /\ mail'[t] = mail[t]
        /\ \E x \in Messages : /\ x.type = "dismiss" /\ x.keys = {k}
                               /\ \A u \in Tabs : u # t => mail'[u] = Append(mail[u], x)
    BY <1>0, <1>4, OthersTold
  <2>2. RemindTypes' /\ OneCopy'
    BY <1>0, <1>1, <1>2, <2>1 DEF RemindTypes, OneCopy
  <2>3. Heard'
    <3> SUFFICES ASSUME NEW i \in Keys, rung[i] > 0, NEW u \in Tabs
                 PROVE  Settled(known[u], mail'[u], i)
      BY <1>1 DEF Heard
    <3>1. Settled(known[u], mail[u], i) /\ mail[u] \in Seq(Messages)
      BY <1>0 DEF Heard, RemindTypes
    <3>2. PICK x \in Messages : /\ x.type = "dismiss" /\ x.keys = {k}
                                /\ \A v \in Tabs : v # t => mail'[v] = Append(mail[v], x)
      BY <2>1
    <3>3. ~Forgets(x, i)
      BY <3>2 DEF Forgets
    <3>4. Settled(known[u], Append(mail[u], x), i)
      BY <3>1, <3>3, SettledStays
    <3> QED BY <2>1, <3>1, <3>2, <3>4
  <2> QED BY <1>0, <1>1, <1>2, <2>2, <2>3, StaysQuiet DEF RemindInv
<1> QED BY <1>1, <1>3, <1>4

LEMMA RecordsKeep ==
  ASSUME RemindInv, Tolerated = {}, NEW j \in orders, Remind!ServerRecords(j)
  PROVE  RemindInv'
<1> DEFINE entry == IF j.kind = "ack" THEN [fired |-> TRUE, until |-> 0]
                                      ELSE [ledger[j.key] EXCEPT !.until = clock + SnoozeFor]
           next == [j EXCEPT !.done = TRUE]
<1>0. /\ RemindTypes /\ OneCopy /\ Heard /\ Asleep /\ Landing /\ AtMostOnce
      /\ j \in Orders /\ j.key \in Keys /\ ledger[j.key] \in [fired : BOOLEAN, until : Nat]
      /\ clock \in Nat /\ SnoozeFor \in Nat /\ SnoozeFor > 0
  BY SnoozeAssumption DEF RemindInv, RemindTypes, Orders
<1>1. /\ ~j.done
      /\ j.kind = "snooze" => \A t \in Tabs : ~HasAnswer(poll[t])
      /\ ledger' = [ledger EXCEPT ![j.key] = entry]
      /\ rung' = IF j.kind = "snooze" THEN [rung EXCEPT ![j.key] = 0] ELSE rung
      /\ orders' = (orders \ {j}) \cup {i \in {next} : i.kind = "snooze"}
      /\ UNCHANGED <<clock, stored, known, reminders, poll, mail, nRings>>
  BY <1>0 DEF Remind!ServerRecords, HasAnswer
<1>2. /\ entry \in [fired : BOOLEAN, until : Nat]
      /\ j.kind = "ack" => entry.fired /\ entry.until = 0
      /\ j.kind = "snooze" => entry.until > clock
      /\ j.kind \in {"ack", "snooze"}
  BY <1>0 DEF Orders
<1>3. next \in Orders /\ next.key = j.key /\ next.kind = j.kind /\ next.done
  BY <1>0 DEF Orders
<1> HIDE DEF entry, next
<1>4. /\ ledger' \in [Keys -> [fired : BOOLEAN, until : Nat]] /\ ledger'[j.key] = entry
      /\ \A k \in Keys : k # j.key => ledger'[k] = ledger[k]
  BY <1>0, <1>1, <1>2 DEF RemindTypes
<1>5. /\ rung' \in [Keys -> Nat]
      /\ \A k \in Keys : rung'[k] = IF k = j.key /\ j.kind = "snooze" THEN 0 ELSE rung[k]
  BY <1>0, <1>1 DEF RemindTypes
<1>6. orders' \subseteq Orders /\ \A i \in orders' : i \in orders \/ (i = next /\ j.kind = "snooze")
  BY <1>0, <1>1, <1>3 DEF RemindTypes
<1>7. RemindTypes' /\ OneCopy'
  BY <1>0, <1>1, <1>4, <1>5, <1>6 DEF RemindTypes, OneCopy
<1>8. Heard' /\ AtMostOnce'
  BY <1>0, <1>1, <1>5 DEF Heard, AtMostOnce
<1>9. ASSUME NEW k \in Keys, Silent(k) PROVE Silent(k)'
  BY <1>1, <1>5, <1>9 DEF Silent
<1>10. j.kind = "snooze" => Silent(j.key)'
  BY <1>0, <1>1, <1>5 DEF Silent
<1>11. Asleep'
  <2> SUFFICES ASSUME NEW k \in Keys, ledger'[k].until > clock PROVE Silent(k)'
    BY <1>1 DEF Asleep
  <2>1. CASE k # j.key
    BY <1>0, <1>4, <1>9, <2>1 DEF Asleep
  <2>2. CASE k = j.key
    BY <1>0, <1>2, <1>4, <1>10, <2>2
  <2> QED BY <2>1, <2>2
<1>12. Landing'
  <2> SUFFICES ASSUME NEW i \in orders', i.done
               PROVE  (ledger'[i.key].until > clock \/ ledger'[i.key].fired) /\ Silent(i.key)'
    BY <1>1 DEF Landing
  <2>1. CASE i = next /\ j.kind = "snooze"
    BY <1>2, <1>3, <1>4, <1>10, <2>1
  <2>2. CASE i \in orders
    BY <1>0, <2>2, <1>9, <1>2, <1>4 DEF Landing, RemindTypes, Orders
  <2> QED BY <1>6, <2>1, <2>2
<1> QED BY <1>7, <1>8, <1>11, <1>12 DEF RemindInv

LEMMA SnoozeLandsKeeps ==
  ASSUME RemindInv, Tolerated = {}, NEW j \in orders, Remind!SnoozeLands(j)
  PROVE  RemindInv'
<1>0. /\ RemindTypes /\ OneCopy /\ Heard /\ Asleep /\ Landing /\ AtMostOnce
      /\ j.key \in Keys /\ j.tab \in Tabs /\ known[j.tab] \in SUBSET Keys
  BY DEF RemindInv, RemindTypes, Orders
<1>1. /\ j.done /\ \A u \in Tabs : mail[u] = <<>>
      /\ orders' = orders \ {j}
      /\ Remind!Know(j.tab, known[j.tab] \ {j.key})
      /\ Remind!Tell(j.tab, "snooze", {j.key})
      /\ UNCHANGED <<clock, ledger, poll, rung, nRings>>
  BY DEF Remind!SnoozeLands
<1>2. /\ OneCopy' /\ known' \in [Tabs -> SUBSET Keys] /\ stored' \subseteq Keys
      /\ known'[j.tab] = known[j.tab] \ {j.key} /\ \A u \in Tabs : u # j.tab => known'[u] = known[u]
  BY <1>0, <1>1, CopyWritten
<1>3. /\ mail' \in [Tabs -> Seq(Messages)] /\ mail'[j.tab] = mail[j.tab]
      /\ \E x \in Messages : /\ x.type = "snooze" /\ x.keys = {j.key}
                             /\ \A u \in Tabs : u # j.tab => mail'[u] = Append(mail[u], x)
  BY <1>0, <1>1, OthersTold
<1>4. RemindTypes'
  BY <1>0, <1>1, <1>2, <1>3 DEF RemindTypes
<1>5. Heard'
  <2> SUFFICES ASSUME NEW k \in Keys, rung[k] > 0, NEW u \in Tabs
               PROVE  Settled(known'[u], mail'[u], k)
    BY <1>1 DEF Heard
  <2>1. k # j.key
    BY <1>0, <1>1 DEF Landing, Silent
  <2>2. Settled(known[u], mail[u], k) /\ mail[u] = <<>> /\ mail[u] \in Seq(Messages)
    BY <1>0, <1>1 DEF Heard, RemindTypes
  <2>3. CASE u = j.tab
    BY <1>2, <1>3, <2>1, <2>2, <2>3, SettledAtRest
  <2>4. CASE u # j.tab
    <3>1. PICK x \in Messages : /\ x.type = "snooze" /\ x.keys = {j.key}
                                /\ \A v \in Tabs : v # j.tab => mail'[v] = Append(mail[v], x)
      BY <1>3
    <3>2. ~Forgets(x, k)
      BY <2>1, <3>1 DEF Forgets
    <3>3. Settled(known[u], Append(mail[u], x), k)
      BY <2>2, <3>2, SettledStays
    <3> QED BY <1>2, <2>4, <3>1, <3>3
  <2> QED BY <2>3, <2>4
<1>6. Asleep' /\ Landing' /\ AtMostOnce'
  BY <1>0, <1>1, StaysQuiet
<1> QED BY <1>2, <1>4, <1>5, <1>6 DEF RemindInv

LEMMA MailKeeps ==
  ASSUME RemindInv, Tolerated = {}, NEW t \in Tabs, Remind!MailArrives(t)
  PROVE  RemindInv'
<1> DEFINE m == mail[t]
           keys1 == IF Head(m).type = "snooze" THEN known[t] \ Head(m).keys ELSE known[t] \cup Head(m).keys
<1>0. RemindTypes /\ OneCopy /\ Heard /\ Asleep /\ Landing /\ AtMostOnce
  BY DEF RemindInv
<1>1. /\ m # <<>> /\ m \in Seq(Messages) /\ Head(m) \in Messages /\ Tail(m) \in Seq(Messages)
      /\ Remind!Know(t, keys1)
      /\ mail' = [mail EXCEPT ![t] = Tail(m)]
      /\ UNCHANGED <<clock, ledger, poll, orders, rung, nRings>>
  BY <1>0 DEF Remind!MailArrives, RemindTypes
<1>2. keys1 \in SUBSET Keys
  BY <1>0, <1>1 DEF RemindTypes, Messages
<1>3. \A k : Settled(known[t], m, k) => Settled(keys1, Tail(m), k)
  BY <1>1, SettledByReading
<1> HIDE DEF keys1
<1>4. /\ OneCopy' /\ known' \in [Tabs -> SUBSET Keys] /\ stored' \subseteq Keys
      /\ known'[t] = keys1 /\ \A u \in Tabs : u # t => known'[u] = known[u]
  BY <1>0, <1>1, <1>2, CopyWritten
<1>5. /\ mail' \in [Tabs -> Seq(Messages)] /\ mail'[t] = Tail(m)
      /\ \A u \in Tabs : u # t => mail'[u] = mail[u]
  BY <1>0, <1>1 DEF RemindTypes
<1>6. RemindTypes'
  BY <1>0, <1>1, <1>4, <1>5 DEF RemindTypes
<1>7. Heard'
  <2> SUFFICES ASSUME NEW k \in Keys, rung[k] > 0, NEW u \in Tabs
               PROVE  Settled(known'[u], mail'[u], k)
    BY <1>1 DEF Heard
  <2>1. Settled(known[u], mail[u], k)
    BY <1>0 DEF Heard
  <2> QED BY <1>3, <1>4, <1>5, <2>1
<1>8. Asleep' /\ Landing' /\ AtMostOnce'
  BY <1>0, <1>1, StaysQuiet
<1> QED BY <1>4, <1>6, <1>7, <1>8 DEF RemindInv

LEMMA RemindKeeps ==
  ASSUME RemindInv, Tolerated = {}, Remind!RemindNext
  PROVE  RemindInv'
<1>1. CASE Remind!Tick
  <2>1. /\ \A j \in orders : ~j.done
        /\ clock \in Nat /\ clock' = clock + 1
        /\ UNCHANGED <<ledger, stored, known, reminders, poll, mail, orders, rung, nRings>>
    BY <1>1 DEF Remind!Tick, RemindInv, RemindTypes
  <2>2. Asleep'
    <3> SUFFICES ASSUME NEW k \in Keys, ledger[k].until > clock' PROVE Silent(k)'
      BY <2>1 DEF Asleep
    <3>1. ledger[k].until > clock
      BY <2>1 DEF RemindInv, RemindTypes
    <3> QED BY <2>1, <3>1 DEF RemindInv, Asleep, Silent
  <2> QED BY <2>1, <2>2 DEF RemindInv, RemindTypes, OneCopy, Heard, Landing, AtMostOnce
<1> QED BY <1>1, ReloadKeeps, PollsKeep, PollLandsKeeps, MailKeeps, DismissKeeps, RecordsKeep,
           SnoozeLandsKeeps DEF Remind!RemindNext

\* In all tabs together a reminder rings at most once until it is put off, and not at all
\* while it is put off, for any number of tabs and reminders (pollReminders, snoozeReminder
\* and the BroadcastChannel of AppStore.tsx, DueReminders of reminders.go; messages between
\* tabs that overtake an answer, and answers made before a reminder is put off, are
\* excepted).
THEOREM RemindersRingOnce == Tolerated = {} => (PartsSpec => []RingsOnce)
<1> SUFFICES ASSUME Tolerated = {}
             PROVE  PartsSpec => []RingsOnce
  OBVIOUS
<1> DEFINE Inv == part = "remind" => RemindInv
<1>1. PartsInit => Inv
  <2> SUFFICES ASSUME PartsInit PROVE RemindInv
    OBVIOUS
  <2>1. /\ clock = 0 /\ ledger = [k \in Keys |-> [fired |-> FALSE, until |-> 0]]
        /\ stored = {} /\ known = [t \in Tabs |-> {}]
        /\ poll = [t \in Tabs |-> NoPoll] /\ mail = [t \in Tabs |-> <<>>] /\ orders = {}
        /\ rung = [k \in Keys |-> 0]
    BY DEF PartsInit, Remind!Init
  <2>2. RemindTypes
    BY <2>1 DEF RemindTypes, HasAnswer
  <2>3. OneCopy /\ Heard /\ Asleep /\ Landing /\ AtMostOnce
    BY <2>1 DEF OneCopy, Heard, Asleep, Landing, AtMostOnce
  <2> QED BY <2>2, <2>3 DEF RemindInv
<1>2. Inv /\ [PartsNext]_partVars => Inv'
  <2> SUFFICES ASSUME Inv, [PartsNext]_partVars, part' = "remind" PROVE RemindInv'
    OBVIOUS
  <2>1. part = "remind" /\ (Remind!RemindNext \/ UNCHANGED remindVars)
    BY DEF PartsNext, partVars
  <2>2. CASE UNCHANGED remindVars
    BY <2>1, <2>2 DEF remindVars, RemindInv, RemindTypes, OneCopy, Heard, Asleep, Landing, AtMostOnce, Silent
  <2> QED BY <2>1, <2>2, RemindKeeps
<1>3. Inv => RingsOnce
  BY DEF RemindInv, RemindTypes, Asleep, AtMostOnce, Silent, RingsOnce, Remind!RingsOnce
<1> QED BY <1>1, <1>2, <1>3, PTL DEF PartsSpec

-----------------------------------------------------------------------------
(* Operations on many tasks: what each request still has to write and tell.  *)

Rows       == [live : BOOLEAN, done : BOOLEAN, day : {"late", "today", "later"}]
BatchKinds == {"complete", "reopen", "move", "delete"}
SweepKinds == {"roll", "purge"}
Bulks == [no : Nat, kind : BatchKinds \cup SweepKinds, todo : SUBSET Picks, tell : SUBSET Picks,
          stage : {"read", "write", "tell", "ok", "failed"}]

BulkTypes ==
  /\ table \in [Picks -> Rows] /\ news \subseteq Picks /\ bulks \subseteq Bulks
  /\ selected \subseteq Picks /\ wanted \in [Picks -> BatchKinds \cup {"nothing"}]
  /\ nBulks \in Nat

\* An entry is as it was asked to be.
AsAsked(w, entry) == w = "nothing" \/ ~entry.live \/ Bulk!Doing(w, entry) = entry

\* A sweep is about the entry.
AboutRow(kind, entry) == /\ entry.live /\ entry.done = (kind = "purge")
                         /\ kind = "roll" => entry.day = "late"

\* At most one batch is under way, and one sweep of each kind.
Alike(k, l) == k = l \/ {k, l} \subseteq BatchKinds
OneOfAKind == \A b, c \in bulks : Alike(b.kind, c.kind) => b = c

\* What a request has written and not told is in its list, and only a roll-over writes on
\* before it tells.
TellOK(b) ==
  /\ b.stage \in {"read", "ok", "failed"} => b.tell = {}
  /\ b.stage = "write" /\ b.kind # "roll" => b.tell = {}

\* What a sweep has still to reach is what it is about.
SweepOK(b, rs) ==
  b.kind \in SweepKinds => /\ b.stage = "read" => b.todo = {}
                           /\ \A t \in b.todo : rs[t].live => AboutRow(b.kind, rs[t])

\* A batch is about the selection, and what it has passed is as asked.
BatchOK(b, rs, sel, w) ==
  b.kind \in BatchKinds =>
    /\ b.todo \subseteq sel
    /\ \A t \in sel : w[t] \in {"nothing", b.kind}
    /\ b.stage = "read" => b.todo = sel
    /\ b.stage \in {"write", "tell", "ok"} => \A t \in sel : t \in b.todo \/ AsAsked(w[t], rs[t])
    /\ b.stage = "ok" => b.todo = {}

OK(b) == TellOK(b) /\ SweepOK(b, table) /\ BatchOK(b, table, selected, wanted)

NoneLeft == \A t \in Picks : t \in selected \/ AsAsked(wanted[t], table[t])

BulkInv ==
  /\ BulkTypes /\ OneOfAKind /\ Bulk!NothingUnannounced /\ NoneLeft /\ wronged = {}
  /\ \A b \in bulks : OK(b)

-----------------------------------------------------------------------------
LEMMA DoingIs ==
  ASSUME NEW entry \in Rows
  PROVE  /\ Bulk!Doing("complete", entry) = [entry EXCEPT !.done = TRUE]
         /\ Bulk!Doing("reopen", entry) = [entry EXCEPT !.done = FALSE]
         /\ Bulk!Doing("move", entry) = [entry EXCEPT !.day = "today"]
         /\ Bulk!Doing("roll", entry) = [entry EXCEPT !.day = "today"]
         /\ Bulk!Doing("later", entry) = [entry EXCEPT !.day = "later"]
         /\ Bulk!Doing("delete", entry) = [entry EXCEPT !.live = FALSE]
         /\ Bulk!Doing("purge", entry) = [entry EXCEPT !.live = FALSE]
         /\ \A kind \in BatchKinds \cup SweepKinds \cup {"later"} : Bulk!Doing(kind, entry) \in Rows
BY DEF Bulk!Doing, Rows, BatchKinds, SweepKinds

\* What being as asked comes to.
LEMMA AsAskedIs ==
  ASSUME NEW entry \in Rows, NEW w \in BatchKinds \cup {"nothing"}
  PROVE  AsAsked(w, entry) <=> \/ w = "nothing"
                               \/ ~entry.live
                               \/ w = "complete" /\ entry.done
                               \/ w = "reopen" /\ ~entry.done
                               \/ w = "move" /\ entry.day = "today"
<1>1. CASE w = "complete"
  BY <1>1, DoingIs DEF Rows, AsAsked
<1>2. CASE w = "reopen"
  BY <1>2, DoingIs DEF Rows, AsAsked
<1>3. CASE w = "move"
  BY <1>3, DoingIs DEF Rows, AsAsked
<1>4. CASE w = "delete"
  BY <1>4, DoingIs DEF Rows, AsAsked
<1>5. CASE w = "nothing"
  BY <1>5 DEF AsAsked
<1> QED BY <1>1, <1>2, <1>3, <1>4, <1>5 DEF BatchKinds

\* What a batch writes is as asked, what a sweep writes stays as asked.
LEMMA WrittenAsAsked ==
  ASSUME NEW entry \in Rows
  PROVE  /\ \A kind \in BatchKinds : AsAsked(kind, Bulk!Doing(kind, entry))
         /\ \A kind \in SweepKinds, w \in BatchKinds \cup {"nothing"} :
              AsAsked(w, entry) => AsAsked(w, Bulk!Doing(kind, entry))
         /\ entry.done => AsAsked("complete", entry)
<1>1. ASSUME NEW kind \in BatchKinds PROVE AsAsked(kind, Bulk!Doing(kind, entry))
  <2>1. Bulk!Doing(kind, entry) \in Rows
    BY DoingIs
  <2>2. \/ kind = "complete" /\ Bulk!Doing(kind, entry) = [entry EXCEPT !.done = TRUE]
        \/ kind = "reopen" /\ Bulk!Doing(kind, entry) = [entry EXCEPT !.done = FALSE]
        \/ kind = "move" /\ Bulk!Doing(kind, entry) = [entry EXCEPT !.day = "today"]
        \/ kind = "delete" /\ Bulk!Doing(kind, entry) = [entry EXCEPT !.live = FALSE]
    BY DoingIs DEF BatchKinds
  <2>3. \/ kind = "complete" /\ Bulk!Doing(kind, entry).done
        \/ kind = "reopen" /\ ~Bulk!Doing(kind, entry).done
        \/ kind = "move" /\ Bulk!Doing(kind, entry).day = "today"
        \/ ~Bulk!Doing(kind, entry).live
    BY <2>2 DEF Rows
  <2> QED BY <2>1, <2>3, AsAskedIs
<1>2. ASSUME NEW kind \in SweepKinds, NEW w \in BatchKinds \cup {"nothing"}, AsAsked(w, entry)
      PROVE  AsAsked(w, Bulk!Doing(kind, entry))
  <2>1. Bulk!Doing(kind, entry) \in Rows
    BY DoingIs
  <2>2. \/ Bulk!Doing(kind, entry) = [entry EXCEPT !.day = "today"]
        \/ Bulk!Doing(kind, entry) = [entry EXCEPT !.live = FALSE]
    BY DoingIs DEF SweepKinds
  <2>3. \/ Bulk!Doing(kind, entry).done = entry.done /\ Bulk!Doing(kind, entry).live = entry.live
           /\ Bulk!Doing(kind, entry).day = "today"
        \/ ~Bulk!Doing(kind, entry).live
    BY <2>2 DEF Rows
  <2> QED BY <1>2, <2>1, <2>3, AsAskedIs
<1>3. entry.done => AsAsked("complete", entry)
  BY AsAskedIs DEF BatchKinds
<1> QED BY <1>1, <1>2, <1>3

\* A request goes on: it keeps its kind, and stays the one of its kind.
LEMMA OneGoesOn ==
  ASSUME BulkInv, NEW b \in bulks, NEW c \in Bulks, c.kind = b.kind, Bulk!Now(b, c)
  PROVE  /\ bulks' \subseteq Bulks /\ OneOfAKind' /\ c \in bulks'
         /\ \A x \in bulks' : x = c \/ (x \in bulks /\ x # b)
         /\ \A x \in bulks : x = b \/ x \in bulks'
<1>1. bulks' = (bulks \ {b}) \cup {c}
  BY DEF Bulk!Now
<1>2. \A x \in bulks : Alike(x.kind, c.kind) \/ Alike(c.kind, x.kind) => x = b
  BY DEF BulkInv, OneOfAKind, Alike
<1>3. OneOfAKind'
  <2> SUFFICES ASSUME NEW x \in bulks', NEW y \in bulks', Alike(x.kind, y.kind) PROVE x = y
    BY DEF OneOfAKind
  <2> QED BY <1>1, <1>2 DEF BulkInv, OneOfAKind
<1> QED BY <1>1, <1>3 DEF BulkInv, BulkTypes

\* A step of a request that leaves the rows and the selection as they are.
LEMMA QuietStep ==
  ASSUME BulkInv, NEW b \in bulks, NEW c \in Bulks, c.kind = b.kind, Bulk!Now(b, c),
         UNCHANGED <<table, selected, wanted, wronged, nBulks>>, news' \subseteq news,
         \A t \in b.tell : t \in news' => t \in c.tell,
         OK(c)
  PROVE  BulkInv'
BY OneGoesOn DEF BulkInv, BulkTypes, NoneLeft, Bulk!NothingUnannounced, OK

-----------------------------------------------------------------------------
LEMMA RowsWritten ==
  ASSUME BulkTypes, NEW kind \in BatchKinds \cup SweepKinds, NEW ids \in SUBSET Picks,
         Bulk!Written(kind, ids)
  PROVE  /\ table' \in [Picks -> Rows] /\ news' = news \cup ids /\ news' \subseteq Picks
         /\ \A t \in ids : table'[t] = Bulk!Doing(kind, table[t])
         /\ \A t \in Picks : t \notin ids => table'[t] = table[t]
BY DoingIs DEF Bulk!Written, BulkTypes

LEMMA BatchWrites ==
  ASSUME BulkInv, BulkLapses = {}, NEW b \in bulks, NEW c \in Bulks, NEW ids \in SUBSET b.todo,
         b.kind \in BatchKinds, b.stage = "write", c.kind = b.kind, Bulk!Now(b, c),
         Bulk!Written(b.kind, ids), Bulk!NotBeingSwept(ids),
         c.stage \in {"write", "tell"}, c.todo \subseteq b.todo, ids \subseteq c.tell, b.tell \subseteq c.tell,
         TellOK(c),
         \A t \in b.todo : t \in c.todo \/ t \in ids \/ AsAsked(wanted[t], table[t]),
         UNCHANGED <<selected, wanted, wronged, nBulks>>
  PROVE  BulkInv'
<1>0. /\ BulkTypes /\ OneOfAKind /\ Bulk!NothingUnannounced /\ NoneLeft /\ OK(b) /\ wronged = {}
      /\ b \in Bulks /\ b.todo \in SUBSET Picks /\ ids \in SUBSET Picks /\ b.kind \notin SweepKinds
  BY DEF BulkInv, BulkTypes, Bulks, BatchKinds, SweepKinds
<1>1. /\ bulks' \subseteq Bulks /\ OneOfAKind' /\ c \in bulks'
      /\ \A x \in bulks' : x = c \/ (x \in bulks /\ x # b)
      /\ \A x \in bulks : x = b \/ x \in bulks'
  BY OneGoesOn
<1>2. /\ table' \in [Picks -> Rows] /\ news' = news \cup ids /\ news' \subseteq Picks
      /\ \A t \in ids : table'[t] = Bulk!Doing(b.kind, table[t])
      /\ \A t \in Picks : t \notin ids => table'[t] = table[t]
  BY <1>0, RowsWritten
<1>3. BulkTypes' /\ wronged' = {}
  BY <1>0, <1>1, <1>2 DEF BulkTypes
<1>4. Bulk!NothingUnannounced'
  BY <1>0, <1>1, <1>2 DEF Bulk!NothingUnannounced
<1>5. b.todo \subseteq selected /\ \A t \in selected : wanted[t] \in {"nothing", b.kind}
  BY <1>0 DEF OK, BatchOK
<1>6. NoneLeft'
  BY <1>0, <1>2, <1>5 DEF NoneLeft
<1>7. \A t \in ids : AsAsked(wanted[t], table'[t])
  <2> SUFFICES ASSUME NEW t \in ids PROVE AsAsked(wanted[t], table'[t])
    OBVIOUS
  <2>1. wanted[t] = "nothing" \/ wanted[t] = b.kind
    BY <1>5
  <2>2. AsAsked(b.kind, table'[t])
    BY <1>0, <1>2, WrittenAsAsked DEF BulkTypes
  <2> QED BY <2>1, <2>2 DEF AsAsked
<1>8. OK(c)'
  <2>1. SweepOK(c, table')
    BY <1>0 DEF SweepOK
  <2>2. BatchOK(c, table', selected, wanted)
    <3>1. ASSUME NEW t \in selected PROVE t \in c.todo \/ AsAsked(wanted[t], table'[t])
      BY <1>0, <1>2, <1>7 DEF OK, BatchOK, BulkTypes
    <3> QED BY <1>5, <3>1 DEF BatchOK
  <2> QED BY <2>1, <2>2 DEF OK
<1>9. ASSUME NEW x \in bulks, x # b PROVE OK(x)'
  BY <1>0, <1>9, <1>2 DEF BulkTypes, Bulks, OneOfAKind, Alike, Bulk!NotBeingSwept, Bulk!Sweeps,
     SweepKinds, BulkInv, OK, SweepOK, BatchOK
<1> QED BY <1>1, <1>3, <1>4, <1>6, <1>8, <1>9 DEF BulkInv

LEMMA SweepWrites ==
  ASSUME BulkInv, BulkLapses = {}, NEW b \in bulks, NEW c \in Bulks, NEW t \in b.todo,
         b.kind \in SweepKinds, b.stage = "write", c.kind = b.kind, Bulk!Now(b, c),
         table[t].live, Bulk!Written(b.kind, {t}),
         c.stage = (IF b.kind = "roll" THEN "write" ELSE "tell"),
         c.todo = b.todo \ {t}, c.tell = b.tell \cup {t},
         UNCHANGED <<selected, wanted, wronged, nBulks>>
  PROVE  BulkInv'
<1>0. /\ BulkTypes /\ OneOfAKind /\ Bulk!NothingUnannounced /\ NoneLeft /\ OK(b) /\ wronged = {}
      /\ b \in Bulks /\ b.todo \in SUBSET Picks /\ t \in Picks /\ {t} \in SUBSET Picks
      /\ b.kind \notin BatchKinds /\ table[t] \in Rows
  BY DEF BulkInv, BulkTypes, Bulks, BatchKinds, SweepKinds
<1>1. /\ bulks' \subseteq Bulks /\ OneOfAKind' /\ c \in bulks'
      /\ \A x \in bulks' : x = c \/ (x \in bulks /\ x # b)
      /\ \A x \in bulks : x = b \/ x \in bulks'
  BY OneGoesOn
<1>2. /\ table' \in [Picks -> Rows] /\ news' = news \cup {t} /\ news' \subseteq Picks
      /\ table'[t] = Bulk!Doing(b.kind, table[t])
      /\ \A u \in Picks : u # t => table'[u] = table[u]
  BY <1>0, RowsWritten
<1>3. BulkTypes' /\ wronged' = {}
  BY <1>0, <1>1, <1>2 DEF BulkTypes
<1>4. Bulk!NothingUnannounced'
  BY <1>0, <1>1, <1>2 DEF Bulk!NothingUnannounced
<1>5. ASSUME NEW u \in Picks, AsAsked(wanted[u], table[u]) PROVE AsAsked(wanted[u], table'[u])
  BY <1>0, <1>2, <1>5, WrittenAsAsked DEF BulkTypes
<1>6. NoneLeft'
  BY <1>0, <1>5 DEF NoneLeft
<1>7. OK(c)'
  BY <1>0, <1>2 DEF TellOK, SweepKinds, OK, SweepOK, BatchOK
<1>8. ASSUME NEW x \in bulks, x # b PROVE OK(x)'
  <2>1. x \in Bulks /\ x.todo \in SUBSET Picks /\ x.kind # b.kind /\ OK(x)
    BY <1>0, <1>8 DEF BulkInv, BulkTypes, Bulks, OneOfAKind, Alike
  <2>2. x.kind \in SweepKinds => t \notin x.todo
    <3> SUFFICES ASSUME x.kind \in SweepKinds, t \in x.todo PROVE FALSE
      OBVIOUS
    <3>1. AboutRow(x.kind, table[t]) /\ AboutRow(b.kind, table[t])
      BY <1>0, <2>1 DEF OK, SweepOK
    <3> QED BY <2>1, <3>1 DEF AboutRow, SweepKinds
  <2>3. x.kind \in SweepKinds => \A u \in x.todo : table'[u] = table[u]
    BY <1>2, <2>1, <2>2
  <2>4. SweepOK(x, table')
    BY <2>1, <2>3 DEF OK, SweepOK
  <2>5. BatchOK(x, table', selected, wanted)
    BY <1>0, <1>5, <2>1 DEF OK, BatchOK, BulkTypes
  <2> QED BY <2>1, <2>4, <2>5 DEF OK
<1> QED BY <1>1, <1>3, <1>4, <1>6, <1>7, <1>8 DEF BulkInv

LEMMA WriteOneKeeps ==
  ASSUME BulkInv, BulkLapses = {}, NEW b \in bulks, NEW t \in Picks, Bulk!WriteOne(b, t)
  PROVE  BulkInv'
<1> DEFINE does == table[t].live /\ (b.kind = "complete" => ~table[t].done)
           c    == [b EXCEPT !.todo = @ \ {t}, !.tell = IF does THEN @ \cup {t} ELSE @]
           d    == IF does /\ b.kind # "roll" THEN [c EXCEPT !.stage = "tell"] ELSE c
<1>0. /\ BulkTypes /\ OneOfAKind /\ OK(b) /\ wronged = {} /\ b \in Bulks /\ b.todo \in SUBSET Picks
      /\ b.kind \in BatchKinds \cup SweepKinds /\ table[t] \in Rows
  BY DEF BulkInv, BulkTypes, Bulks
<1>1. /\ b.stage = "write" /\ b.kind # "reopen" /\ t \in b.todo
      /\ b.kind \in SweepKinds \/ Bulk!NotBeingSwept({t})
      /\ IF does THEN Bulk!Written(b.kind, {t}) ELSE UNCHANGED <<table, news>>
      /\ Bulk!Now(b, d)
      /\ wronged' = IF b.kind \in SweepKinds /\ table[t].live /\ t \notin Bulk!About(b.kind)
                    THEN wronged \cup {t} ELSE wronged
      /\ UNCHANGED <<selected, wanted, nBulks, nOthers>>
  BY DEF Bulk!WriteOne, Bulk!Sweeps, SweepKinds
<1>2. UNCHANGED wronged
  BY <1>0, <1>1 DEF OK, SweepOK, AboutRow, Bulk!About
<1>3. /\ d \in Bulks /\ d.kind = b.kind /\ d.todo = b.todo \ {t}
      /\ d.stage = (IF does /\ b.kind # "roll" THEN "tell" ELSE "write")
      /\ d.tell = IF does THEN b.tell \cup {t} ELSE b.tell
  BY <1>0, <1>1 DEF Bulks
<1> HIDE DEF c, d
<1>4. CASE ~does
  <2>1. ~table[t].live \/ (b.kind = "complete" /\ table[t].done)
    BY <1>0, <1>4 DEF Rows
  <2>2. b.kind \in BatchKinds => AsAsked(wanted[t], table[t])
    <3> SUFFICES ASSUME b.kind \in BatchKinds PROVE AsAsked(wanted[t], table[t])
      OBVIOUS
    <3>1. wanted[t] \in {"nothing", b.kind}
      BY <1>0, <1>1 DEF OK, BatchOK
    <3>2. b.kind = "complete" /\ table[t].done => AsAsked(b.kind, table[t])
      BY <1>0, WrittenAsAsked
    <3> QED BY <2>1, <3>1, <3>2 DEF AsAsked
  <2>3. TellOK(d)
    BY <1>0, <1>1, <1>3, <1>4 DEF OK, TellOK
  <2>4. SweepOK(d, table)
    BY <1>0, <1>3, <1>1, <1>4 DEF OK, SweepOK
  <2>5. BatchOK(d, table, selected, wanted)
    BY <1>0, <1>1, <1>3, <1>4, <2>2 DEF OK, BatchOK
  <2> QED BY <1>1, <1>2, <1>3, <1>4, <2>3, <2>4, <2>5, QuietStep DEF OK
<1>5. CASE does /\ b.kind \in BatchKinds
  BY <1>3, <1>5, <1>1, <1>2, BatchWrites DEF TellOK, BatchKinds, SweepKinds
<1>6. CASE does /\ b.kind \in SweepKinds
  <2>1. /\ d.stage = (IF b.kind = "roll" THEN "write" ELSE "tell")
        /\ d.todo = b.todo \ {t} /\ d.tell = b.tell \cup {t}
        /\ table[t].live
    BY <1>3, <1>6
  <2> HIDE DEF does
  <2> QED BY <1>1, <1>2, <1>3, <1>6, <2>1, SweepWrites
<1> QED BY <1>0, <1>4, <1>5, <1>6

LEMMA WriteAllKeeps ==
  ASSUME BulkInv, BulkLapses = {}, NEW b \in bulks, Bulk!WriteAll(b)
  PROVE  BulkInv'
<1> DEFINE there == {t \in b.todo : table[t].live}
           c == [b EXCEPT !.todo = {}, !.tell = there, !.stage = IF there = {} THEN "write" ELSE "tell"]
<1>0. /\ BulkTypes /\ OK(b) /\ b \in Bulks /\ b.todo \in SUBSET Picks
  BY DEF BulkInv, BulkTypes, Bulks
<1>1. /\ b.stage = "write" /\ b.kind = "reopen" /\ Bulk!NotBeingSwept(b.todo)
      /\ Bulk!Written(b.kind, there) /\ Bulk!Now(b, c)
      /\ UNCHANGED <<selected, wanted, wronged, nBulks, nOthers>>
  BY DEF Bulk!WriteAll
<1>2. there \in SUBSET b.todo /\ Bulk!NotBeingSwept(there)
  BY <1>1 DEF Bulk!NotBeingSwept
<1>3. /\ c \in Bulks /\ c.kind = b.kind /\ c.todo = {} /\ c.tell = there
      /\ c.stage = (IF there = {} THEN "write" ELSE "tell")
  BY <1>0, <1>2 DEF Bulks
<1>4. \A t \in b.todo : t \in c.todo \/ t \in there \/ AsAsked(wanted[t], table[t])
  BY DEF AsAsked
<1> HIDE DEF c, there
<1>5. b.tell = {} /\ b.kind \in BatchKinds /\ TellOK(c)
  BY <1>0, <1>1, <1>3 DEF OK, TellOK, BatchKinds
<1>6. c.stage \in {"write", "tell"} /\ c.todo \subseteq b.todo /\ there \subseteq c.tell /\ b.tell \subseteq c.tell
  BY <1>3, <1>5
<1> QED BY <1>1, <1>2, <1>3, <1>4, <1>5, <1>6, BatchWrites

LEMMA QuietSteps ==
  ASSUME BulkInv, BulkLapses = {}, NEW b \in bulks, NEW t,
         \/ Bulk!Reads(b) \/ Bulk!Skips(b, t) \/ Bulk!AllWritten(b) \/ Bulk!Tell(b, t) \/ Bulk!Fails(b)
  PROVE  BulkInv'
<1>0. /\ BulkTypes /\ OK(b) /\ TellOK(b) /\ SweepOK(b, table) /\ BatchOK(b, table, selected, wanted)
      /\ b \in Bulks /\ b.todo \in SUBSET Picks /\ b.tell \in SUBSET Picks
      /\ selected \subseteq Picks
      /\ b.kind \in BatchKinds \cup SweepKinds /\ \A k \in BatchKinds : k \notin SweepKinds
  BY DEF BulkInv, BulkTypes, Bulks, OK, BatchKinds, SweepKinds
<1>1. CASE Bulk!Reads(b)
  <2> DEFINE found == Bulk!Found(b)
             c == [b EXCEPT !.stage = "write", !.todo = found]
  <2>1. /\ b.stage = "read" /\ Bulk!Now(b, c) /\ b.tell = {}
        /\ UNCHANGED <<table, news, selected, wanted, wronged, nBulks, nOthers>>
    BY <1>0, <1>1 DEF Bulk!Reads, TellOK
  <2>2. /\ found \subseteq Picks
        /\ b.kind \in SweepKinds => \A u \in found : AboutRow(b.kind, table[u])
        /\ b.kind \in BatchKinds => found = {u \in b.todo : table[u].live}
    BY <1>0 DEF Bulk!Found, Bulk!Sweeps, Bulk!About, SweepKinds, AboutRow
  <2>3. c \in Bulks /\ c.kind = b.kind /\ c.stage = "write" /\ c.todo = found /\ c.tell = {}
    BY <1>0, <2>1, <2>2 DEF Bulks
  <2> HIDE DEF c, found
  <2>4. BatchOK(c, table, selected, wanted)
    BY <1>0, <2>1, <2>2, <2>3 DEF BatchOK, AsAsked
  <2>5. OK(c)
    BY <1>0, <2>2, <2>3, <2>4 DEF OK, TellOK, SweepOK
  <2> QED BY <2>1, <2>3, <2>5, QuietStep
<1>2. CASE Bulk!Skips(b, t)
  <2> DEFINE c == [b EXCEPT !.todo = @ \ {t}]
  <2>1. /\ b.stage = "write" /\ b.kind = "purge" /\ Bulk!Now(b, c)
        /\ UNCHANGED <<table, news, selected, wanted, wronged, nBulks, nOthers>>
    BY <1>2 DEF Bulk!Skips
  <2>2. c \in Bulks /\ c.kind = b.kind /\ c.stage = b.stage /\ c.todo = b.todo \ {t} /\ c.tell = b.tell
    BY <1>0 DEF Bulks
  <2> HIDE DEF c
  <2>3. OK(c)
    BY <1>0, <2>1, <2>2 DEF OK, TellOK, SweepOK, BatchOK, BatchKinds
  <2> QED BY <2>1, <2>2, <2>3, QuietStep
<1>3. CASE Bulk!AllWritten(b)
  <2> DEFINE c == [b EXCEPT !.stage = IF b.tell # {} THEN "tell" ELSE "ok"]
  <2>1. /\ b.stage = "write" /\ b.todo = {} /\ Bulk!Now(b, c)
        /\ UNCHANGED <<table, news, selected, wanted, wronged, nBulks, nOthers>>
    BY <1>3 DEF Bulk!AllWritten
  <2>2. /\ c \in Bulks /\ c.kind = b.kind /\ c.todo = {} /\ c.tell = b.tell
        /\ c.stage = (IF b.tell # {} THEN "tell" ELSE "ok")
    BY <1>0, <2>1 DEF Bulks
  <2> HIDE DEF c
  <2>3. OK(c)
    BY <1>0, <2>1, <2>2 DEF OK, TellOK, SweepOK, BatchOK
  <2> QED BY <2>1, <2>2, <2>3, QuietStep
<1>4. CASE Bulk!Tell(b, t)
  <2> DEFINE c == [b EXCEPT !.tell = @ \ {t}]
             d == IF c.tell = {} THEN [c EXCEPT !.stage = "write"] ELSE c
  <2>1. /\ b.stage = "tell" /\ Bulk!Now(b, d) /\ news' = news \ {t}
        /\ UNCHANGED <<table, selected, wanted, wronged, nBulks, nOthers>>
    BY <1>4 DEF Bulk!Tell
  <2>2. /\ d \in Bulks /\ d.kind = b.kind /\ d.todo = b.todo /\ d.tell = b.tell \ {t}
        /\ d.stage = (IF d.tell = {} THEN "write" ELSE "tell")
    BY <1>0, <2>1 DEF Bulks
  <2> HIDE DEF c, d
  <2>3. OK(d)
    BY <1>0, <2>1, <2>2 DEF OK, TellOK, SweepOK, BatchOK
  <2>4. \A u \in b.tell : u \in news' => u \in d.tell
    BY <2>1, <2>2
  <2> QED BY <2>1, <2>2, <2>3, <2>4, QuietStep
<1>5. CASE Bulk!Fails(b)
  <2> DEFINE c == [b EXCEPT !.stage = "failed", !.tell = {}]
  <2>1. /\ b.stage \in {"read", "write"} /\ Bulk!Now(b, c)
        /\ b.kind = "roll" => b.tell = {}
        /\ UNCHANGED <<table, news, selected, wanted, wronged, nBulks, nOthers>>
    BY <1>5 DEF Bulk!Fails
  <2>2. c \in Bulks /\ c.kind = b.kind /\ c.todo = b.todo /\ c.tell = {} /\ c.stage = "failed" /\ b.tell = {}
    BY <1>0, <2>1 DEF Bulks, TellOK
  <2> HIDE DEF c
  <2>3. OK(c)
    BY <1>0, <2>1, <2>2 DEF OK, TellOK, SweepOK, BatchOK
  <2> QED BY <2>1, <2>2, <2>3, QuietStep
<1> QED BY <1>1, <1>2, <1>3, <1>4, <1>5

LEMMA AnswerKeeps ==
  ASSUME BulkInv, BulkLapses = {}, NEW b \in bulks, Bulk!BatchAnswered(b)
  PROVE  BulkInv'
<1>0. /\ BulkTypes /\ OneOfAKind /\ Bulk!NothingUnannounced /\ NoneLeft /\ wronged = {} /\ OK(b)
      /\ b \in Bulks /\ b.kind \in BatchKinds \cup SweepKinds
  BY DEF BulkInv, BulkTypes, Bulks
<1>1. /\ b.stage \in {"ok", "failed"} /\ bulks' = bulks \ {b} /\ b.tell = {}
      /\ selected' = selected \/ (selected' = {} /\ b.stage = "ok" /\ b.kind \in BatchKinds)
      /\ UNCHANGED <<table, news, wanted, wronged, nBulks, nOthers>>
  BY <1>0 DEF Bulk!BatchAnswered, Bulk!KeptAfter, Bulk!Sweeps, SweepKinds, OK, TellOK
<1>2. BulkTypes' /\ OneOfAKind' /\ wronged' = {}
  BY <1>0, <1>1 DEF BulkTypes, OneOfAKind
<1>3. Bulk!NothingUnannounced'
  BY <1>0, <1>1 DEF Bulk!NothingUnannounced
<1>4. NoneLeft'
  BY <1>0, <1>1 DEF NoneLeft, OK, BatchOK
<1>5. ASSUME NEW x \in bulks' PROVE OK(x)'
  <2>1. x \in bulks /\ x # b /\ OK(x)
    BY <1>1 DEF BulkInv
  <2>2. CASE selected' = selected
    BY <1>1, <2>1, <2>2 DEF OK
  <2>3. CASE b.kind \in BatchKinds
    BY <1>0, <2>1, <2>3, <1>1 DEF OneOfAKind, Alike, BatchOK, OK
  <2> QED BY <1>1, <2>2, <2>3
<1> QED BY <1>2, <1>3, <1>4, <1>5 DEF BulkInv

\* The page's own steps: with a batch under way it takes none of them but a sweep.
LEMMA PageSteps ==
  ASSUME BulkInv, BulkLapses = {},
         \/ \E t \in Picks : Bulk!ToggleSelected(t)
         \/ \E action \in BatchKinds : Bulk!Batch(action)
         \/ \E kind \in SweepKinds : Bulk!Sweep(kind)
  PROVE  BulkInv'
<1>0. /\ BulkTypes /\ OneOfAKind /\ Bulk!NothingUnannounced /\ NoneLeft /\ wronged = {}
      /\ \A b \in bulks : b \in Bulks /\ OK(b) /\ b.kind \in BatchKinds \cup SweepKinds
      /\ \A k \in BatchKinds : k \notin SweepKinds
  BY DEF BulkInv, BulkTypes, Bulks, BatchKinds, SweepKinds
<1>1. ASSUME NEW t \in Picks, Bulk!ToggleSelected(t) PROVE BulkInv'
  <2>1. /\ \A b \in bulks : b.kind \notin BatchKinds
        /\ selected' = (selected \ {t}) \cup ({t} \ selected)
        /\ wanted' = [wanted EXCEPT ![t] = IF t \in selected THEN "nothing" ELSE @]
        /\ UNCHANGED <<table, news, bulks, wronged, nBulks, nOthers>>
    BY <1>0, <1>1 DEF Bulk!ToggleSelected, Bulk!Unhurried, Bulk!Answered, Bulk!Sweeps, Bulk!Nothing, SweepKinds
  <2>2. BulkTypes' /\ OneOfAKind' /\ Bulk!NothingUnannounced' /\ wronged' = {}
    BY <1>0, <2>1 DEF BulkTypes, OneOfAKind, Bulk!NothingUnannounced
  <2>3. NoneLeft'
    <3> SUFFICES ASSUME NEW u \in Picks, u \notin selected' PROVE AsAsked(wanted'[u], table[u])
      BY <2>1 DEF NoneLeft
    <3>1. CASE u = t
      BY <1>0, <2>1, <3>1 DEF AsAsked, BulkTypes
    <3>2. CASE u # t
      BY <1>0, <2>1, <3>2 DEF NoneLeft, BulkTypes
    <3> QED BY <3>1, <3>2
  <2>4. \A b \in bulks : OK(b)'
    BY <1>0, <2>1 DEF OK, BatchOK
  <2> QED BY <2>1, <2>2, <2>3, <2>4 DEF BulkInv
<1>2. ASSUME NEW action \in BatchKinds, Bulk!Batch(action) PROVE BulkInv'
  <2> DEFINE new == [no |-> nBulks, kind |-> action, stage |-> "read", todo |-> selected, tell |-> {}]
  <2>1. /\ \A b \in bulks : b.kind \notin BatchKinds
        /\ nBulks' = nBulks + 1 /\ bulks' = bulks \cup {new}
        /\ wanted' = [t \in Picks |-> IF t \in selected THEN action ELSE wanted[t]]
        /\ UNCHANGED <<table, news, selected, wronged, nOthers>>
    BY <1>0, <1>2 DEF Bulk!Batch, Bulk!Send, Bulk!Unhurried, Bulk!Answered, Bulk!Sweeps, SweepKinds
  <2>2. /\ new \in Bulks /\ new.kind = action /\ new.stage = "read" /\ new.todo = selected /\ new.tell = {}
    BY <1>0 DEF Bulks, BulkTypes
  <2> HIDE DEF new
  <2>3. BulkTypes' /\ wronged' = {}
    BY <1>0, <2>1, <2>2 DEF BulkTypes
  <2>4. OneOfAKind'
    BY <1>0, <2>1, <2>2 DEF OneOfAKind, Alike
  <2>5. Bulk!NothingUnannounced' /\ NoneLeft'
    BY <1>0, <2>1 DEF Bulk!NothingUnannounced, NoneLeft
  <2>6. TellOK(new) /\ SweepOK(new, table') /\ BatchOK(new, table', selected', wanted')
    BY <1>0, <2>1, <2>2 DEF TellOK, SweepOK, BatchOK, BulkTypes
  <2>7. \A b \in bulks : OK(b)'
    BY <1>0, <2>1 DEF OK, BatchOK
  <2>8. \A b \in bulks' : OK(b)'
    BY <2>1, <2>6, <2>7 DEF OK
  <2> QED BY <2>3, <2>4, <2>5, <2>8 DEF BulkInv
<1>3. ASSUME NEW kind \in SweepKinds, Bulk!Sweep(kind) PROVE BulkInv'
  <2> DEFINE new == [no |-> nBulks, kind |-> kind, stage |-> "read", todo |-> {}, tell |-> {}]
  <2>1. /\ \A b \in bulks : b.kind # kind
        /\ nBulks' = nBulks + 1 /\ bulks' = bulks \cup {new}
        /\ UNCHANGED <<table, news, selected, wanted, wronged, nOthers>>
    BY <1>3 DEF Bulk!Sweep, Bulk!Send
  <2>2. /\ new \in Bulks /\ new.kind = kind /\ new.stage = "read" /\ new.todo = {} /\ new.tell = {}
    BY <1>0 DEF Bulks, BulkTypes
  <2> HIDE DEF new
  <2>3. BulkTypes' /\ wronged' = {}
    BY <1>0, <2>1, <2>2 DEF BulkTypes
  <2>4. OneOfAKind'
    BY <1>0, <2>1, <2>2 DEF OneOfAKind, Alike
  <2>5. Bulk!NothingUnannounced' /\ NoneLeft'
    BY <1>0, <2>1 DEF Bulk!NothingUnannounced, NoneLeft
  <2>6. TellOK(new) /\ SweepOK(new, table') /\ BatchOK(new, table', selected', wanted')
    BY <1>0, <2>2 DEF TellOK, SweepOK, BatchOK
  <2>7. \A b \in bulks : OK(b)'
    BY <1>0, <2>1 DEF OK
  <2>8. \A b \in bulks' : OK(b)'
    BY <2>1, <2>6, <2>7 DEF OK
  <2> QED BY <2>3, <2>4, <2>5, <2>8 DEF BulkInv
<1> QED BY <1>1, <1>2, <1>3

LEMMA OthersKeep ==
  ASSUME BulkInv, BulkLapses = {}, NEW t \in Picks, NEW kind \in {"complete", "reopen", "later", "delete"},
         Bulk!OtherWrites(t, kind)
  PROVE  BulkInv'
<1>0. /\ BulkTypes /\ OneOfAKind /\ Bulk!NothingUnannounced /\ NoneLeft /\ wronged = {}
      /\ \A b \in bulks : b \in Bulks /\ OK(b) /\ b.todo \in SUBSET Picks
      /\ selected \subseteq Picks /\ kind \in BatchKinds \cup SweepKinds \cup {"later"}
  BY DEF BulkInv, BulkTypes, Bulks, BatchKinds
<1>1. /\ Bulk!NotBeingSwept({t})
      /\ table' = [table EXCEPT ![t] = Bulk!Doing(kind, table[t])]
      /\ news' = news \ {t}
      /\ wanted' = [wanted EXCEPT ![t] = "nothing"]
      /\ UNCHANGED <<bulks, selected, wronged, nBulks>>
  BY DEF Bulk!OtherWrites, Bulk!Nothing
<1>2. /\ table' \in [Picks -> Rows] /\ \A u \in Picks : u # t => table'[u] = table[u]
      /\ wanted' \in [Picks -> BatchKinds \cup {"nothing"}] /\ wanted'[t] = "nothing"
      /\ \A u \in Picks : u # t => wanted'[u] = wanted[u]
  BY <1>0, DoingIs, <1>1 DEF BulkTypes
<1>3. BulkTypes' /\ OneOfAKind' /\ Bulk!NothingUnannounced' /\ wronged' = {}
  BY <1>0, <1>1, <1>2 DEF BulkTypes, OneOfAKind, Bulk!NothingUnannounced
<1>4. ASSUME NEW u \in Picks, AsAsked(wanted[u], table[u]) PROVE AsAsked(wanted'[u], table'[u])
  BY <1>2, <1>4 DEF AsAsked
<1>5. AsAsked(wanted'[t], table'[t])
  BY <1>2 DEF AsAsked
<1>6. NoneLeft'
  BY <1>0, <1>1, <1>4, <1>5 DEF NoneLeft
<1>7. ASSUME NEW b \in bulks PROVE OK(b)'
  <2>1. b.kind \in SweepKinds => t \notin b.todo
    BY <1>1 DEF Bulk!NotBeingSwept, Bulk!Sweeps, SweepKinds
  <2>2. SweepOK(b, table')
    BY <1>0, <1>2, <2>1 DEF OK, SweepOK
  <2>3. BatchOK(b, table', selected, wanted')
    <3> SUFFICES ASSUME b.kind \in BatchKinds PROVE BatchOK(b, table', selected, wanted')
      BY DEF BatchOK
    <3>1. \A u \in selected : wanted'[u] \in {"nothing", b.kind}
      BY <1>0, <1>2 DEF OK, BatchOK
    <3>2. b.stage \in {"write", "tell", "ok"} => \A u \in selected : u \in b.todo \/ AsAsked(wanted'[u], table'[u])
      BY <1>0, <1>4 DEF OK, BatchOK
    <3> QED BY <1>0, <3>1, <3>2 DEF OK, BatchOK
  <2> QED BY <1>0, <1>1, <2>2, <2>3 DEF OK
<1> QED BY <1>1, <1>3, <1>6, <1>7 DEF BulkInv

LEMMA BulkKeeps ==
  ASSUME BulkInv, BulkLapses = {}, Bulk!BulkNext
  PROVE  BulkInv'
BY QuietSteps, WriteOneKeeps, WriteAllKeeps, AnswerKeeps, PageSteps, OthersKeep DEF Bulk!Actions,
   Bulk!Sweeps, BatchKinds, SweepKinds, Bulk!BulkNext

\* What an operation on many tasks wrote is announced to the streams; a task a batch was
\* asked for is as asked or still selected; a sweep reaches only what it is about: for any
\* number of tasks, requests and writes by others (batch and BatchBar of the page,
\* BatchAction, RollOverdue and PurgeCompleted of the store; a failure between a
\* roll-over's writes and its messages, and the other lapses named, are excepted).
THEOREM BulkLeavesNoneBehind == BulkLapses = {} => (PartsSpec => []BulkComplete)
<1> SUFFICES ASSUME BulkLapses = {}
             PROVE  PartsSpec => []BulkComplete
  OBVIOUS
<1> DEFINE Inv == part = "bulk" => BulkInv
<1>1. PartsInit => Inv
  <2> SUFFICES ASSUME PartsInit PROVE BulkInv
    OBVIOUS
  <2>1. /\ table = [t \in Picks |-> [live |-> TRUE, done |-> FALSE, day |-> "late"]]
        /\ news = {} /\ bulks = {} /\ selected = {} /\ wronged = {}
        /\ wanted = [t \in Picks |-> "nothing"] /\ nBulks = 0
    BY DEF PartsInit, Bulk!Init, Bulk!Nothing
  <2>2. BulkTypes
    BY <2>1 DEF BulkTypes, Rows
  <2>3. OneOfAKind /\ Bulk!NothingUnannounced /\ NoneLeft
    BY <2>1 DEF OneOfAKind, Bulk!NothingUnannounced, NoneLeft, AsAsked
  <2> QED BY <2>1, <2>2, <2>3 DEF BulkInv
<1>2. Inv /\ [PartsNext]_partVars => Inv'
  <2> SUFFICES ASSUME Inv, [PartsNext]_partVars, part' = "bulk" PROVE BulkInv'
    OBVIOUS
  <2>1. part = "bulk" /\ (Bulk!BulkNext \/ UNCHANGED bulkVars)
    BY DEF PartsNext, partVars
  <2>2. CASE UNCHANGED bulkVars
    BY <2>1, <2>2 DEF bulkVars, BulkInv, BulkTypes, OneOfAKind, Bulk!NothingUnannounced, NoneLeft, OK
  <2> QED BY <2>1, <2>2, BulkKeeps
<1>3. Inv => BulkComplete
  <2> SUFFICES ASSUME BulkInv PROVE Bulk!NothingUnannounced /\ Bulk!NoneLeftBehind /\ Bulk!OnlyItsOwnSwept
    BY DEF BulkComplete
  <2> QED BY DEF BulkInv, NoneLeft, AsAsked, Bulk!NoneLeftBehind, Bulk!OnlyItsOwnSwept, Bulk!Nothing
<1> QED BY <1>1, <1>2, <1>3, PTL DEF PartsSpec

-----------------------------------------------------------------------------
(* The focus countdown: the stretch of time each session stands for.         *)

Sessions == [task : FocusTasks \cup {NoTask}, minutes : Nat, from : Nat, to : Nat]
Counts   == [task : FocusTasks \cup {NoTask}, length : Nat, running : BOOLEAN, endsAt : Nat, remaining : Nat]
Counted  == adds \cup sessions

FocusTypes == /\ countdown \in Counts /\ now \in Nat /\ began \in Nat
              /\ adds \subseteq Sessions /\ sessions \subseteq Sessions

\* What is counted lies before the session that runs, and that one within the time passed.
RunsSince ==
  countdown.running =>
    /\ began <= now /\ countdown.endsAt = began + countdown.length
    /\ countdown.remaining <= countdown.length
    /\ countdown.length <= countdown.remaining + (now - began)
    /\ \A s \in Counted : s.to <= began

FocusInv ==
  /\ FocusTypes /\ RunsSince /\ Focus!TimeCountedOnce
  /\ \A s \in Counted : s.from <= s.to /\ s.to <= now

LEMMA Halves ==
  ASSUME NEW e \in Nat
  PROVE  (e + 1) \div 2 \in Nat /\ 2 * ((e + 1) \div 2) <= e + 1
OBVIOUS

LEMMA SessionStarts ==
  ASSUME FocusInv, NEW t \in FocusTasks \cup {NoTask}, NEW n \in Nat, Focus!StartFocus(t, n)
  PROVE  FocusInv'
<1> DEFINE f == [task |-> t, length |-> n, running |-> TRUE, endsAt |-> now + n, remaining |-> n]
<1>1. countdown' = f /\ began' = now /\ UNCHANGED <<now, adds, sessions>> /\ now \in Nat
  BY DEF Focus!StartFocus, FocusInv, FocusTypes
<1>2. /\ f \in Counts /\ f.length = n /\ f.endsAt = now + n /\ f.remaining = n
  BY <1>1 DEF Counts
<1> HIDE DEF f
<1>3. FocusTypes' /\ Focus!TimeCountedOnce'
  BY <1>1, <1>2 DEF FocusInv, FocusTypes, Focus!TimeCountedOnce
<1>4. RunsSince' /\ \A s \in Counted' : s.from <= s.to /\ s.to <= now'
  BY <1>1, <1>2 DEF FocusInv, RunsSince, Counted
<1> QED BY <1>3, <1>4 DEF FocusInv

LEMMA SessionEnds ==
  ASSUME FocusInv, NEW completed \in BOOLEAN, Focus!StopFocus(completed)
  PROVE  FocusInv'
<1> DEFINE e == countdown.length - countdown.remaining
           new == [task |-> countdown.task, minutes |-> (e + 1) \div 2, from |-> began, to |-> now]
<1>0. /\ FocusTypes /\ RunsSince /\ Focus!TimeCountedOnce /\ countdown.running
      /\ countdown.length \in Nat /\ countdown.remaining \in Nat /\ now \in Nat /\ began \in Nat
      /\ countdown.task \in FocusTasks \cup {NoTask}
      /\ \A s \in Counted : s.from <= s.to /\ s.to <= now /\ s.from \in Nat /\ s.to \in Nat
  BY DEF FocusInv, FocusTypes, Counts, Counted, Sessions, Focus!StopFocus
<1>1. /\ countdown' = [task |-> NoTask, length |-> DetailLength, running |-> FALSE,
                       endsAt |-> 0, remaining |-> DetailLength]
      /\ adds' = (IF completed /\ e >= 2 THEN adds \cup {new} ELSE adds)
      /\ UNCHANGED <<now, began, sessions>>
  BY DEF Focus!StopFocus, Focus!Stopped, Focus!Session, Focus!Elapsed
<1>2. e \in Nat /\ e <= now - began /\ began <= now /\ \A s \in Counted : s.to <= began
  BY <1>0 DEF RunsSince
<1>3. /\ new \in Sessions /\ new.from = began /\ new.to = now /\ 2 * new.minutes <= new.to - new.from + 1
  <2>1. (e + 1) \div 2 \in Nat /\ 2 * ((e + 1) \div 2) <= e + 1
    BY <1>2, Halves
  <2>2. new.minutes = (e + 1) \div 2 /\ new.from = began /\ new.to = now
    OBVIOUS
  <2>3. new \in Sessions
    BY <1>0, <2>1 DEF Sessions
  <2> HIDE DEF new
  <2>4. 2 * new.minutes <= e + 1 /\ e + 1 <= now - began + 1
    BY <1>0, <1>2, <2>1, <2>2
  <2> QED BY <1>0, <1>2, <2>1, <2>2, <2>3, <2>4
<1> HIDE DEF new, e
<1>4. countdown' \in Counts /\ ~countdown'.running
  BY <1>1, LengthsAssumption DEF Counts
<1>5. FocusTypes' /\ RunsSince'
  BY <1>0, <1>1, <1>3, <1>4 DEF FocusTypes, RunsSince
<1>6. CASE adds' = adds
  BY <1>0, <1>1, <1>5, <1>6 DEF FocusInv, Focus!TimeCountedOnce, Counted
<1>7. CASE adds' = adds \cup {new}
  <2>1. Counted' = Counted \cup {new}
    BY <1>1, <1>7 DEF Counted
  <2>2. \A s \in Counted' : s.from <= s.to /\ s.to <= now'
    BY <1>0, <1>1, <1>2, <1>3, <2>1
  <2>3. Focus!TimeCountedOnce'
    <3> SUFFICES ASSUME NEW s \in Counted'
                 PROVE  /\ 2 * s.minutes <= s.to - s.from + 1
                        /\ \A other \in Counted' \ {s} : s.to <= other.from \/ other.to <= s.from
      BY DEF Focus!TimeCountedOnce, Counted
    <3>1. CASE s = new
      BY <1>2, <1>3, <2>1, <3>1
    <3>2. CASE s \in Counted
      BY <1>0, <3>2, <1>2, <1>3, <2>1 DEF Focus!TimeCountedOnce, Counted
    <3> QED BY <2>1, <3>1, <3>2
  <2> QED BY <1>5, <2>2, <2>3 DEF FocusInv
<1> QED BY <1>1, <1>6, <1>7

LEMMA FocusKeeps ==
  ASSUME FocusInv, Focus!FocusNext
  PROVE  FocusInv'
<1>0. /\ FocusTypes /\ RunsSince /\ Focus!TimeCountedOnce
      /\ \A s \in Counted : s.from <= s.to /\ s.to <= now
  BY DEF FocusInv
<1>1. CASE Focus!StartInPanel
  BY <1>1, SessionStarts, LengthsAssumption DEF Focus!StartInPanel
<1>2. CASE Focus!StartInDetail
  BY <1>2, SessionStarts, LengthsAssumption DEF Focus!StartInDetail
<1>3. CASE Focus!TickFocus
  <2> DEFINE left == IF countdown.endsAt > now THEN countdown.endsAt - now ELSE 0
             f    == [countdown EXCEPT !.remaining = left]
  <2>1. countdown.running /\ countdown' = f /\ UNCHANGED <<now, began, adds, sessions>>
    BY <1>3 DEF Focus!TickFocus, Focus!FocusFinish
  <2>2. countdown.endsAt \in Nat /\ countdown.length \in Nat /\ now \in Nat /\ began \in Nat
    BY <1>0 DEF FocusTypes, Counts
  <2>3. left \in Nat
    BY <2>2
  <2>4. /\ f \in Counts /\ f.running = countdown.running /\ f.endsAt = countdown.endsAt
        /\ f.length = countdown.length /\ f.remaining = left
    BY <1>0, <2>3 DEF FocusTypes, Counts
  <2>5. left <= countdown.length /\ countdown.length <= left + (now - began)
    BY <1>0, <2>1, <2>2 DEF RunsSince
  <2> HIDE DEF left, f
  <2>6. FocusTypes' /\ RunsSince'
    BY <1>0, <2>1, <2>4, <2>5 DEF FocusTypes, RunsSince, Counted
  <2> QED BY <1>0, <2>1, <2>6 DEF FocusInv, Focus!TimeCountedOnce, Counted
<1>4. CASE Focus!TimePasses
  BY <1>0, <1>4 DEF Focus!TimePasses, FocusTypes, Focus!TimeCountedOnce, RunsSince, Counted,
     Counts, Sessions, FocusInv
<1>5. ASSUME NEW s \in adds, Focus!AddFocus(s) PROVE FocusInv'
  BY <1>5, <1>0 DEF Focus!AddFocus, Counted, FocusTypes, RunsSince, Focus!TimeCountedOnce,
     FocusInv
<1> QED BY <1>1, <1>2, <1>3, <1>4, <1>5, SessionEnds DEF Focus!FocusNext

-----------------------------------------------------------------------------
(* The review of a day: which date what is read, shown and saved is for.     *)

Reads   == [no : Nat, date : Dates, alive : BOOLEAN, text : Nat]
Savings == [stage : {"none", "review", "settings"}, date : Dates, text : Nat]
NotRead == MaxTexts + 1

ReviewTypes ==
  /\ isOpen \in BOOLEAN /\ date \in Dates /\ form \in 0 .. Len(meant)
  /\ reads \subseteq Reads /\ \A r \in reads : r.text \in 0 .. Len(meant) \cup {NotRead}
  /\ saving \in Savings /\ saving.text <= Len(meant)
  /\ reviews \in [Dates -> 0 .. Len(meant)]
  /\ meant \in Seq(Dates) /\ Len(meant) <= MaxTexts
  /\ nReads \in Nat

\* Text x, one of those in m, was written for date d.
WrittenFor(m, x, d) == x # 0 => m[x] = d

OwnTexts ==
  /\ \A d \in Dates : WrittenFor(meant, reviews[d], d)
  /\ \A r \in reads : /\ r.text # NotRead => WrittenFor(meant, r.text, r.date)
                      /\ r.alive => isOpen /\ r.date = date
  /\ isOpen /\ ~Review!Reading => WrittenFor(meant, form, date)
  /\ saving.stage # "none" => /\ WrittenFor(meant, saving.text, saving.date)
                              /\ Review!Reading => date = Today

\* While it is saved the text in the form is the one sent, or what was read for today.
Unspoilt ==
  /\ saving.stage = "review" => /\ reviews[saving.date] <= saving.text
                                /\ form = saving.text \/ (date = Today /\ form = reviews[Today])
  /\ saving.stage = "settings" => form <= saving.text \/ (date = Today /\ form = reviews[Today])
  /\ \A r \in reads : r.alive /\ r.text # NotRead =>
       r.text = reviews[date] \/ (saving.stage = "settings" /\ r.text <= saving.text)
  /\ isOpen /\ ~Review!Reading /\ saving.stage # "settings" => form >= reviews[date]

ReviewInv == ReviewTypes /\ OwnTexts /\ Unspoilt

\* Opening the dialog and changing the date start the only read that is alive.
LEMMA ReadStarts ==
  ASSUME ReviewInv, NEW d \in Dates, Review!GetReview(d), date' = d, isOpen' = TRUE,
         saving.stage # "none" => d = Today,
         UNCHANGED <<form, saving, reviews, meant>>
  PROVE  ReviewInv'
<1> DEFINE new == [no |-> nReads, date |-> d, alive |-> TRUE, text |-> MaxTexts + 1]
           dead == {[r EXCEPT !.alive = FALSE] : r \in reads}
<1>0. ReviewTypes /\ OwnTexts /\ Unspoilt /\ MaxTexts \in Nat /\ nReads \in Nat /\ Today \in Dates
  BY ReviewAssumption DEF ReviewInv, ReviewTypes
<1>1. nReads' = nReads + 1 /\ reads' = dead \cup {new}
  BY DEF Review!GetReview, Review!Overtaken, Review!Unread
<1>2. new \in Reads /\ new.text = NotRead /\ new.alive /\ new.date = d
  BY <1>0 DEF Reads, NotRead
<1>3. \A x \in dead : \E r \in reads : x \in Reads /\ ~x.alive /\ x.text = r.text /\ x.date = r.date
  BY <1>0 DEF ReviewTypes, Reads
<1> HIDE DEF new, dead
<1>4. ReviewTypes'
  BY <1>0, <1>1, <1>2, <1>3 DEF ReviewTypes, NotRead
<1>5. Review!Reading'
  BY <1>1, <1>2 DEF Review!Reading
<1>6. OwnTexts'
  BY <1>0, <1>1, <1>2, <1>3, <1>5 DEF OwnTexts, NotRead
<1>7. Unspoilt'
  BY <1>1, <1>2, <1>3, <1>0, <1>5 DEF Unspoilt, NotRead, ReviewTypes, Savings
<1> QED BY <1>4, <1>6, <1>7 DEF ReviewInv

LEMMA DialogShuts ==
  ASSUME ReviewInv, Review!Shut, UNCHANGED <<date, form, reviews, meant, nReads>>,
         saving' = saving \/ (saving' \in Savings /\ saving'.text = 0 /\ saving'.stage = "none")
  PROVE  ReviewInv'
<1>0. ReviewTypes /\ OwnTexts /\ Unspoilt
  BY DEF ReviewInv
<1>1. isOpen' = FALSE /\ reads' = {[r EXCEPT !.alive = FALSE] : r \in reads}
  BY DEF Review!Shut, Review!Overtaken
<1>2. \A x \in reads' : \E r \in reads : x \in Reads /\ ~x.alive /\ x.text = r.text /\ x.date = r.date
  BY <1>0, <1>1 DEF ReviewTypes, Reads
<1>3. ~Review!Reading'
  BY <1>2 DEF Review!Reading
<1>4. ReviewTypes'
  <2>1. reads' \subseteq Reads /\ \A r \in reads' : r.text \in 0 .. Len(meant) \cup {NotRead}
    BY <1>0, <1>2 DEF ReviewTypes
  <2>2. saving' \in Savings /\ saving'.text <= Len(meant)
    BY <1>0 DEF ReviewTypes
  <2> QED BY <1>0, <1>1, <2>1, <2>2 DEF ReviewTypes, NotRead
<1>5. OwnTexts'
  BY <1>0, <1>2, <1>1, <1>3 DEF OwnTexts, NotRead
<1>6. Unspoilt'
  BY <1>2, <1>0, <1>1, <1>3 DEF Unspoilt, NotRead
<1> QED BY <1>4, <1>5, <1>6 DEF ReviewInv

LEMMA ReviewWrites ==
  ASSUME ReviewInv, Hurry = {}, Review!Write \/ Review!Submit
  PROVE  ReviewInv'
<1>0. /\ ReviewTypes /\ OwnTexts /\ Unspoilt
      /\ isOpen /\ ~Review!Reading /\ saving.stage = "none"
      /\ \A r \in reads : ~r.alive
  BY DEF ReviewInv, Review!Write, Review!Submit, Review!Patient, Review!Reading
<1>1. CASE Review!Write
  <2> DEFINE n == Len(meant)
  <2>1. /\ n < MaxTexts /\ meant' = Append(meant, date) /\ form' = Len(meant')
        /\ UNCHANGED <<isOpen, date, reads, saving, reviews, nReads>>
    BY <1>1 DEF Review!Write
  <2>2. /\ n \in Nat /\ meant' \in Seq(Dates) /\ Len(meant') = n + 1 /\ meant'[n + 1] = date
        /\ form' = n + 1 /\ \A i \in 1 .. n : meant'[i] = meant[i]
    BY <1>0, <2>1 DEF ReviewTypes
  <2>3. \A x \in 0 .. n, d \in Dates : WrittenFor(meant, x, d) => WrittenFor(meant', x, d)
    BY <2>2 DEF WrittenFor
  <2>4. /\ \A d \in Dates : reviews[d] \in 0 .. n
        /\ \A r \in reads : r.text # NotRead => r.text \in 0 .. n
        /\ \A r \in reads : r.date \in Dates
        /\ saving.text \in 0 .. n /\ saving.date \in Dates
    BY <1>0 DEF ReviewTypes, Savings, Reads
  <2>5. ~Review!Reading'
    BY <1>0, <2>1 DEF Review!Reading
  <2>6. ReviewTypes'
    BY <2>1, <2>2, ReviewAssumption, <1>0, <2>4 DEF ReviewTypes, NotRead
  <2>7. OwnTexts'
    BY <2>2, <1>0, <2>3, <2>4, <2>1 DEF WrittenFor, OwnTexts, NotRead
  <2>8. Unspoilt'
    BY <1>0, <2>2, <2>4, <2>1 DEF ReviewTypes, Unspoilt, NotRead
  <2> QED BY <2>6, <2>7, <2>8 DEF ReviewInv
<1>2. CASE Review!Submit
  <2> DEFINE new == [stage |-> "review", date |-> date, text |-> form]
  <2>1. saving' = new /\ UNCHANGED <<isOpen, date, form, reads, reviews, meant, nReads>>
    BY <1>2 DEF Review!Submit
  <2>2. new \in Savings /\ new.stage = "review" /\ new.date = date /\ new.text = form
    BY <1>0 DEF ReviewTypes, Savings
  <2> HIDE DEF new
  <2>3. ReviewTypes'
    BY <1>0, <2>1, <2>2 DEF ReviewTypes, NotRead
  <2>4. ~Review!Reading'
    BY <1>0, <2>1 DEF Review!Reading
  <2>5. OwnTexts'
    BY <1>0, <2>1, <2>2, <2>4 DEF OwnTexts, NotRead
  <2>6. Unspoilt'
    BY <1>0, <2>1, <2>2, <2>4 DEF Unspoilt, NotRead, ReviewTypes
  <2> QED BY <2>3, <2>5, <2>6 DEF ReviewInv
<1> QED BY <1>1, <1>2

LEMMA ReadsKeep ==
  ASSUME ReviewInv, Hurry = {}, NEW r \in reads,
         Review!ServerReads(r) \/ Review!ReadLands(r) \/ Review!ReadFails(r)
  PROVE  ReviewInv'
<1>0. ReviewTypes /\ OwnTexts /\ Unspoilt /\ r \in Reads /\ r.date \in Dates /\ date \in Dates
  BY DEF ReviewInv, ReviewTypes, Reads
<1>1. CASE Review!ServerReads(r)
  <2> DEFINE c == [r EXCEPT !.text = reviews[r.date]]
  <2>1. /\ r.text = NotRead /\ reads' = (reads \ {r}) \cup {c}
        /\ UNCHANGED <<isOpen, date, form, saving, reviews, meant, nReads>>
    BY <1>1 DEF Review!ServerReads, Review!Unread, NotRead
  <2>2. reviews[r.date] \in 0 .. Len(meant)
    BY <1>0 DEF ReviewTypes
  <2>3. c \in Reads /\ c.alive = r.alive /\ c.date = r.date /\ c.text = reviews[r.date]
    BY <1>0, <2>2 DEF Reads
  <2> HIDE DEF c
  <2>4. ReviewTypes'
    BY <1>0, <2>1, <2>2, <2>3 DEF ReviewTypes, NotRead
  <2>5. Review!Reading' <=> Review!Reading
    BY <2>1, <2>3 DEF Review!Reading
  <2>6. OwnTexts'
    BY <1>0, <2>3, <2>1, <2>5 DEF OwnTexts, NotRead
  <2>7. Unspoilt'
    BY <1>0, <2>3, <2>1, <2>5 DEF OwnTexts, Unspoilt, NotRead
  <2> QED BY <2>4, <2>6, <2>7 DEF ReviewInv
<1>2. CASE Review!ReadLands(r)
  <2>1. /\ r.text # NotRead /\ reads' = reads \ {r}
        /\ form' = IF r.alive THEN r.text ELSE form
        /\ UNCHANGED <<isOpen, date, saving, reviews, meant, nReads>>
    BY <1>2 DEF Review!ReadLands, Review!Unread, NotRead
  <2>2. r.text \in 0 .. Len(meant)
    BY <1>0, <2>1 DEF ReviewTypes
  <2>3. ReviewTypes'
    BY <1>0, <2>1, <2>2 DEF ReviewTypes, NotRead
  <2>4. ~r.alive => (Review!Reading' <=> Review!Reading)
    BY <2>1 DEF Review!Reading
  <2>5. r.alive => Review!Reading
    BY DEF Review!Reading
  <2>6. OwnTexts'
    BY <1>0, <2>1, <2>4 DEF OwnTexts, Review!Reading, NotRead
  <2>7. Unspoilt'
    <3>1. CASE ~r.alive
      BY <1>0, <2>1, <2>4, <3>1 DEF Unspoilt, NotRead
    <3>2. CASE r.alive
      BY <1>0, <2>1, <2>5, <3>2 DEF OwnTexts, Unspoilt, ReviewTypes, NotRead
    <3> QED BY <3>1, <3>2
  <2> QED BY <2>3, <2>6, <2>7 DEF ReviewInv
<1>3. CASE Review!ReadFails(r)
  BY <1>3, <1>0 DEF Review!ReadFails, Review!Reading, ReviewInv, ReviewTypes, OwnTexts, Unspoilt,
     NotRead
<1> QED BY <1>1, <1>2, <1>3

LEMMA ReviewSaves ==
  ASSUME ReviewInv, Review!UpsertReview \/ Review!SaveFails \/ Review!Saved
  PROVE  ReviewInv'
<1> DEFINE none == [stage |-> "none", date |-> Today, text |-> 0]
<1>0. /\ ReviewTypes /\ OwnTexts /\ Unspoilt
      /\ none \in Savings /\ none.text = 0 /\ none.stage = "none"
      /\ Review!NoReview = none
  BY ReviewAssumption DEF ReviewInv, Savings, Review!NoReview, Review!Blank
<1> HIDE DEF none
<1>1. CASE Review!UpsertReview
  <2> DEFINE next == [saving EXCEPT !.stage = "settings"]
  <2>1. /\ saving.stage = "review" /\ saving' = next
        /\ reviews' = [reviews EXCEPT ![saving.date] = saving.text]
        /\ UNCHANGED <<isOpen, date, form, reads, meant, nReads>>
    BY <1>1 DEF Review!UpsertReview
  <2>2. next \in Savings /\ next.stage = "settings" /\ next.date = saving.date /\ next.text = saving.text
    BY <1>0 DEF ReviewTypes, Savings
  <2> HIDE DEF next
  <2>3. /\ saving.date \in Dates /\ saving.text \in 0 .. Len(meant) /\ date \in Dates /\ Today \in Dates
    BY <1>0, ReviewAssumption DEF ReviewTypes, Savings
  <2>4. /\ reviews' \in [Dates -> 0 .. Len(meant)] /\ reviews'[saving.date] = saving.text
        /\ \A d \in Dates : d # saving.date => reviews'[d] = reviews[d]
    BY <1>0, <2>1, <2>3 DEF ReviewTypes
  <2>5. ReviewTypes'
    BY <1>0, <2>1, <2>2, <2>4 DEF ReviewTypes, NotRead
  <2>6. Review!Reading' <=> Review!Reading
    BY <2>1 DEF Review!Reading
  <2>7. OwnTexts'
    BY <1>0, <2>1, <2>4, <2>2, <2>6 DEF OwnTexts, NotRead
  <2>8. Unspoilt'
    <3>1. \A d \in Dates : reviews[d] \in Nat /\ (reviews[d] = reviews'[d] \/ reviews[d] <= saving.text)
      BY <1>0, <2>1, <2>4 DEF Unspoilt, ReviewTypes
    <3>2. form <= saving.text \/ (date = Today /\ form = reviews'[Today])
      BY <1>0, <2>1, <2>3, <3>1 DEF Unspoilt
    <3>3. \A r \in reads : r.alive /\ r.text # NotRead => r.text = reviews'[date] \/ r.text <= saving.text
      BY <1>0, <2>1, <2>3, <3>1 DEF Unspoilt
    <3> QED BY <2>1, <2>2, <3>2, <3>3 DEF Unspoilt, NotRead
  <2> QED BY <2>5, <2>7, <2>8 DEF ReviewInv
<1>2. CASE Review!SaveFails
  BY <1>0, <1>2 DEF Review!SaveFails, Review!Reading, ReviewTypes, OwnTexts, NotRead, Unspoilt,
     ReviewInv
<1>3. CASE Review!Saved
  BY <1>0, <1>3, DialogShuts DEF Review!Saved
<1> QED BY <1>1, <1>2, <1>3

LEMMA ReviewKeeps ==
  ASSUME ReviewInv, Hurry = {}, Review!ReviewNext
  PROVE  ReviewInv'
<1>1. CASE Review!OpenReview
  BY <1>1, ReadStarts, ReviewAssumption DEF Review!OpenReview
<1>2. CASE Review!CloseReview
  BY <1>2, DialogShuts DEF Review!CloseReview
<1>3. ASSUME NEW d \in Dates, Review!SetDate(d) PROVE ReviewInv'
  BY <1>3, ReadStarts DEF Review!SetDate, ReviewInv, ReviewTypes
<1> QED BY <1>1, <1>2, <1>3, ReviewWrites, ReadsKeep, ReviewSaves DEF Review!ReviewNext

-----------------------------------------------------------------------------
(* The morning dialog: the rows it shows, and the picks it saves.            *)

Unasked  == {"unread"}
PlanRows == [day : {"late", "today", "later"}, done : BOOLEAN]
Runs     == [task : Agenda, op : {"toggle", "today", "later"}, sent : BOOLEAN]
Listings == SUBSET (Agenda \cup Unasked)
Loads    == [by : SUBSET Agenda, late : Listings, today : Listings]
KeptSets == [focus : SUBSET Agenda, planned : BOOLEAN]
Puts     == [by : {"pick", "begin", "end"}, kv : KeptSets]

PlanTypes ==
  /\ plan \in [Agenda -> PlanRows]
  /\ lateRows \in Listings /\ todayRows \in Listings
  /\ runs \subseteq Runs /\ loads \in Seq(Loads)
  /\ finished \subseteq Agenda

PickTypes ==
  /\ picked \subseteq Agenda /\ settings \in KeptSets /\ kept \in KeptSets /\ puts \in Seq(Puts)
  /\ starting \in [busy : BOOLEAN, saw : KeptSets]

\* One operation on a row at a time, until the lists that were read after it are shown.
OneRunEach ==
  /\ \A r, q \in runs : r.task = q.task => r = q
  /\ \A i \in DOMAIN loads : \A t \in loads[i].by : \E r \in runs : r.task = t /\ r.sent
  /\ \A i, j \in DOMAIN loads : loads[i].by \cap loads[j].by # {} => i = j

\* A reload does not find the task, or has not been answered.
Lacks(l, t) == (l.late # Unasked => t \notin l.late) /\ (l.today # Unasked => t \notin l.today)

\* What was completed is not shown any more, or only until the lists read after it come.
Leaving(t) ==
  \/ \E i \in DOMAIN loads : /\ t \in loads[i].by
                             /\ \A j \in DOMAIN loads : j >= i => Lacks(loads[j], t)
  \/ /\ t \notin lateRows \cup todayRows /\ \A r \in runs : r.task # t
     /\ \A j \in DOMAIN loads : Lacks(loads[j], t)

RowsInv ==
  /\ PlanTypes /\ OneRunEach
  /\ \A t \in Agenda : plan[t].done <=> t \in finished
  /\ \A t \in finished : Leaving(t)

\* The picks shown are those of the page's settings, which the last save sends; the start
\* of the day saves twice and once at a time.
PicksInv ==
  /\ PickTypes /\ settings.focus = picked
  /\ starting.busy => starting.saw.focus = picked
  /\ \A i, j \in DOMAIN puts : puts[i].by # "pick" /\ puts[j].by # "pick" => i = j
  /\ \A i \in DOMAIN puts : puts[i].by # "pick" => starting.busy
  /\ IF puts = <<>> THEN kept = settings ELSE puts[Len(puts)].kv = settings

-----------------------------------------------------------------------------
LEMMA WithoutFirst ==
  ASSUME NEW S, NEW s \in Seq(S), s # <<>>
  PROVE  /\ Plan!Without(s, 1) \in Seq(S) /\ Len(Plan!Without(s, 1)) = Len(s) - 1
         /\ \A i \in 1 .. Len(s) - 1 : Plan!Without(s, 1)[i] = s[i + 1]
<1> DEFINE a == SubSeq(s, 1, 1 - 1)
           b == SubSeq(s, 1 + 1, Len(s))
<1>1. Len(s) \in Nat /\ Len(s) >= 1
  OBVIOUS
<1>2. a \in Seq(S) /\ Len(a) = 0
  BY <1>1
<1>3. b \in Seq(S) /\ Len(b) = Len(s) - 1 /\ \A i \in 1 .. Len(s) - 1 : b[i] = s[i + 1]
  <2>1. b = Tail(s)
    BY TailIsSubSeq
  <2> HIDE DEF b
  <2>2. b \in Seq(S)
    BY <1>1, <2>1
  <2>3. Len(b) = Len(s) - 1
    BY <1>1, <2>1
  <2>4. ASSUME NEW i \in 1 .. Len(s) - 1 PROVE b[i] = s[i + 1]
    BY <1>1, <2>1
  <2> QED BY <2>2, <2>3, <2>4
<1> HIDE DEF a, b
<1>4. /\ a \o b \in Seq(S) /\ Len(a \o b) = Len(b) /\ \A i \in 1 .. Len(b) : (a \o b)[i] = b[i]
  BY <1>1, <1>2, <1>3
<1>5. Plan!Without(s, 1) = a \o b
  BY DEF Plan!Without, a, b
<1> QED BY <1>1, <1>3, <1>4, <1>5

\* A reload is asked for: it is the last, and has found nothing yet.
LEMMA ReloadAsked ==
  ASSUME loads \in Seq(Loads), NEW by \in SUBSET Agenda, Plan!Reload(by)
  PROVE  /\ loads' \in Seq(Loads) /\ Len(loads') = Len(loads) + 1 /\ Len(loads) \in Nat
         /\ \A i \in DOMAIN loads : i \in DOMAIN loads' /\ loads'[i] = loads[i]
         /\ Len(loads) + 1 \in DOMAIN loads' /\ loads'[Len(loads) + 1].by = by
         /\ \A t : Lacks(loads'[Len(loads) + 1], t)
         /\ \A i \in DOMAIN loads' : i \in DOMAIN loads \/ i = Len(loads) + 1
         /\ \A i \in DOMAIN loads : i <= Len(loads)
<1> DEFINE new == [by |-> by, late |-> Unasked, today |-> Unasked]
<1>1. loads' = Append(loads, new)
  BY DEF Plan!Reload, Plan!Unread, Unasked
<1>2. new \in Loads /\ new.by = by /\ \A t : Lacks(new, t)
  BY DEF Loads, Listings, Lacks
<1> HIDE DEF new
<1> QED BY <1>1, <1>2

\* A reload by nobody leaves what is leaving.
LEMMA StillLeaving ==
  ASSUME RowsInv, NEW by \in SUBSET Agenda, Plan!Reload(by), NEW t,
         UNCHANGED <<lateRows, todayRows>>, Leaving(t),
         \A r \in runs' : \E q \in runs : q.task = r.task
  PROVE  Leaving(t)'
<1>0. loads \in Seq(Loads)
  BY DEF RowsInv, PlanTypes
<1>1. /\ Len(loads') = Len(loads) + 1 /\ Len(loads) \in Nat
      /\ \A i \in DOMAIN loads : i \in DOMAIN loads' /\ loads'[i] = loads[i]
      /\ Lacks(loads'[Len(loads) + 1], t)
      /\ \A i \in DOMAIN loads' : i \in DOMAIN loads \/ i = Len(loads) + 1
  BY <1>0, ReloadAsked
<1>2. CASE \E i \in DOMAIN loads : t \in loads[i].by /\ \A j \in DOMAIN loads : j >= i => Lacks(loads[j], t)
  <2>1. PICK i \in DOMAIN loads : t \in loads[i].by /\ \A j \in DOMAIN loads : j >= i => Lacks(loads[j], t)
    BY <1>2
  <2>2. ASSUME NEW j \in DOMAIN loads', j >= i PROVE Lacks(loads'[j], t)
    BY <1>1, <2>1, <2>2
  <2>3. i \in DOMAIN loads' /\ t \in loads'[i].by
    BY <1>1, <2>1
  <2> QED BY <2>2, <2>3 DEF Leaving
<1>3. CASE /\ t \notin lateRows \cup todayRows /\ \A r \in runs : r.task # t
           /\ \A j \in DOMAIN loads : Lacks(loads[j], t)
  BY <1>1, <1>3 DEF Leaving
<1> QED BY <1>2, <1>3 DEF Leaving

LEMMA RowsStand ==
  ASSUME RowsInv, UNCHANGED <<plan, lateRows, todayRows, runs, finished, loads>>
  PROVE  RowsInv'
BY DEF RowsInv, PlanTypes, OneRunEach, Leaving

\* The lists are asked for and nothing else changes: the dialog opens, all is moved to today.
LEMMA ListsAskedAgain ==
  ASSUME RowsInv, Plan!Reload({}), UNCHANGED <<lateRows, todayRows, runs, finished>>,
         plan' \in [Agenda -> PlanRows], \A t \in Agenda : plan'[t].done = plan[t].done
  PROVE  RowsInv'
<1>0. loads \in Seq(Loads)
  BY DEF RowsInv, PlanTypes
<1>1. /\ loads' \in Seq(Loads) /\ Len(loads) \in Nat
      /\ \A i \in DOMAIN loads : i \in DOMAIN loads' /\ loads'[i] = loads[i]
      /\ loads'[Len(loads) + 1].by = {}
      /\ \A i \in DOMAIN loads' : i \in DOMAIN loads \/ i = Len(loads) + 1
  BY <1>0, ReloadAsked
<1>2. PlanTypes'
  BY <1>1 DEF RowsInv, PlanTypes
<1>3. OneRunEach'
  <2>1. ASSUME NEW i \in DOMAIN loads', NEW t \in loads'[i].by PROVE \E r \in runs' : r.task = t /\ r.sent
    BY <1>1, <2>1 DEF RowsInv, OneRunEach
  <2>2. ASSUME NEW i \in DOMAIN loads', NEW j \in DOMAIN loads', loads'[i].by \cap loads'[j].by # {} PROVE i = j
    BY <1>1, <2>2 DEF RowsInv, OneRunEach
  <2> QED BY <2>1, <2>2 DEF RowsInv, OneRunEach
<1>4. ASSUME NEW t \in finished' PROVE Leaving(t)'
  BY <1>4, StillLeaving DEF RowsInv
<1> QED BY <1>2, <1>3, <1>4 DEF RowsInv

LEMMA RollAllKeeps ==
  ASSUME RowsInv, Plan!RollAll
  PROVE  RowsInv'
<1>1. /\ plan' = [t \in Agenda |-> IF t \in Plan!Open("late") THEN [plan[t] EXCEPT !.day = "today"] ELSE plan[t]]
      /\ Plan!Reload({}) /\ UNCHANGED <<lateRows, todayRows, runs, finished>>
  BY DEF Plan!RollAll
<1>2. ASSUME NEW t \in Agenda PROVE plan'[t] \in PlanRows /\ plan'[t].done = plan[t].done
  BY <1>1 DEF RowsInv, PlanTypes, PlanRows
<1>3. plan' \in [Agenda -> PlanRows]
  BY <1>1, <1>2
<1> QED BY <1>1, <1>2, <1>3, ListsAskedAgain

LEMMA RunOpKeeps ==
  ASSUME RowsInv, NEW t \in Agenda, NEW op \in {"toggle", "today", "later"}, Plan!RunOp(t, op)
  PROVE  RowsInv'
<1> DEFINE new == [task |-> t, op |-> op, sent |-> FALSE]
<1>1. /\ t \in lateRows \cup todayRows /\ \A r \in runs : r.task # t
      /\ runs' = runs \cup {new}
      /\ UNCHANGED <<plan, lateRows, todayRows, finished, loads>>
  BY DEF Plan!RunOp, Plan!Acting
<1>2. new \in Runs /\ new.task = t
  BY DEF Runs
<1> HIDE DEF new
<1>3. PlanTypes'
  BY <1>1, <1>2 DEF RowsInv, PlanTypes
<1>4. OneRunEach'
  BY <1>1, <1>2 DEF RowsInv, OneRunEach
<1>5. ASSUME NEW u \in finished' PROVE Leaving(u)'
  BY <1>1, <1>5, <1>2 DEF RowsInv, Leaving
<1> QED BY <1>1, <1>3, <1>4, <1>5 DEF RowsInv

\* The server has a task that is not done: none clicks again on a row that is leaving.
LEMMA UnsentIsNew ==
  ASSUME RowsInv, NEW r \in runs, ~r.sent
  PROVE  /\ r.task \in Agenda /\ r.task \notin finished
         /\ \A i \in DOMAIN loads : r.task \notin loads[i].by
<1>1. r.task \in Agenda
  BY DEF RowsInv, PlanTypes, Runs
<1>2. ASSUME NEW i \in DOMAIN loads, r.task \in loads[i].by PROVE FALSE
  <2>1. PICK q \in runs : q.task = r.task /\ q.sent
    BY <1>2 DEF RowsInv, OneRunEach
  <2> QED BY <2>1 DEF RowsInv, OneRunEach
<1>3. ASSUME r.task \in finished PROVE FALSE
  BY <1>3, <1>2 DEF RowsInv, Leaving
<1> QED BY <1>1, <1>2, <1>3

LEMMA ServeOpKeeps ==
  ASSUME RowsInv, NEW r \in runs, Plan!ServeOp(r)
  PROVE  RowsInv'
<1> DEFINE u    == r.task
           asks == [r EXCEPT !.sent = TRUE]
<1>1. /\ ~r.sent /\ runs' = (runs \ {r}) \cup {asks} /\ Plan!Reload({u})
      /\ UNCHANGED <<lateRows, todayRows>>
      /\ \/ /\ plan' = [plan EXCEPT ![u] = Plan!Served(@, r.op)]
            /\ finished' = IF r.op = "toggle" THEN finished \cup {u} ELSE finished
         \/ UNCHANGED <<plan, finished>>
  BY DEF Plan!ServeOp
<1>2. u \in Agenda /\ u \notin finished /\ \A i \in DOMAIN loads : u \notin loads[i].by
  BY <1>1, UnsentIsNew
<1>3. asks \in Runs /\ asks.task = u /\ asks.sent /\ r.op \in {"toggle", "today", "later"}
  BY DEF RowsInv, PlanTypes, Runs
<1> HIDE DEF u, asks
<1>4. loads \in Seq(Loads)
  BY DEF RowsInv, PlanTypes
<1>5. /\ loads' \in Seq(Loads) /\ Len(loads) \in Nat /\ Len(loads') = Len(loads) + 1
      /\ \A i \in DOMAIN loads : i \in DOMAIN loads' /\ loads'[i] = loads[i]
      /\ Len(loads) + 1 \in DOMAIN loads' /\ loads'[Len(loads) + 1].by = {u}
      /\ \A t : Lacks(loads'[Len(loads) + 1], t)
      /\ \A i \in DOMAIN loads' : i \in DOMAIN loads \/ i = Len(loads) + 1
      /\ \A i \in DOMAIN loads : i <= Len(loads)
  BY <1>1, <1>2, <1>4, ReloadAsked
<1>6. /\ plan' \in [Agenda -> PlanRows] /\ finished' \subseteq Agenda
      /\ \A t \in Agenda : plan'[t].done <=> t \in finished'
      /\ finished' \subseteq finished \cup {u}
  <2>1. CASE UNCHANGED <<plan, finished>>
    BY <2>1 DEF RowsInv, PlanTypes
  <2>2. CASE /\ plan' = [plan EXCEPT ![u] = Plan!Served(@, r.op)]
             /\ finished' = IF r.op = "toggle" THEN finished \cup {u} ELSE finished
    <3>0. plan[u] \in PlanRows /\ plan[u].done = FALSE
      BY <1>2 DEF RowsInv, PlanTypes, PlanRows
    <3>1. Plan!Served(plan[u], r.op) \in PlanRows /\ (Plan!Served(plan[u], r.op).done <=> r.op = "toggle")
      BY <3>0, <1>3 DEF Plan!Served, PlanRows
    <3>2. plan' \in [Agenda -> PlanRows] /\ plan'[u] = Plan!Served(plan[u], r.op)
          /\ \A t \in Agenda : t # u => plan'[t] = plan[t]
      BY <1>2, <2>2, <3>1 DEF RowsInv, PlanTypes
    <3> QED BY <1>2, <2>2, <3>1, <3>2 DEF RowsInv, PlanTypes
  <2> QED BY <1>1, <2>1, <2>2
<1>7. PlanTypes'
  BY <1>1, <1>3, <1>5, <1>6 DEF RowsInv, PlanTypes
<1>8. OneRunEach'
  <2>1. ASSUME NEW p \in runs', NEW q \in runs', p.task = q.task PROVE p = q
    BY <1>1, <1>3, <2>1 DEF RowsInv, OneRunEach, u
  <2>2. ASSUME NEW i \in DOMAIN loads', NEW t \in loads'[i].by PROVE \E q \in runs' : q.task = t /\ q.sent
    <3>1. CASE i \in DOMAIN loads
      <4>1. t \in loads[i].by /\ t # u
        BY <1>2, <1>5, <2>2, <3>1
      <4>2. PICK q \in runs : q.task = t /\ q.sent
        BY <3>1, <4>1 DEF RowsInv, OneRunEach
      <4> QED BY <1>1, <4>1, <4>2 DEF u
    <3>2. CASE i = Len(loads) + 1
      BY <1>1, <1>3, <1>5, <2>2, <3>2
    <3> QED BY <1>5, <3>1, <3>2
  <2>3. ASSUME NEW i \in DOMAIN loads', NEW j \in DOMAIN loads', loads'[i].by \cap loads'[j].by # {} PROVE i = j
    BY <1>5, <2>3, <1>2 DEF RowsInv, OneRunEach
  <2> QED BY <2>1, <2>2, <2>3 DEF OneRunEach
<1>9. ASSUME NEW t \in finished' PROVE Leaving(t)'
  <2>1. CASE t = u
    BY <1>5, <2>1 DEF Leaving
  <2>2. CASE t # u
    BY <1>6, <1>9, <2>2, <1>1, <1>3, <1>2, StillLeaving DEF RowsInv, u
  <2> QED BY <2>1, <2>2
<1> QED BY <1>6, <1>7, <1>8, <1>9 DEF RowsInv

\* The server reads one of the two lists: what is done is on none.
LEMMA ServeListKeeps ==
  ASSUME RowsInv, NEW i \in DOMAIN loads, Plan!ServeList(i)
  PROVE  RowsInv'
<1>0. loads \in Seq(Loads) /\ loads[i] \in Loads
  BY DEF RowsInv, PlanTypes
<1>1. UNCHANGED <<plan, lateRows, todayRows, runs, finished>>
  BY DEF Plan!ServeList, Plan!rowVars
<1>2. /\ loads' \in Seq(Loads) /\ DOMAIN loads' = DOMAIN loads
      /\ \A j \in DOMAIN loads : loads'[j].by = loads[j].by
      /\ \A j \in DOMAIN loads : j # i => loads'[j] = loads[j]
      /\ \A t \in finished : Lacks(loads[i], t) => Lacks(loads'[i], t)
  <2>0. /\ Plan!Open("late") \in Listings /\ Plan!Open("today") \in Listings
        /\ \A t \in finished : t \notin Plan!Open("late") /\ t \notin Plan!Open("today")
    BY DEF Plan!Open, Listings, RowsInv, PlanTypes
  <2>1. CASE loads' = [loads EXCEPT ![i].late = Plan!Open("late")]
    BY <1>0, <2>0, <2>1 DEF Loads, Lacks
  <2>2. CASE loads' = [loads EXCEPT ![i].today = Plan!Open("today")]
    BY <1>0, <2>0, <2>2 DEF Loads, Lacks
  <2> QED BY <2>1, <2>2 DEF Plan!ServeList
<1>3. PlanTypes' /\ OneRunEach'
  BY <1>1, <1>2 DEF RowsInv, PlanTypes, OneRunEach
<1>4. ASSUME NEW t \in finished' PROVE Leaving(t)'
  BY <1>1, <1>2, <1>4 DEF RowsInv, Leaving
<1> QED BY <1>1, <1>3, <1>4 DEF RowsInv

\* Reloads come in the order they were asked for: the first shows its lists and is gone.
LEMMA LoadLandsKeeps ==
  ASSUME RowsInv, NEW i \in DOMAIN loads, i = 1, Plan!LoadLands(i)
  PROVE  RowsInv'
<1>0. loads \in Seq(Loads) /\ loads # <<>> /\ loads[1] \in Loads /\ 1 \in DOMAIN loads
  BY DEF RowsInv, PlanTypes
<1>1. /\ loads[1].late # Unasked /\ loads[1].today # Unasked
      /\ lateRows' = loads[1].late /\ todayRows' = loads[1].today
      /\ loads' = Plan!Without(loads, 1)
      /\ runs' = {r \in runs : r.task \notin loads[1].by}
      /\ UNCHANGED <<plan, finished>>
  BY DEF Plan!LoadLands, Plan!Over, Plan!Unread, Unasked
<1>2. /\ loads' \in Seq(Loads) /\ Len(loads') = Len(loads) - 1 /\ Len(loads) \in Nat
      /\ \A j \in 1 .. Len(loads) - 1 : loads'[j] = loads[j + 1]
  BY <1>0, <1>1, WithoutFirst
<1>3. \A j \in DOMAIN loads' : /\ j \in Nat /\ j + 1 \in DOMAIN loads /\ loads'[j] = loads[j + 1]
  BY <1>0, <1>2
<1>4. PlanTypes'
  BY <1>0, <1>1, <1>2 DEF RowsInv, PlanTypes, Loads
<1>5. OneRunEach'
  <2>1. \A r, q \in runs' : r.task = q.task => r = q
    BY <1>1 DEF RowsInv, OneRunEach
  <2>2. ASSUME NEW j \in DOMAIN loads', NEW t \in loads'[j].by PROVE \E r \in runs' : r.task = t /\ r.sent
    <3>1. PICK r \in runs : r.task = t /\ r.sent
      BY <1>3, <2>2 DEF RowsInv, OneRunEach
    <3>2. t \notin loads[1].by
      BY <1>2, <1>0, <1>3, <2>2 DEF RowsInv, OneRunEach
    <3> QED BY <1>1, <3>1, <3>2
  <2>3. ASSUME NEW j \in DOMAIN loads', NEW k \in DOMAIN loads', loads'[j].by \cap loads'[k].by # {} PROVE j = k
    BY <1>3, <2>3 DEF RowsInv, OneRunEach
  <2> QED BY <2>1, <2>2, <2>3 DEF OneRunEach
<1>6. ASSUME NEW t \in finished' PROVE Leaving(t)'
  <2>0. Leaving(t)
    BY <1>1, <1>6 DEF RowsInv
  <2>1. CASE \E j \in DOMAIN loads : t \in loads[j].by /\ \A k \in DOMAIN loads : k >= j => Lacks(loads[k], t)
    <3>1. PICK j \in DOMAIN loads : t \in loads[j].by /\ \A k \in DOMAIN loads : k >= j => Lacks(loads[k], t)
      BY <2>1
    <3>2. CASE j = 1
      BY <1>0, <3>1, <3>2, <1>1, <1>3 DEF Lacks, Leaving
    <3>3. CASE j # 1
      <4>1. j - 1 \in DOMAIN loads' /\ loads'[j - 1] = loads[j]
        BY <1>0, <1>2, <3>3
      <4>2. ASSUME NEW k \in DOMAIN loads', k >= j - 1 PROVE Lacks(loads'[k], t)
        BY <1>0, <1>3, <4>2, <3>1
      <4> QED BY <3>1, <4>1, <4>2 DEF Leaving
    <3> QED BY <3>2, <3>3
  <2>2. CASE /\ t \notin lateRows \cup todayRows /\ \A r \in runs : r.task # t
             /\ \A k \in DOMAIN loads : Lacks(loads[k], t)
    BY <1>0, <1>1, <2>2, <1>3 DEF Lacks, Leaving
  <2> QED BY <2>0, <2>1, <2>2 DEF Leaving
<1> QED BY <1>1, <1>4, <1>5, <1>6 DEF RowsInv

LEMMA RowsKeep ==
  ASSUME RowsInv, Slips = {}, Plan!PlanNext
  PROVE  RowsInv'
<1>1. CASE Plan!OpenPlan
  BY <1>1, ListsAskedAgain DEF Plan!OpenPlan, Plan!rowVars, RowsInv, PlanTypes
<1>2. CASE Plan!ClosePlan
  BY <1>2, RowsStand DEF Plan!ClosePlan, Plan!rowVars
<1>3. CASE Plan!Start
  BY <1>3, RowsStand DEF Plan!Start, Plan!rowVars
<1>4. ASSUME NEW t \in Agenda, Plan!TogglePick(t) PROVE RowsInv'
  BY <1>4, RowsStand DEF Plan!TogglePick, Plan!rowVars
<1>5. ASSUME NEW i \in DOMAIN loads, Plan!LoadLands(i) PROVE RowsInv'
  BY <1>5, LoadLandsKeeps DEF Plan!LoadLands
<1>6. ASSUME NEW i \in DOMAIN loads, Plan!LoadFails(i) PROVE FALSE
  BY <1>6 DEF Plan!LoadFails
<1>7. ASSUME NEW i \in DOMAIN puts, Plan!PutServed(i) PROVE RowsInv'
  BY <1>7, RowsStand DEF Plan!PutServed, Plan!rowVars
<1>8. ASSUME NEW i \in DOMAIN puts, Plan!PutFails(i) PROVE FALSE
  BY <1>8 DEF Plan!PutFails
<1> QED BY <1>1, <1>2, <1>3, <1>4, <1>5, <1>6, <1>7, <1>8, RollAllKeeps, RunOpKeeps,
            ServeOpKeeps, ServeListKeeps DEF Plan!PlanNext

-----------------------------------------------------------------------------
LEMMA PicksStand ==
  ASSUME PicksInv, UNCHANGED <<picked, settings, kept, puts, starting>>
  PROVE  PicksInv'
BY DEF PicksInv, PickTypes

\* A save is made: the page has what it sends, and it is the last.
LEMMA SaveKeeps ==
  ASSUME PicksInv, NEW next \in KeptSets, next.focus = picked',
         NEW by \in {"pick", "begin", "end"}, NEW rest \in Seq(Puts),
         puts' = Append(rest, [by |-> by, kv |-> next]), settings' = next, kept' \in KeptSets,
         \A i, j \in DOMAIN rest : rest[i].by # "pick" /\ rest[j].by # "pick" => i = j,
         picked' \subseteq Agenda,
         starting' \in [busy : BOOLEAN, saw : KeptSets],
         starting'.busy => starting'.saw.focus = picked',
         by # "pick" => starting'.busy /\ \A i \in DOMAIN rest : rest[i].by = "pick",
         \A i \in DOMAIN rest : rest[i].by # "pick" => starting'.busy
  PROVE  PicksInv'
<1> DEFINE new == [by |-> by, kv |-> next]
<1>1. new \in Puts /\ new.by = by /\ new.kv = next
  BY DEF Puts
<1>2. puts' = Append(rest, new)
  OBVIOUS
<1> HIDE DEF new
<1>3. /\ puts' \in Seq(Puts) /\ Len(rest) \in Nat /\ Len(puts') = Len(rest) + 1 /\ puts' # <<>>
      /\ puts'[Len(rest) + 1] = new /\ \A i \in DOMAIN rest : puts'[i] = rest[i]
      /\ \A i \in DOMAIN puts' : i \in DOMAIN rest \/ i = Len(rest) + 1
  BY <1>1, <1>2
<1>4. \A i, j \in DOMAIN puts' : puts'[i].by # "pick" /\ puts'[j].by # "pick" => i = j
  BY <1>1, <1>3
<1>5. \A i \in DOMAIN puts' : puts'[i].by # "pick" => starting'.busy
  BY <1>1, <1>3
<1>6. puts'[Len(puts')].kv = settings'
  BY <1>1, <1>3
<1> QED BY <1>3, <1>4, <1>5, <1>6 DEF PicksInv, PickTypes

\* While a start is busy no pick is made.
LEMMA TogglePickKeeps ==
  ASSUME PicksInv, Slips = {}, NEW t \in Agenda, Plan!TogglePick(t)
  PROVE  PicksInv'
<1> DEFINE next == [settings EXCEPT !.focus = picked']
<1>1. /\ ~starting.busy /\ picked' = (picked \ {t}) \cup ({t} \ picked)
      /\ settings' = next /\ puts' = Append(puts, [by |-> "pick", kv |-> next])
      /\ UNCHANGED <<kept, starting>>
  BY DEF Plan!TogglePick, Plan!SaveSettings
<1>2. picked' \subseteq Agenda
  BY <1>1 DEF PicksInv, PickTypes
<1>3. next \in KeptSets /\ next.focus = picked'
  BY <1>2 DEF PicksInv, PickTypes, KeptSets
<1> HIDE DEF next
<1>4. /\ puts \in Seq(Puts) /\ kept' \in KeptSets /\ starting' \in [busy : BOOLEAN, saw : KeptSets]
      /\ starting'.busy = FALSE
      /\ \A i, j \in DOMAIN puts : puts[i].by # "pick" /\ puts[j].by # "pick" => i = j
      /\ \A i \in DOMAIN puts : puts[i].by # "pick" => starting'.busy
  BY <1>1 DEF PicksInv, PickTypes
<1> QED BY <1>1, <1>2, <1>3, <1>4, SaveKeeps

LEMMA StartKeeps ==
  ASSUME PicksInv, Plan!Start
  PROVE  PicksInv'
<1> DEFINE next == [settings EXCEPT !.focus = picked]
<1>1. /\ ~starting.busy /\ settings' = next /\ puts' = Append(puts, [by |-> "begin", kv |-> next])
      /\ starting' = [busy |-> TRUE, saw |-> settings]
      /\ UNCHANGED <<kept, picked>>
  BY DEF Plan!Start, Plan!SaveSettings
<1>2. picked' \subseteq Agenda /\ puts \in Seq(Puts) /\ kept' \in KeptSets
  BY <1>1 DEF PicksInv, PickTypes
<1>3. next \in KeptSets /\ next.focus = picked'
  BY <1>1 DEF PicksInv, PickTypes, KeptSets
<1> HIDE DEF next
<1>4. /\ starting' \in [busy : BOOLEAN, saw : KeptSets] /\ starting'.busy = TRUE
      /\ starting'.saw.focus = picked'
  BY <1>1 DEF PicksInv, PickTypes
<1>5. \A i \in DOMAIN puts : puts[i].by = "pick"
  BY <1>1 DEF PicksInv
<1> QED BY <1>1, <1>2, <1>3, <1>4, <1>5, SaveKeeps

\* Saves are answered in the order they were made; the start of the day then goes on.
LEMMA PutServedKeeps ==
  ASSUME PicksInv, NEW i \in DOMAIN puts, i = 1, Plan!PutServed(i)
  PROVE  PicksInv'
<1> DEFINE rest == Plan!Without(puts, 1)
<1>0. /\ PickTypes /\ puts \in Seq(Puts) /\ puts # <<>> /\ puts[1] \in Puts /\ 1 \in DOMAIN puts
      /\ Len(puts) \in Nat
  BY DEF PicksInv, PickTypes
<1>1. /\ rest \in Seq(Puts) /\ Len(rest) = Len(puts) - 1
      /\ \A j \in 1 .. Len(puts) - 1 : rest[j] = puts[j + 1]
  BY <1>0, WithoutFirst
<1>2. kept' = puts[1].kv /\ UNCHANGED picked
  BY DEF Plan!PutServed
<1>3. \/ puts[1].by = "pick" /\ puts' = rest /\ UNCHANGED <<settings, starting>>
      \/ /\ puts[1].by = "begin"
         /\ puts' = Append(rest, [by |-> "end", kv |-> [starting.saw EXCEPT !.planned = TRUE]])
         /\ settings' = [starting.saw EXCEPT !.planned = TRUE] /\ UNCHANGED starting
      \/ puts[1].by = "end" /\ puts' = rest /\ starting' = Plan!Resting /\ UNCHANGED settings
  BY <1>0 DEF Puts, Plan!PutServed, Plan!GoesOn
<1> HIDE DEF rest
<1>4. \A j \in DOMAIN rest : j \in Nat /\ j + 1 \in DOMAIN puts /\ j + 1 # 1 /\ rest[j] = puts[j + 1]
  BY <1>0, <1>1
<1>5. \A j, k \in DOMAIN rest : rest[j].by # "pick" /\ rest[k].by # "pick" => j = k
  <2>1. ASSUME NEW j \in DOMAIN rest, NEW k \in DOMAIN rest, rest[j].by # "pick", rest[k].by # "pick" PROVE j = k
    BY <1>4, <2>1 DEF PicksInv
  <2> QED BY <2>1
<1>6. puts[1].by # "pick" => \A j \in DOMAIN rest : rest[j].by = "pick"
  BY <1>0, <1>4 DEF PicksInv
<1>7. kept' \in KeptSets
  BY <1>0, <1>2 DEF Puts
<1>8. IF rest = <<>> THEN kept' = settings ELSE rest[Len(rest)].kv = settings
  <2>1. puts[Len(puts)].kv = settings
    BY <1>0 DEF PicksInv
  <2>2. CASE rest = <<>>
    <3>1. Len(puts) = 1
      BY <1>0, <1>1, <2>2
    <3> QED BY <1>2, <2>1, <2>2, <3>1
  <2>3. CASE rest # <<>>
    BY <1>1, <2>3, <1>0, <2>1
  <2> QED BY <2>2, <2>3
<1>9. CASE puts[1].by = "pick" /\ puts' = rest /\ UNCHANGED <<settings, starting>>
  BY <1>4, <1>0, <1>1, <1>2, <1>7, <1>9, <1>5, <1>8 DEF PicksInv, PickTypes
<1>10. CASE /\ puts[1].by = "begin"
            /\ puts' = Append(rest, [by |-> "end", kv |-> [starting.saw EXCEPT !.planned = TRUE]])
            /\ settings' = [starting.saw EXCEPT !.planned = TRUE] /\ UNCHANGED starting
  <2>1. starting.busy /\ starting.saw \in KeptSets /\ starting.saw.focus = picked
    BY <1>0, <1>10 DEF PicksInv, PickTypes
  <2> DEFINE next == [starting.saw EXCEPT !.planned = TRUE]
  <2>2. next \in KeptSets /\ next.focus = picked
    BY <2>1 DEF KeptSets
  <2>3. puts' = Append(rest, [by |-> "end", kv |-> next]) /\ settings' = next
    BY <1>10
  <2> HIDE DEF next
  <2>4. \A j \in DOMAIN rest : rest[j].by = "pick"
    BY <1>6, <1>10
  <2>5. /\ picked' \subseteq Agenda /\ picked' = picked
        /\ starting' \in [busy : BOOLEAN, saw : KeptSets] /\ starting' = starting
    BY <1>0, <1>2, <1>10 DEF PickTypes
  <2> QED BY <1>1, <1>5, <1>7, <2>1, <2>2, <2>3, <2>4, <2>5, SaveKeeps
<1>11. CASE puts[1].by = "end" /\ puts' = rest /\ starting' = Plan!Resting /\ UNCHANGED settings
  BY <1>11, <1>0, <1>1, <1>2, <1>7, <1>6, <1>5, <1>8 DEF Plan!Resting, KeptSets, PickTypes,
     PicksInv
<1> QED BY <1>3, <1>9, <1>10, <1>11

LEMMA PicksKeep ==
  ASSUME PicksInv, Slips = {}, Plan!PlanNext
  PROVE  PicksInv'
<1>1. CASE Plan!OpenPlan
  BY <1>1, PicksStand DEF Plan!OpenPlan, PicksInv
<1>2. CASE Plan!ClosePlan \/ Plan!RollAll
  BY <1>2, PicksStand DEF Plan!ClosePlan, Plan!RollAll, Plan!setVars
<1>3. ASSUME NEW t \in Agenda, NEW op \in {"toggle", "today", "later"}, Plan!RunOp(t, op) PROVE PicksInv'
  BY <1>3, PicksStand DEF Plan!RunOp, Plan!setVars
<1>4. ASSUME NEW r \in runs, Plan!ServeOp(r) PROVE PicksInv'
  BY <1>4, PicksStand DEF Plan!ServeOp, Plan!setVars
<1>5. ASSUME NEW i \in DOMAIN loads, Plan!ServeList(i) \/ Plan!LoadLands(i) \/ Plan!LoadFails(i) PROVE PicksInv'
  BY <1>5, PicksStand DEF Plan!ServeList, Plan!LoadLands, Plan!LoadFails, Plan!Over, Plan!setVars
<1>6. ASSUME NEW i \in DOMAIN puts, Plan!PutServed(i) PROVE PicksInv'
  BY <1>6, PutServedKeeps DEF Plan!PutServed
<1>7. ASSUME NEW i \in DOMAIN puts, Plan!PutFails(i) PROVE FALSE
  BY <1>7 DEF Plan!PutFails
<1> QED BY <1>1, <1>2, <1>3, <1>4, <1>5, <1>6, <1>7, TogglePickKeeps, StartKeeps DEF Plan!PlanNext

-----------------------------------------------------------------------------
\* However the panel, the review of the day and the morning dialog are clicked through, and
\* in whatever order their reads and saves go on: a minute of focus is counted once, a review
\* stays with its day, and what the morning dialog ticks off or picks is what the page and
\* the server have.  Saved without haste and with answers in order.
THEOREM DialogsKeepTheirWord == Hurry = {} /\ Slips = {} => (PartsSpec => []DialogsTrue)
<1> SUFFICES ASSUME Hurry = {}, Slips = {}
             PROVE  PartsSpec => []DialogsTrue
  OBVIOUS
<1> DEFINE FInv == part = "focus" => FocusInv
           DInv == part = "review" => ReviewInv
           PInv == part = "plan" => RowsInv /\ PicksInv
           Inv  == FInv /\ DInv /\ PInv
<1>1. PartsInit => Inv
  <2> SUFFICES ASSUME PartsInit PROVE FocusInv /\ ReviewInv /\ RowsInv /\ PicksInv
    OBVIOUS
  <2>1. FocusInv
    BY LengthsAssumption DEF PartsInit, Focus!Init, Focus!Stopped, Counts, FocusInv, FocusTypes,
       RunsSince, Counted, Focus!TimeCountedOnce
  <2>2. ReviewInv
    <3>1. /\ isOpen = FALSE /\ date = Today /\ form = 0 /\ reads = {} /\ nReads = 0 /\ meant = <<>>
          /\ saving = [stage |-> "none", date |-> Today, text |-> 0]
          /\ reviews = [d \in Dates |-> 0]
      BY DEF PartsInit, Review!Init, Review!Blank, Review!NoReview
    <3>2. /\ MaxTexts \in Nat /\ Today \in Dates /\ meant \in Seq(Dates) /\ Len(meant) = 0
          /\ saving \in Savings /\ reviews \in [Dates -> 0 .. Len(meant)]
      BY <3>1, ReviewAssumption DEF Savings
    <3>3. saving.text <= Len(meant) /\ form \in 0 .. Len(meant) /\ Len(meant) <= MaxTexts
      BY <3>1, <3>2
    <3>4. ReviewTypes
      BY <3>1, <3>2, <3>3 DEF ReviewTypes
    <3> QED BY <3>1, <3>2, <3>4 DEF ReviewInv, OwnTexts, Unspoilt, WrittenFor
  <2>3. RowsInv
    <3>1. /\ plan \in [Agenda -> [day : {"late"}, done : {FALSE}]]
          /\ lateRows = {} /\ todayRows = {} /\ runs = {} /\ loads = <<>> /\ finished = {}
      BY DEF PartsInit, Plan!Init
    <3>2. plan \in [Agenda -> PlanRows] /\ \A t \in Agenda : plan[t].done = FALSE
      <4> DEFINE at == [day : {"late"}, done : {FALSE}]
      <4>1. \A x \in at : x \in PlanRows /\ x.done = FALSE
        BY DEF PlanRows
      <4>2. plan \in [Agenda -> at]
        BY <3>1
      <4> HIDE DEF at
      <4> QED BY <4>1, <4>2
    <3>3. loads \in Seq(Loads) /\ DOMAIN loads = {}
      BY <3>1
    <3>4. PlanTypes
      BY <3>1, <3>2, <3>3 DEF PlanTypes, Listings
    <3> QED BY <3>1, <3>2, <3>3, <3>4 DEF RowsInv, OneRunEach
  <2>4. PicksInv
    BY DEF PartsInit, Plan!Init, Plan!Resting, PicksInv, PickTypes, KeptSets
  <2> QED BY <2>1, <2>2, <2>3, <2>4
<1>2. Inv /\ [PartsNext]_partVars => Inv'
  <2> SUFFICES ASSUME Inv, [PartsNext]_partVars PROVE Inv'
    OBVIOUS
  <2>1. ASSUME part' = "focus" PROVE FocusInv'
    BY <2>1, FocusKeeps DEF PartsNext, partVars, timerVars, FocusInv, FocusTypes, RunsSince,
       Counted, Focus!TimeCountedOnce
  <2>2. ASSUME part' = "review" PROVE ReviewInv'
    <3>1. part = "review" /\ (Review!ReviewNext \/ UNCHANGED dayVars)
      BY <2>2 DEF PartsNext, partVars
    <3>2. CASE UNCHANGED dayVars
      BY <3>1, <3>2 DEF dayVars, ReviewInv, ReviewTypes, OwnTexts, Unspoilt, NotRead, Review!Reading
    <3> QED BY <3>1, <3>2, ReviewKeeps
  <2>3. ASSUME part' = "plan" PROVE RowsInv' /\ PicksInv'
    BY <2>3, RowsStand, PicksStand, RowsKeep, PicksKeep DEF PartsNext, partVars, planVars
  <2> QED BY <2>1, <2>2, <2>3
<1>3. Inv => DialogsTrue
  <2> SUFFICES ASSUME Inv PROVE DialogsTrue
    OBVIOUS
  <2>1. part = "focus" => Focus!TimeCountedOnce
    BY DEF FocusInv
  <2>2. part = "review" => Review!ReviewsTrue
    <3> SUFFICES ASSUME ReviewInv PROVE Review!ReviewsTrue
      OBVIOUS
    <3>1. saving.stage = "settings" /\ isOpen /\ form > saving.text => reviews[date] = form
      <4> SUFFICES ASSUME saving.stage = "settings", form > saving.text PROVE reviews[date] = form
        OBVIOUS
      <4>1. form \in Nat /\ saving.text \in Nat
        BY DEF ReviewInv, ReviewTypes, Savings
      <4> QED BY <4>1 DEF ReviewInv, Unspoilt
    <3> QED BY <3>1 DEF Review!ReviewsTrue, Review!Blank, ReviewInv, OwnTexts, WrittenFor
  <2>3. part = "plan" => Plan!DoneStaysDone /\ Plan!PicksKept
    BY DEF RowsInv, PicksInv, PlanTypes, Plan!DoneStaysDone, Plan!PicksKept
  <2> QED BY <2>1, <2>2, <2>3 DEF DialogsTrue
<1> QED BY <1>1, <1>2, <1>3, PTL DEF PartsSpec

-----------------------------------------------------------------------------
(* Forms: where each thought is.                                             *)

Submissions == [no : Nat, form : Forms, thought : 1 .. MaxThoughts,
                stage : {"tags", "create", "ok", "refused"}]

\* What a form holds is the newest of its thoughts, in no other form, and no row yet unless
\* its own submission has been answered so.
HeldOnce ==
  \A f \in Forms : text[f] # Empty =>
    /\ text[f] \in 1 .. nThoughts
    /\ \A g \in Forms : text[g] = text[f] => g = f
    /\ created[text[f]] = 0 \/ \E s \in adding : s.form = f /\ s.thought = text[f]

\* A submission is the only one of its thought, and has made a row when it was answered so.
SentOnce ==
  \A s \in adding :
    /\ s.thought \in 1 .. nThoughts
    /\ created[s.thought] = IF s.stage = "ok" THEN 1 ELSE 0
    /\ \A q \in adding : q.thought = s.thought => q = s
    /\ \A f \in Forms : text[f] = s.thought => f = s.form /\ f \notin Lines

\* A subtask line is empty by then and is not refused; another form has one submission at a
\* time, and its text until that is answered.
FormsWait ==
  \A s \in adding :
    /\ s.form \in Lines => s.stage \in {"create", "ok"}
    /\ s.form \notin Lines =>
         /\ \A q \in adding : q.form = s.form => q = s
         /\ text[s.form] = s.thought \/ (text[s.form] = Empty /\ s.thought \in erased)

FormTypes ==
  /\ text \in [Forms -> 0 .. MaxThoughts]
  /\ adding \subseteq Submissions /\ IsFiniteSet(adding)
  /\ nThoughts \in 0 .. MaxThoughts
  /\ created \in [1 .. MaxThoughts -> Nat]
  /\ erased \subseteq 1 .. MaxThoughts

\* No row is made of what is not written down yet.
NoneBefore == \A n \in 1 .. MaxThoughts : n \notin 1 .. nThoughts => created[n] = 0

FormsInv == FormTypes /\ NoneBefore /\ HeldOnce /\ SentOnce /\ FormsWait /\ ThoughtsKept

\* There is a number no submission has.
LEMMA FreeNumber ==
  ASSUME FormTypes
  PROVE  \E n \in 0 .. Cardinality(adding) : \A s \in adding : s.no # n
<1> DEFINE nos == 0 .. Cardinality(adding)
           of  == [n \in nos |-> CHOOSE s \in adding : s.no = n]
<1>1. IsFiniteSet(adding) /\ Cardinality(adding) \in Nat
  BY FS_CardinalityType DEF FormTypes
<1>2. IsFiniteSet(nos) /\ Cardinality(adding) < Cardinality(nos)
  BY <1>1, FS_Interval
<1> SUFFICES ASSUME \A n \in nos : \E s \in adding : s.no = n PROVE FALSE
  OBVIOUS
<1>3. of \in [nos -> adding] /\ \A n \in nos : of[n].no = n
  OBVIOUS
<1> HIDE DEF nos, of
<1>4. \E m, n \in nos : m # n /\ of[m] = of[n]
  BY <1>1, <1>2, <1>3, FS_PigeonHole
<1> QED BY <1>3, <1>4

\* A submission goes on to its next stage.
LEMMA StageIs ==
  ASSUME NEW s \in Submissions, NEW st \in {"tags", "create", "ok", "refused"}
  PROVE  LET q == [s EXCEPT !.stage = st]
         IN  q \in Submissions /\ q.form = s.form /\ q.thought = s.thought /\ q.stage = st
BY DEF Submissions

-----------------------------------------------------------------------------
LEMMA WriteDownKeeps ==
  ASSUME FormsInv, Haste = {}, NEW f \in Forms, WriteDown(f)
  PROVE  FormsInv'
<1> DEFINE n == nThoughts + 1
<1> USE FormsAssumption
<1>1. /\ nThoughts \in 0 .. MaxThoughts /\ nThoughts < MaxThoughts /\ nThoughts' = n
      /\ text \in [Forms -> 0 .. MaxThoughts]
      /\ text' = [text EXCEPT ![f] = nThoughts'] /\ UNCHANGED <<adding, created, erased>>
  BY DEF WriteDown, FormsInv, FormTypes
<1>2. /\ n \in 1 .. MaxThoughts /\ n \notin 1 .. nThoughts /\ n # Empty
      /\ 1 .. n = (1 .. nThoughts) \cup {n}
  BY <1>1 DEF Empty
<1>3. text' = [text EXCEPT ![f] = n]
  BY <1>1
<1> HIDE DEF n
<1>4. /\ text' \in [Forms -> 0 .. MaxThoughts]
      /\ \A g \in Forms : text'[g] = IF g = f THEN n ELSE text[g]
  BY <1>1, <1>2, <1>3
<1>5. text[f] = Empty
  BY DEF WriteDown, Patient, Under, FormsInv, SentOnce
<1>6. FormTypes'
  BY <1>1, <1>2, <1>4 DEF FormsInv, FormTypes
<1>7. HeldOnce'
  BY <1>2, <1>1, <1>4 DEF FormsInv, SentOnce, NoneBefore, HeldOnce
<1>8. SentOnce'
  BY <1>1, <1>2, <1>4 DEF FormsInv, SentOnce
<1>9. FormsWait'
  BY <1>1, <1>4 DEF WriteDown, Patient, Under, FormsInv, FormsWait
<1>10. ThoughtsKept'
  BY <1>2, <1>1, <1>4, <1>5 DEF FormsInv, NoneBefore, ThoughtsKept, Empty
<1>11. NoneBefore'
  BY <1>1, <1>2 DEF FormsInv, NoneBefore
<1> QED BY <1>6, <1>7, <1>8, <1>9, <1>10, <1>11 DEF FormsInv

LEMMA EraseKeeps ==
  ASSUME FormsInv, NEW f \in Forms, Erase(f)
  PROVE  FormsInv'
<1>1. /\ text[f] # Empty /\ erased' = erased \cup {text[f]} /\ text' = [text EXCEPT ![f] = Empty]
      /\ UNCHANGED <<adding, created, nThoughts>>
  BY DEF Erase
<1>2. /\ text' \in [Forms -> 0 .. MaxThoughts] /\ text[f] \in 1 .. MaxThoughts
      /\ \A g \in Forms : text'[g] = IF g = f THEN Empty ELSE text[g]
  BY <1>1, FormsAssumption DEF FormsInv, FormTypes, Empty
<1>3. FormTypes' /\ NoneBefore'
  BY <1>1, <1>2 DEF FormsInv, FormTypes, NoneBefore
<1>4. HeldOnce'
  BY <1>1, <1>2 DEF FormsInv, HeldOnce
<1>5. SentOnce'
  BY <1>1, <1>2, FormsAssumption DEF FormsInv, FormTypes, SentOnce, Empty
<1>6. FormsWait'
  BY <1>1, <1>2 DEF FormsInv, FormsWait
<1>7. ThoughtsKept'
  BY <1>1, <1>2 DEF FormsInv, ThoughtsKept
<1> QED BY <1>3, <1>4, <1>5, <1>6, <1>7 DEF FormsInv

LEMMA SubmitKeeps ==
  ASSUME FormsInv, Haste = {}, NEW f \in Forms, Submit(f)
  PROVE  FormsInv'
<1> DEFINE stages == IF f \in Lines THEN {"create"} ELSE {"tags", "create"}
           free   == CHOOSE n \in 0 .. Cardinality(adding) : \A s \in adding : s.no # n
<1>1. PICK stage \in stages :
        adding' = adding \cup {[no |-> free, form |-> f, thought |-> text[f], stage |-> stage]}
  BY DEF Submit
<1>2. /\ text[f] # Empty /\ text' = IF f \in Lines THEN [text EXCEPT ![f] = Empty] ELSE text
      /\ UNCHANGED <<created, erased, nThoughts>>
  BY DEF Submit
<1>3. free \in Nat
  BY FreeNumber, FS_CardinalityType DEF FormsInv, FormTypes
<1> DEFINE new == [no |-> free, form |-> f, thought |-> text[f], stage |-> stage]
<1>4. /\ new \in Submissions /\ new.form = f /\ new.thought = text[f] /\ new.stage = stage
      /\ stage \in {"tags", "create"} /\ (f \in Lines => stage = "create")
  BY <1>2, <1>3, FormsAssumption DEF FormsInv, FormTypes, Submissions, Empty
<1>5. adding' = adding \cup {new}
  BY <1>1
<1> HIDE DEF new, free, stages
<1>6. /\ text' \in [Forms -> 0 .. MaxThoughts] /\ text[f] \in 1 .. nThoughts
      /\ \A g \in Forms : text'[g] = IF g = f /\ f \in Lines THEN Empty ELSE text[g]
  BY <1>2, FormsAssumption DEF FormsInv, FormTypes, HeldOnce, Empty
<1>7. \A s \in adding : s.thought # text[f] /\ (f \notin Lines => s.form # f)
  BY DEF Submit, Patient, Under, FormsInv, SentOnce
<1>8. created[text[f]] = 0
  BY <1>2, <1>7 DEF FormsInv, HeldOnce
<1>9. FormTypes' /\ NoneBefore'
  BY <1>5, FS_AddElement, <1>2, <1>4, <1>6 DEF FormsInv, FormTypes, NoneBefore
<1>10. HeldOnce'
  BY <1>2, <1>5, <1>6 DEF FormsInv, HeldOnce
<1>11. SentOnce'
  BY <1>2, <1>6, FormsAssumption, <1>4, <1>5, <1>7, <1>8 DEF FormsInv, HeldOnce, SentOnce,
     FormTypes, Empty
<1>12. FormsWait'
  <2>1. ASSUME NEW s \in adding'
        PROVE  /\ s.form \in Lines => s.stage \in {"create", "ok"}
               /\ s.form \notin Lines =>
                    /\ \A q \in adding' : q.form = s.form => q = s
                    /\ text'[s.form] = s.thought \/ (text'[s.form] = Empty /\ s.thought \in erased)
    <3>1. CASE s = new
      BY <1>4, <1>5, <1>6, <1>7, <3>1 DEF FormsInv, FormsWait
    <3>2. CASE s \in adding
      BY <3>2, <1>4, <1>5, <1>6, <1>7 DEF FormsInv, FormTypes, Submissions, FormsWait
    <3> QED BY <1>5, <3>1, <3>2
  <2> QED BY <1>2, <2>1 DEF FormsWait
<1>13. ThoughtsKept'
  BY <1>4, <1>5, <1>6, <1>2 DEF FormsInv, ThoughtsKept
<1> QED BY <1>9, <1>10, <1>11, <1>12, <1>13 DEF FormsInv

\* A submission goes on, and has made a row if that is its new stage.
LEMMA ReachKeeps ==
  ASSUME FormsInv, NEW s \in adding, NEW st \in {"create", "ok", "refused"}, Reaches(s, st),
         s.stage # "ok", s.form \in Lines => st = "ok",
         created' = IF st = "ok" THEN [created EXCEPT ![s.thought] = @ + 1] ELSE created,
         UNCHANGED <<text, erased, nThoughts>>
  PROVE  FormsInv'
<1> DEFINE new == [s EXCEPT !.stage = st]
<1>1. /\ new \in Submissions /\ new.form = s.form /\ new.thought = s.thought /\ new.stage = st
      /\ adding' = (adding \ {s}) \cup {new} /\ s.thought \in 1 .. MaxThoughts /\ s.form \in Forms
  BY DEF Reaches, FormsInv, FormTypes, Submissions
<1> HIDE DEF new
<1>2. created[s.thought] = 0 /\ s.thought \in 1 .. nThoughts
  BY DEF FormsInv, SentOnce
<1>3. /\ created' \in [1 .. MaxThoughts -> Nat]
      /\ \A m \in 1 .. MaxThoughts : created'[m] = IF m = s.thought /\ st = "ok" THEN 1 ELSE created[m]
  BY <1>1, <1>2 DEF FormsInv, FormTypes
<1>4. FormTypes' /\ NoneBefore'
  BY FS_RemoveElement, <1>1, FS_AddElement, <1>2, <1>3 DEF FormsInv, FormTypes, NoneBefore
<1>5. \A q \in adding' : (q = new \/ (q \in adding /\ q.thought # s.thought))
  BY <1>1 DEF FormsInv, SentOnce
<1>6. HeldOnce'
  <2>1. ASSUME NEW f \in Forms, text[f] # Empty
        PROVE  created'[text[f]] = 0 \/ \E q \in adding' : q.form = f /\ q.thought = text[f]
    BY <2>1, FormsAssumption, <1>1, <1>3 DEF FormsInv, FormTypes, HeldOnce, SentOnce
  <2> QED BY <2>1 DEF FormsInv, HeldOnce
<1>7. SentOnce'
  BY <1>1, <1>2, <1>3, <1>5 DEF FormsInv, FormTypes, Submissions, SentOnce
<1>8. FormsWait'
  BY <1>1 DEF FormsInv, FormsWait
<1>9. ThoughtsKept'
  <2>1. ASSUME NEW m \in 1 .. nThoughts
        PROVE  /\ m \in erased \/ created'[m] > 0 \/ (\E g \in Forms : text[g] = m) \/ \E q \in adding' : q.thought = m
               /\ created'[m] <= 1
    BY FormsAssumption, <1>1, <1>3 DEF FormsInv, FormTypes, ThoughtsKept
  <2> QED BY <2>1 DEF ThoughtsKept
<1> QED BY <1>4, <1>6, <1>7, <1>8, <1>9 DEF FormsInv

LEMMA TaskAnsweredKeeps ==
  ASSUME FormsInv, NEW s \in adding, TaskAnswered(s)
  PROVE  FormsInv'
<1>1. /\ s.stage \in {"ok", "refused"} /\ adding' = adding \ {s}
      /\ text' = IF s.stage = "ok" /\ s.form \notin Lines THEN [text EXCEPT ![s.form] = Empty] ELSE text
      /\ UNCHANGED <<created, erased, nThoughts>>
  BY DEF TaskAnswered
<1>2. /\ text' \in [Forms -> 0 .. MaxThoughts] /\ s.form \in Forms
      /\ \A g \in Forms : text'[g] = IF g = s.form /\ s.stage = "ok" /\ s.form \notin Lines THEN Empty ELSE text[g]
  BY <1>1, FormsAssumption DEF FormsInv, FormTypes, Submissions, Empty
<1>3. FormTypes' /\ NoneBefore'
  BY FS_RemoveElement, <1>1, <1>2 DEF FormsInv, FormTypes, NoneBefore
<1>4. HeldOnce'
  <2>1. ASSUME NEW f \in Forms, text'[f] # Empty
        PROVE  created[text'[f]] = 0 \/ \E q \in adding' : q.form = f /\ q.thought = text'[f]
    <3>1. text'[f] = text[f]
      BY <1>2, <2>1
    <3>2. CASE text[f] = s.thought
      BY <3>2, <1>1, <1>2, <2>1, <3>1 DEF FormsInv, SentOnce
    <3>3. CASE text[f] # s.thought
      BY <1>1, <2>1, <3>1, <3>3 DEF FormsInv, HeldOnce
    <3> QED BY <3>2, <3>3
  <2> QED BY <1>1, <1>2, <2>1 DEF FormsInv, HeldOnce
<1>5. SentOnce'
  BY <1>2, FormsAssumption, <1>1 DEF FormsInv, SentOnce, FormTypes, Empty
<1>6. FormsWait'
  <2>1. ASSUME NEW q \in adding, q # s, q.form \notin Lines
        PROVE  text'[q.form] = text[q.form]
    BY <2>1, <1>2 DEF FormsInv, FormsWait, FormTypes, Submissions
  <2> QED BY <1>1, <2>1 DEF FormsInv, FormsWait
<1>7. ThoughtsKept'
  <2>1. ASSUME NEW m \in 1 .. nThoughts
        PROVE  /\ m \in erased \/ created[m] > 0 \/ (\E g \in Forms : text'[g] = m) \/ \E q \in adding' : q.thought = m
               /\ created[m] <= 1
    <3>1. CASE m = s.thought
      <4>1. CASE s.stage = "ok"
        BY <3>1, <4>1 DEF FormsInv, SentOnce
      <4>2. CASE s.stage = "refused"
        BY <1>2, <3>1, <4>2 DEF FormsInv, FormsWait, ThoughtsKept
      <4> QED BY <1>1, <4>1, <4>2
    <3>2. CASE m # s.thought
      <4>1. ASSUME NEW g \in Forms, text[g] = m PROVE text'[g] = m \/ m \in erased
        <5>1. CASE g = s.form /\ s.stage = "ok" /\ s.form \notin Lines
          BY <5>1, <3>2, <4>1 DEF FormsInv, FormsWait, Empty, FormTypes
        <5> QED BY <1>2, <4>1, <5>1
      <4> QED BY <1>1, <3>2, <4>1 DEF FormsInv, ThoughtsKept
    <3> QED BY <3>1, <3>2
  <2> QED BY <1>1, <2>1 DEF ThoughtsKept
<1> QED BY <1>3, <1>4, <1>5, <1>6, <1>7 DEF FormsInv

LEMMA FormsKeep ==
  ASSUME FormsInv, Haste = {}, FormNext
  PROVE  FormsInv'
BY ReachKeeps, WriteDownKeeps, EraseKeeps, SubmitKeeps, TaskAnsweredKeeps DEF Tagged, FormsInv,
   FormsWait, Create, Refuse, FormNext

-----------------------------------------------------------------------------
(* Gestures: what a touch may still come to.                                  *)

\* The list has not been pulled far enough to refresh.
Slack == pull.refreshing \/ pull.distance < PullTrigger

Nothing == ~row.timer /\ ~row.active /\ Slack

\* A touch has come to one thing at most; then, or when the press may still come, or with a
\* second finger, neither a swipe nor a pull will follow, and no swipe goes with a pull.
OneWay ==
  /\ outcome = {} \/ \E o \in outcome : outcome = {o}
  /\ row.timer => fingers = 1 /\ outcome = {} /\ ~row.active /\ Slack
  /\ fingers = 0 => ~row.timer /\ ~row.active /\ (still /\ outcome # {} => row.longPressed)
  /\ fingers = 1 /\ outcome # {} => row.longPressed /\ Nothing
  /\ fingers = 1 /\ still => ~row.active /\ Slack
  /\ fingers = 2 => outcome = {} /\ Nothing
  /\ row.active /\ Size(row.offset) >= SwipeDistance => Slack
  /\ ~pull.refreshing /\ (~pull.armed \/ fingers = 0) => pull.distance < PullTrigger

TouchInv == TouchTypeOK /\ OneWay

LEMMA Distances ==
  ASSUME NEW p \in Int \X Int
  PROVE  /\ Size(p[1]) \in Nat /\ Size(p[2]) \in Nat /\ Pulled(p) \in 0 .. PullMax
         /\ p[1] \in Int /\ p[2] \in Int
         /\ Near(p) => Size(p[1]) < SwipeDistance /\ Pulled(p) < PullTrigger
BY DEF Size, Pulled, PullMax, Near, MoveTolerance, SwipeDistance, PullTrigger

RowTypes  == [active : BOOLEAN, longPressed : BOOLEAN, timer : BOOLEAN, offset : Int]
PullTypes == [armed : BOOLEAN, distance : 0 .. PullMax, refreshing : BOOLEAN]

LEMMA TouchTypes ==
  ASSUME TouchTypeOK
  PROVE  /\ row \in RowTypes /\ pull \in PullTypes /\ fingers \in 0 .. 2
         /\ atTop \in BOOLEAN /\ still \in BOOLEAN
         /\ outcome \subseteq {"menu", "menu_swipe", "toggle", "refresh", "open"}
BY DEF TouchTypeOK, RowTypes, PullTypes

\* The types of the state after a step of which nothing unusual is known.
LEMMA TypesAgain ==
  ASSUME fingers' \in 0 .. 2, atTop' \in BOOLEAN, still' \in BOOLEAN, row' \in RowTypes, pull' \in PullTypes,
         outcome' \subseteq {"menu", "menu_swipe", "toggle", "refresh", "open"}
  PROVE  TouchTypeOK'
BY DEF TouchTypeOK, RowTypes, PullTypes

\* The row when the fingers are gone.
LEMMA Rested ==
  ASSUME NEW r \in RowTypes
  PROVE  LET q == [Idle EXCEPT !.longPressed = r.longPressed]
         IN  q \in RowTypes /\ ~q.timer /\ ~q.active /\ q.longPressed = r.longPressed
<1>1. Idle \in RowTypes /\ ~Idle.active /\ ~Idle.timer
  BY DEF Idle, RowTypes
<1>2. r.longPressed \in BOOLEAN
  BY DEF RowTypes
<1> QED BY <1>1, <1>2 DEF RowTypes

\* The list let go.
LEMMA LetGo ==
  ASSUME NEW q \in PullTypes
  PROVE  /\ [q EXCEPT !.armed = FALSE, !.distance = 0] \in PullTypes
         /\ [q EXCEPT !.armed = FALSE, !.distance = 0].distance = 0
         /\ [q EXCEPT !.armed = FALSE, !.distance = 0].refreshing = q.refreshing
         /\ [q EXCEPT !.refreshing = FALSE, !.distance = 0] \in PullTypes
         /\ [q EXCEPT !.refreshing = FALSE, !.distance = 0].distance = 0
<1>1. 0 \in 0 .. PullMax
  BY DEF PullMax
<1> QED BY <1>1 DEF PullTypes

LEMMA TouchStartKeeps ==
  ASSUME TouchInv, TouchStart
  PROVE  TouchInv'
<1>1. /\ fingers = 0 /\ fingers' = 1 /\ still' = TRUE /\ outcome' = {} /\ atTop' = atTop
      /\ row' = [row EXCEPT !.longPressed = FALSE, !.timer = TRUE]
      /\ pull' = IF pull.refreshing THEN pull ELSE [pull EXCEPT !.armed = atTop]
      /\ TouchTypeOK /\ OneWay
  BY DEF TouchInv, TouchStart
<1>2. row \in RowTypes /\ pull \in PullTypes /\ atTop \in BOOLEAN
  BY <1>1, TouchTypes DEF TouchTypeOK
<1>3. /\ row' \in RowTypes /\ row'.timer /\ row'.active = row.active
      /\ row'.offset = row.offset
  BY <1>1, <1>2 DEF RowTypes
<1>4. /\ pull' \in PullTypes /\ pull'.refreshing = pull.refreshing /\ pull'.distance = pull.distance
  BY <1>1, <1>2 DEF PullTypes
<1>5. ~row.active /\ Slack /\ (~pull.refreshing => pull.distance < PullTrigger)
  BY <1>1 DEF OneWay, Slack
<1>6. Slack'
  BY <1>4, <1>5 DEF Slack
<1>7. TouchTypeOK'
  BY <1>1, <1>2, <1>3, <1>4, TypesAgain
<1>8. OneWay'
  BY <1>1, <1>3, <1>4, <1>5, <1>6 DEF OneWay
<1> QED BY <1>7, <1>8 DEF TouchInv

LEMMA SecondFingerKeeps ==
  ASSUME TouchInv, Touches = {}, SecondFinger
  PROVE  TouchInv'
<1>1. /\ fingers = 1 /\ fingers' = 2 /\ still' = FALSE /\ UNCHANGED <<row, pull, atTop, outcome>>
      /\ ~row.timer /\ ~row.active /\ pull.distance < PullTrigger /\ outcome = {}
      /\ TouchTypeOK /\ OneWay
  BY DEF TouchInv, SecondFinger
<1>2. Slack' /\ Nothing'
  BY <1>1 DEF Slack, Nothing
<1>3. TouchTypeOK'
  <2>1. fingers' \in 0 .. 2
    BY <1>1
  <2>2. still' \in BOOLEAN
    BY <1>1
  <2> QED BY <1>1, <2>1, <2>2, TouchTypes, TypesAgain, Zenon
<1>4. OneWay'
  BY <1>1, <1>2 DEF OneWay, Nothing
<1> QED BY <1>3, <1>4 DEF TouchInv

LEMMA LongPressKeeps ==
  ASSUME TouchInv, LongPress
  PROVE  TouchInv'
BY TouchTypes, TypesAgain DEF TouchInv, LongPress, RowTypes, OneWay, Slack, Nothing

LEMMA MoveKeeps ==
  ASSUME TouchInv, Touches = {}, NEW p \in Points, Move(p)
  PROVE  TouchInv'
<1>1. /\ fingers = 1 /\ ~row.longPressed
      /\ Size(p[1]) < SwipeDistance \/ Pulled(p) < PullTrigger
      /\ row' = RowMoved(p) /\ pull' = PullMoved(p) /\ still' = (still /\ Near(p))
      /\ UNCHANGED <<fingers, atTop, outcome>>
      /\ TouchTypeOK /\ OneWay
  BY DEF Move, TouchInv
<1>2. outcome = {}
  BY <1>1 DEF OneWay
<1>3. p \in Int \X Int
  BY PointsAssumption
<1>4. /\ Size(p[1]) \in Nat /\ Pulled(p) \in 0 .. PullMax /\ p[1] \in Int
      /\ Near(p) => Size(p[1]) < SwipeDistance /\ Pulled(p) < PullTrigger
  BY <1>3, Distances
<1>5. row \in RowTypes /\ pull \in PullTypes
  BY <1>1, TouchTypes
<1>6. CASE ~row.active /\ Near(p)
  <2>1. row' = row
    BY <1>1, <1>6 DEF RowMoved
  <2>2. pull' \in PullTypes /\ pull'.refreshing = pull.refreshing /\ (Slack => Slack')
        /\ (~pull'.refreshing /\ ~pull'.armed => pull'.distance < PullTrigger)
    <3>1. CASE pull.refreshing \/ ~pull.armed
      BY <1>1, <1>5, <3>1 DEF PullMoved, Slack, OneWay
    <3>2. CASE ~(pull.refreshing \/ ~pull.armed)
      <4>1. CASE ~atTop
        <5>1. pull' = [pull EXCEPT !.armed = FALSE, !.distance = 0]
          BY <1>1, <3>2, <4>1 DEF PullMoved
        <5>2. pull' \in PullTypes /\ pull'.distance = 0 /\ pull'.refreshing = pull.refreshing
          BY <1>5, <5>1, LetGo
        <5> QED BY <5>2 DEF Slack, PullTrigger
      <4>2. CASE atTop
        BY <1>1, <3>2, <4>2, <1>4, <1>5, <1>6 DEF PullMoved, PullTypes, Slack
      <4> QED BY <4>1, <4>2
    <3> QED BY <3>1, <3>2
  <2>3. TouchTypeOK'
    BY <1>1, <1>6, TouchTypes, <2>1, <2>2, TypesAgain
  <2>4. OneWay'
    <3>1. ~row.timer \/ Slack'
      BY <1>1, <2>2 DEF OneWay
    <3>2. still' => ~row.active /\ Slack'
      BY <1>1, <1>6, <2>2 DEF OneWay
    <3>3. UNCHANGED <<fingers, row, outcome>>
      BY <1>1, <2>1
    <3> QED BY <1>1, <1>2, <1>6, <2>2, <3>1, <3>2, <3>3 DEF OneWay
  <2> QED BY <2>3, <2>4 DEF TouchInv
<1>7. CASE row.active \/ ~Near(p)
  <2>1. /\ row' \in RowTypes /\ ~row'.timer
        /\ row'.active => row'.offset = p[1]
    <3>1. row.active => ~row.timer
      BY <1>1 DEF OneWay
    <3>2. CASE ~row.active /\ Vertical(p)
      BY <1>1, <1>5, <1>7, <3>2 DEF RowMoved, RowTypes
    <3>3. CASE row.active \/ ~Vertical(p)
      BY <1>1, <1>7, <3>3, <3>1, <1>4 DEF RowMoved, RowTypes
    <3> QED BY <3>2, <3>3
  <2>2. /\ pull' \in PullTypes /\ (Slack' \/ pull'.distance = Pulled(p))
        /\ (~pull'.refreshing /\ ~pull'.armed => pull'.distance < PullTrigger)
    <3>1. CASE pull.refreshing \/ ~pull.armed
      BY <1>1, <1>5, <3>1 DEF PullMoved, Slack, OneWay
    <3>2. CASE ~(pull.refreshing \/ ~pull.armed)
      <4>1. CASE ~atTop
        <5>1. pull' = [pull EXCEPT !.armed = FALSE, !.distance = 0]
          BY <1>1, <3>2, <4>1 DEF PullMoved
        <5>2. pull' \in PullTypes /\ pull'.distance = 0
          BY <1>5, <5>1, LetGo
        <5> QED BY <5>2 DEF Slack, PullTrigger
      <4>2. CASE atTop
        BY <1>1, <3>2, <4>2, <1>4, <1>5 DEF PullMoved, PullTypes
      <4> QED BY <4>1, <4>2
    <3> QED BY <3>1, <3>2
  <2>3. still' = FALSE
    BY <1>1, <1>7 DEF OneWay
  <2>4. TouchTypeOK'
    BY <1>1, <2>1, <2>2, <2>3, TouchTypes, TypesAgain
  <2>5. row'.active /\ Size(row'.offset) >= SwipeDistance => Slack'
    <3> SUFFICES ASSUME row'.active, Size(row'.offset) >= SwipeDistance, pull'.distance = Pulled(p) PROVE Slack'
      BY <2>2
    <3>1. Size(p[1]) >= SwipeDistance
      BY <2>1
    <3>2. Pulled(p) < PullTrigger
      BY <1>1, <1>4, <3>1 DEF SwipeDistance
    <3> QED BY <3>2 DEF Slack
  <2>6. OneWay'
    BY <1>1, <1>2, <2>1, <2>2, <2>3, <2>5 DEF OneWay
  <2> QED BY <2>4, <2>6 DEF TouchInv
<1> QED BY <1>6, <1>7

LEMMA ScrollKeeps ==
  ASSUME TouchInv, Scroll
  PROVE  TouchInv'
BY DEF TouchInv, TouchTypeOK, OneWay, Nothing, Slack, Scroll

\* What the row makes of the end of a touch, and what the list does, are not both.
LEMMA TouchEndKeeps ==
  ASSUME TouchInv, TouchEnd
  PROVE  TouchInv'
<1> DEFINE refresh == ~pull.refreshing /\ pull.distance >= PullTrigger
           pulled  == IF refresh THEN {"refresh"} ELSE {}
<1>1. /\ fingers > 0 /\ fingers' = fingers - 1
      /\ row' = [Idle EXCEPT !.longPressed = row.longPressed]
      /\ pull' = IF pull.refreshing THEN pull
                 ELSE [armed |-> FALSE, distance |-> IF refresh THEN PullTrigger ELSE 0, refreshing |-> refresh]
      /\ outcome' = outcome \cup RowOutcome \cup pulled
      /\ UNCHANGED <<atTop, still>>
      /\ TouchTypeOK /\ OneWay
  BY DEF TouchEnd, TouchInv
<1>2. row \in RowTypes /\ pull \in PullTypes /\ fingers \in 1 .. 2
  BY <1>1, TouchTypes DEF TouchTypeOK
<1>3. row' \in RowTypes /\ ~row'.timer /\ ~row'.active /\ row'.longPressed = row.longPressed
  BY <1>1, <1>2, Rested
<1>4. refresh \in BOOLEAN
  OBVIOUS
<1>5. pull' \in PullTypes /\ Slack' /\ (~pull'.refreshing /\ ~pull.refreshing => pull'.distance < PullTrigger)
      /\ (pull.refreshing => pull' = pull)
  <2>1. CASE pull.refreshing
    BY <1>1, <1>2, <2>1 DEF Slack
  <2>2. CASE ~pull.refreshing /\ refresh
    <3>1. pull' = [armed |-> FALSE, distance |-> 64, refreshing |-> TRUE]
      BY <1>1, <2>2 DEF PullTrigger
    <3> QED BY <2>2, <3>1 DEF Slack, PullTypes, PullMax
  <2>3. CASE ~pull.refreshing /\ ~refresh
    BY <1>1, <2>3 DEF Slack, PullTypes, PullTrigger, PullMax
  <2> QED BY <2>1, <2>2, <2>3
<1>6. ~refresh <=> Slack
  BY <1>2 DEF Slack, PullTypes, PullTrigger
<1>7. RowOutcome \subseteq {"toggle", "menu_swipe"} /\ (RowOutcome = {} \/ \E o \in RowOutcome : RowOutcome = {o})
  BY DEF RowOutcome
<1>8. \/ outcome' = outcome /\ (fingers = 2 => outcome = {}) /\ (outcome = {} \/ row.longPressed)
      \/ outcome = {} /\ fingers = 1 /\ ~still /\ outcome' = RowOutcome
      \/ outcome = {} /\ fingers = 1 /\ ~still /\ outcome' = {"refresh"}
  <2>1. CASE fingers = 2 \/ outcome # {}
    BY <1>1, <1>2, <2>1, <1>6 DEF OneWay, Nothing, RowOutcome
  <2>2. CASE fingers = 1 /\ outcome = {} /\ still
    BY <1>1, <1>6, <2>2 DEF OneWay, RowOutcome
  <2>3. CASE fingers = 1 /\ outcome = {} /\ ~still /\ ~refresh
    BY <1>1, <2>3
  <2>4. CASE fingers = 1 /\ outcome = {} /\ ~still /\ refresh
    <3>1. RowOutcome = {}
      <4>1. row.active => Size(row.offset) < SwipeDistance
        BY <1>2, <1>1, <1>6, <2>4 DEF RowTypes, Size, OneWay, SwipeDistance
      <4> QED BY <4>1 DEF RowOutcome
    <3> QED BY <1>1, <2>4, <3>1
  <2> QED BY <1>2, <2>1, <2>2, <2>3, <2>4
<1> HIDE DEF pulled, refresh
<1>9. outcome' = {} \/ \E o \in outcome' : outcome' = {o}
  BY <1>1, <1>7, <1>8 DEF OneWay
<1>10. TouchTypeOK'
  BY <1>1, <1>7, <1>8, <1>2, <1>3, <1>5, TypesAgain DEF TouchTypeOK
<1>11. OneWay'
  BY <1>1, <1>3, <1>8, <1>2, <1>5, <1>9 DEF OneWay
<1> QED BY <1>10, <1>11 DEF TouchInv

LEMMA TouchCancelKeeps ==
  ASSUME TouchInv, Touches = {}, TouchCancel
  PROVE  TouchInv'
<1>1. /\ pull.distance < PullTrigger /\ fingers' = 0 /\ still' = FALSE
      /\ row' = [Idle EXCEPT !.longPressed = row.longPressed] /\ UNCHANGED <<pull, atTop, outcome>>
      /\ TouchTypeOK /\ OneWay
  BY DEF TouchInv, TouchCancel
<1>2. row' \in RowTypes /\ ~row'.timer /\ ~row'.active
  BY <1>1, TouchTypes, Rested
<1>3. TouchTypeOK'
  <2>1. fingers' \in 0 .. 2
    BY <1>1
  <2>2. still' \in BOOLEAN
    BY <1>1
  <2> QED BY <1>1, <1>2, <2>1, <2>2, TouchTypes, TypesAgain, Zenon
<1>4. OneWay'
  BY <1>1, <1>2 DEF OneWay
<1> QED BY <1>3, <1>4 DEF TouchInv

LEMMA ClickKeeps ==
  ASSUME TouchInv, Click
  PROVE  TouchInv'
<1>1. /\ fingers = 0 /\ still /\ still' = FALSE /\ row' = [row EXCEPT !.longPressed = FALSE]
      /\ outcome' = (IF row.longPressed THEN outcome ELSE outcome \cup {"open"})
      /\ UNCHANGED <<fingers, pull, atTop>>
      /\ TouchTypeOK /\ OneWay
  BY DEF TouchInv, Click
<1>2. row' \in RowTypes /\ row'.timer = row.timer /\ row'.active = row.active
  BY <1>1, TouchTypes DEF RowTypes
<1>3. outcome' = outcome \/ outcome' = {"open"}
  BY <1>1 DEF OneWay
<1>4. TouchTypeOK'
  BY <1>1, <1>2, <1>3, TouchTypes, TypesAgain
<1>5. OneWay'
  BY <1>1, <1>2, <1>3 DEF OneWay
<1> QED BY <1>4, <1>5 DEF TouchInv

LEMMA RefreshedKeeps ==
  ASSUME TouchInv, Refreshed
  PROVE  TouchInv'
<1>1. /\ pull' = [pull EXCEPT !.refreshing = FALSE, !.distance = 0]
      /\ UNCHANGED <<fingers, row, atTop, still, outcome>>
      /\ TouchTypeOK /\ OneWay
  BY DEF TouchInv, Refreshed
<1>2. pull' \in PullTypes /\ pull'.distance < PullTrigger
  <2>1. pull \in PullTypes
    BY <1>1, TouchTypes
  <2>2. pull' \in PullTypes /\ pull'.distance = 0
    BY <1>1, <2>1, LetGo
  <2> QED BY <2>2 DEF PullTrigger
<1>3. Slack'
  BY <1>2 DEF Slack
<1>4. TouchTypeOK'
  BY <1>1, <1>2, TouchTypes, TypesAgain
<1>5. OneWay'
  BY <1>1, <1>2, <1>3 DEF OneWay, Nothing
<1> QED BY <1>4, <1>5 DEF TouchInv

LEMMA TouchKeeps ==
  ASSUME TouchInv, Touches = {}, TouchNext
  PROVE  TouchInv'
BY TouchStartKeeps, SecondFingerKeeps, LongPressKeeps, MoveKeeps, ScrollKeeps, TouchEndKeeps,
   TouchCancelKeeps, ClickKeeps, RefreshedKeeps DEF TouchNext

LEMMA TouchMeans ==
  ASSUME TouchInv
  PROVE  OneOutcome
<1>1. Cardinality(outcome) <= 1
  <2>1. CASE outcome = {}
    BY <2>1, FS_EmptySet
  <2>2. CASE \E o \in outcome : outcome = {o}
    <3>1. PICK o \in outcome : outcome = {o}
      BY <2>2
    <3>2. Cardinality({o}) = 1
      BY FS_Singleton
    <3> QED BY <3>1, <3>2
  <2> QED BY <2>1, <2>2 DEF TouchInv, OneWay
<1> QED BY <1>1 DEF TouchInv, OneWay, OneOutcome
-----------------------------------------------------------------------------

LEMMA FormsStart ==
  ASSUME FormInit
  PROVE  FormsInv
BY FormsAssumption, FS_EmptySet DEF FormInit, Empty, FormTypes, ThoughtsKept, FormsInv,
   NoneBefore, HeldOnce, SentOnce, FormsWait

LEMMA TouchStarts ==
  ASSUME TouchInit
  PROVE  TouchInv
<1>1. fingers \in 0 .. 2 /\ {atTop, still} \subseteq BOOLEAN
  <2>1. fingers \in 0 .. 2
    BY DEF TouchInit
  <2>2. atTop \in BOOLEAN /\ still \in BOOLEAN
    BY Zenon DEF TouchInit
  <2>3. {atTop, still} \subseteq BOOLEAN
    BY <2>2, Zenon
  <2> QED BY <2>1, <2>3
<1>2. row \in [active : BOOLEAN, longPressed : BOOLEAN, timer : BOOLEAN, offset : Int]
  BY DEF TouchInit, Idle
<1>3. 0 \in 0 .. PullMax
  BY DEF PullMax
<1>4. pull \in [armed : BOOLEAN, distance : 0 .. PullMax, refreshing : BOOLEAN]
  BY <1>3 DEF TouchInit
<1>5. outcome \subseteq {"menu", "menu_swipe", "toggle", "refresh", "open"}
  BY DEF TouchInit
<1>6. TouchTypeOK
  BY <1>1, <1>2, <1>4, <1>5 DEF TouchTypeOK
<1> QED BY <1>6 DEF TouchInit, TouchInv, OneWay, Nothing, Slack, Idle, PullTrigger

-----------------------------------------------------------------------------
(* The panel of a task: where what was typed is, between the key and the      *)
(* server.                                                                    *)

\* What has been typed so far, here or on another device.
Written  == (0 .. nKeys) \cup {MaxKeys + 1}
RowsSeen == [value : [Fields -> Written], version : Nat]
Pendings == [value : Written, task : EditTasks, old : Written, version : Nat]
Updates  == [task : EditTasks, field : Fields, value : Written, version : Nat,
             by : {"timer", "user"}, answer : RowsSeen \cup {NoRow}, done : BOOLEAN]

EditTypes ==
  /\ server \in [EditTasks -> RowsSeen] /\ edited \in [EditTasks -> RowsSeen]
  /\ open \in EditTasks \cup {NoTask} /\ focus \in Fields \cup {"none"}
  /\ draft \in [Fields -> Written \cup {NoDraft}]
  /\ sent \in [Editor!Texts -> Written \cup {NoDraft}]
  /\ pending \in [Fields -> Pendings \cup {NoCall}]
  /\ calls \subseteq Updates
  /\ reread \in BOOLEAN
  /\ typed \in [EditTasks -> [Fields -> 0 .. nKeys]]
  /\ nKeys \in 0 .. MaxKeys

\* A task this page alone writes; a field of it the server has as it was typed.
Unshared(t)   == \A f \in Fields : <<t, f>> \notin foreign
SavedIn(t, f) == server[t].value[f] = typed[t][f]

\* An update, and a timer, that has seen the newest version: what it saves is taken.
InForce(c)  == ~c.done /\ c.version = server[c.task].version
Armed(f)    == pending[f] # NoCall
ArmedNow(f) == Armed(f) /\ pending[f].version = server[open].version

\* No version is newer than the server's, and a page behind it will hear of it.
Behind ==
  /\ edited = server \/ reread \/ \E c \in calls : c.done
  /\ \A t \in EditTasks : edited[t].version <= server[t].version
  /\ \A c \in calls :
       /\ c.version <= server[c.task].version
       /\ c.answer # NoRow => c.answer.version <= server[c.task].version
       /\ ~c.done => c.answer = NoRow

\* Updates save what was typed, one field of a task at a time; an answer is the row as it was
\* typed.
Updating ==
  /\ \A c \in calls : typed[c.task][c.field] # 0
  /\ \A c \in calls : InForce(c) /\ Unshared(c.task) =>
       /\ c.value = typed[c.task][c.field]
       /\ \A g \in Fields : g # c.field => SavedIn(c.task, g)
  /\ \A c \in calls : c.done /\ c.answer # NoRow /\ Unshared(c.task) =>
       c.answer.value = typed[c.task] /\ server[c.task].value = typed[c.task]
  /\ \A t \in EditTasks : Unshared(t) /\ server[t].value # typed[t] => edited[t] = server[t]

\* A timer holds what was typed into the open task; a number's holds up every other field, and
\* a text's has been overtaken by an update once the field has lost the focus.
TimersHold ==
  /\ \A f \in Fields : Armed(f) =>
       /\ open \in EditTasks /\ pending[f].task = open
       /\ pending[f].value = typed[open][f] /\ pending[f].value >= 1
       /\ pending[f].version <= server[open].version
       /\ ArmedNow(f) => server[open].value[f] = pending[f].old /\ pending[f].value # pending[f].old
  /\ \A f, g \in Fields \ Editor!Texts : Armed(f) /\ Armed(g) => f = g
  /\ focus # "none" => open \in EditTasks /\ \A f \in Fields \ Editor!Texts : Armed(f) => f = focus
  /\ \A g \in Editor!Texts : ArmedNow(g) /\ focus # g => \E c \in calls : InForce(c) /\ c.task = open
  /\ \A g \in Editor!Texts : ArmedNow(g) /\ focus = g => draft[g] = pending[g].value
  /\ \A c \in calls, n \in Fields \ Editor!Texts :
       InForce(c) /\ Unshared(c.task) /\ c.task = open /\ Armed(n) => c.field = n

\* What was typed last into a task no one else writes is saved, in the timer or on its way.
InTimer(t, f) ==
  /\ t = open /\ ArmedNow(f) /\ edited[t] = server[t]
  /\ \A c \in calls : c.task = t => ~InForce(c) /\ c.answer = NoRow
  /\ f = "start" => draft[f] = pending[f].value
OnItsWay(t, f) == \E c \in calls : InForce(c) /\ c.task = t /\ c.field = f

NotLost ==
  \A t \in EditTasks, f \in Fields :
    Unshared(t) /\ ~SavedIn(t, f) => InTimer(t, f) \/ OnItsWay(t, f)

\* The inputs show what was typed; where nothing was, what the row has, and no update will
\* change that under the user's hands.
DraftsShow ==
  /\ open = NoTask => focus = "none" /\ \A f \in Fields : draft[f] = NoDraft /\ ~Armed(f)
  /\ open \in EditTasks /\ Unshared(open) =>
       \A f \in Fields : /\ f \in Editor!Texts => draft[f] = typed[open][f]
                         /\ f = "start" => draft[f] \in {NoDraft, typed[open][f]}
  /\ \A f \in Editor!Texts : sent[f] # NoDraft => open \in EditTasks /\ typed[open][f] # 0
  /\ open \in EditTasks => \A f \in Fields :
       typed[open][f] = 0 /\ f # "estimate" => draft[f] \in {NoDraft, edited[open].value[f]}
  /\ focus # "none" /\ typed[open][focus] = 0 =>
       \A c \in calls : c.task = open => ~InForce(c) /\ c.answer = NoRow

EditInv == EditTypes /\ Behind /\ Updating /\ TimersHold /\ NotLost /\ DraftsShow /\ Editor!ForeignKept

-----------------------------------------------------------------------------
LEMMA WrittenNat ==
  ASSUME nKeys \in 0 .. MaxKeys
  PROVE  Written \subseteq Nat /\ NoDraft \notin Written /\ 0 \in Written /\ MaxKeys + 1 \in Written
BY EditorAssumption DEF Written

\* What the debounce holds and what an update carries is told from nothing.
LEMMA Tokens ==
  ASSUME nKeys \in 0 .. MaxKeys
  PROVE  /\ NoCall \notin Pendings /\ NoRow \notin RowsSeen
         /\ "none" \notin Fields /\ NoTask \notin EditTasks
BY WrittenNat, EditorAssumption DEF Pendings, RowsSeen

LEMMA UpdateIs ==
  ASSUME NEW t \in EditTasks, NEW f \in Fields, NEW v \in Written, NEW n \in Nat, NEW by \in {"timer", "user"}
  PROVE  LET c == Editor!Update(t, f, v, n, by)
         IN  /\ c \in Updates /\ c.task = t /\ c.field = f /\ c.value = v /\ c.version = n
             /\ c.done = FALSE /\ c.answer = NoRow
BY DEF Editor!Update, Updates

\* What a timer makes, when it runs out.
LEMMA FireIs ==
  ASSUME EditTypes, TimersHold, NEW f \in Fields, Armed(f)
  PROVE  LET v == IF f = "start" THEN edited[open].version ELSE pending[f].version
         IN  /\ v \in Nat /\ open \in EditTasks /\ pending[f].value \in Written
             /\ Editor!Fire(f) \subseteq {Editor!Update(open, f, pending[f].value, v, "timer")}
             /\ f = "start" \/ ArmedNow(f) =>
                  Editor!Fire(f) = {Editor!Update(open, f, pending[f].value, v, "timer")}
BY Tokens DEF TimersHold, EditTypes, Armed, Pendings, RowsSeen, Editor!Fire, Editor!Texts

LEMMA NoFire ==
  ASSUME NEW f \in Fields, ~Armed(f)
  PROVE  Editor!Fire(f) = {}
BY DEF Editor!Fire, Armed

\* What the inputs make of new rows.
RowsShown(new) ==
  /\ edited' = new
  /\ draft' \in [Fields -> Written \cup {NoDraft}]
  /\ sent' \in [Editor!Texts -> Written \cup {NoDraft}]
  /\ \A f \in Editor!Texts : sent'[f] \in {sent[f], NoDraft}
  /\ open = NoTask => draft' = draft
  /\ open \in EditTasks => \A f \in Fields :
       /\ new[open].value[f] = edited[open].value[f] => draft'[f] = draft[f]
       /\ focus = f \/ f = "estimate" => draft'[f] = draft[f]
       /\ f \in Editor!Texts => draft'[f] \in {draft[f], new[open].value[f]}
       /\ f \notin Editor!Texts => draft'[f] \in {draft[f], NoDraft}
       /\ f \in Editor!Texts /\ new[open].value[f] # edited[open].value[f] /\ sent[f] = NoDraft
          /\ focus # f => draft'[f] = new[open].value[f]
       /\ f = "start" /\ new[open].value[f] # edited[open].value[f] /\ focus # f => draft'[f] = NoDraft

LEMMA ShownIs ==
  ASSUME EditTypes, NEW new \in [EditTasks -> RowsSeen], Editor!ShowRows(new)
  PROVE  RowsShown(new)
<1> DEFINE changed(f) == open # NoTask /\ new[open].value[f] # edited[open].value[f]
<1>1. /\ edited' = new
      /\ draft' = [f \in Fields |->
           CASE ~changed(f) -> draft[f]
             [] changed(f) /\ f \in Editor!Texts -> Editor!Synced(f, new[open].value[f]).draft
             [] changed(f) /\ f = "start" /\ focus # f -> NoDraft
             [] OTHER -> draft[f]]
      /\ sent' = [f \in Editor!Texts |->
           IF changed(f) THEN Editor!Synced(f, new[open].value[f]).sent ELSE sent[f]]
  BY DEF Editor!ShowRows
<1>2. ASSUME NEW f \in Editor!Texts, NEW v \in Written
      PROVE  /\ Editor!Synced(f, v).draft \in {draft[f], v} /\ Editor!Synced(f, v).sent \in {sent[f], NoDraft}
             /\ focus = f => Editor!Synced(f, v).draft = draft[f]
             /\ sent[f] = NoDraft /\ focus # f => Editor!Synced(f, v).draft = v
  BY WrittenNat DEF EditTypes, Editor!Synced
<1>3. Editor!Texts \subseteq Fields /\ "start" \notin Editor!Texts /\ "estimate" \notin Editor!Texts
  BY DEF Editor!Texts
<1>4. ASSUME NEW f \in Fields, changed(f) PROVE open \in EditTasks /\ new[open].value[f] \in Written
  BY <1>4 DEF EditTypes, RowsSeen
<1>5. \A f \in Fields :
        draft'[f] = CASE ~changed(f) -> draft[f]
                      [] changed(f) /\ f \in Editor!Texts -> Editor!Synced(f, new[open].value[f]).draft
                      [] changed(f) /\ f = "start" /\ focus # f -> NoDraft
                      [] OTHER -> draft[f]
  BY <1>1
<1>6. \A f \in Editor!Texts : sent'[f] = IF changed(f) THEN Editor!Synced(f, new[open].value[f]).sent ELSE sent[f]
  BY <1>1
<1> HIDE DEF changed
<1>7. \A f \in Editor!Texts : sent'[f] \in {sent[f], NoDraft}
  BY <1>2, <1>3, <1>4, <1>6
<1>8. \A f \in Fields :
        /\ ~changed(f) \/ focus = f \/ f = "estimate" => draft'[f] = draft[f]
        /\ f \in Editor!Texts => draft'[f] = draft[f] \/ (changed(f) /\ draft'[f] = new[open].value[f])
        /\ f \notin Editor!Texts => draft'[f] \in {draft[f], NoDraft}
        /\ f \in Editor!Texts /\ changed(f) /\ sent[f] = NoDraft /\ focus # f => draft'[f] = new[open].value[f]
        /\ f = "start" /\ changed(f) /\ focus # f => draft'[f] = NoDraft
  <2> SUFFICES ASSUME NEW f \in Fields
        PROVE
        /\ ~changed(f) \/ focus = f \/ f = "estimate" => draft'[f] = draft[f]
        /\ f \in Editor!Texts => draft'[f] = draft[f] \/ (changed(f) /\ draft'[f] = new[open].value[f])
        /\ f \notin Editor!Texts => draft'[f] \in {draft[f], NoDraft}
        /\ f \in Editor!Texts /\ changed(f) /\ sent[f] = NoDraft /\ focus # f => draft'[f] = new[open].value[f]
        /\ f = "start" /\ changed(f) /\ focus # f => draft'[f] = NoDraft
    OBVIOUS
  <2>1. CASE ~changed(f)
    BY <1>5, <2>1
  <2>2. CASE changed(f) /\ f \in Editor!Texts
    BY <1>2, <1>3, <1>4, <1>5, <2>2
  <2>3. CASE changed(f) /\ f \notin Editor!Texts
    BY <1>5, <2>3
  <2> QED BY <2>1, <2>2, <2>3
<1>9. draft' \in [Fields -> Written \cup {NoDraft}]
  BY <1>4, <1>8, <1>1 DEF EditTypes
<1>10. sent' \in [Editor!Texts -> Written \cup {NoDraft}]
  BY <1>1, <1>7 DEF EditTypes
<1>11. open \in EditTasks => \A f \in Fields : changed(f) <=> new[open].value[f] # edited[open].value[f]
  BY Tokens DEF EditTypes, changed
<1>12. open = NoTask => draft' = draft
  <2> SUFFICES ASSUME open = NoTask PROVE draft' = draft
    OBVIOUS
  <2>1. \A f \in Fields : ~changed(f)
    BY DEF changed
  <2> QED BY <1>8, <1>9, <2>1 DEF EditTypes
<1> QED BY <1>1, <1>7, <1>8, <1>9, <1>10, <1>11, <1>12 DEF RowsShown

-----------------------------------------------------------------------------
(* What the user does. He waits for the answers to what was saved last, so    *)
(* that nothing is on its way by then.                                        *)

\* The types after a step without a key.
LEMMA EditTypesAre ==
  ASSUME EditTypes, UNCHANGED nKeys, UNCHANGED typed,
         server' \in [EditTasks -> RowsSeen], edited' \in [EditTasks -> RowsSeen],
         open' \in EditTasks \cup {NoTask}, focus' \in Fields \cup {"none"},
         draft' \in [Fields -> Written \cup {NoDraft}], sent' \in [Editor!Texts -> Written \cup {NoDraft}],
         pending' \in [Fields -> Pendings \cup {NoCall}], calls' \subseteq Updates, reread' \in BOOLEAN
  PROVE  EditTypes'
BY DEF Written, RowsSeen, Pendings, Updates, EditTypes

LEMMA TextsAre ==
  /\ Editor!Texts \subseteq Fields /\ "start" \notin Editor!Texts /\ "estimate" \notin Editor!Texts
  /\ Fields \ Editor!Texts \subseteq {"start", "estimate"}
BY EditorAssumption DEF Editor!Texts

\* While the user may act the page is not behind, and nothing unsaved is anywhere but in the
\* timer of the field he is in, or of a number.
LEMMA CalmMeans ==
  ASSUME EditInv, Disorder = {}, NEW fs, Editor!Calm(fs)
  PROVE  /\ calls = {} /\ reread = FALSE /\ edited = server
         /\ \A f \in fs \ Editor!Texts : ~Armed(f)
         /\ \A g \in Editor!Texts : ArmedNow(g) => focus = g
         /\ \A t \in EditTasks, f \in Fields : Unshared(t) /\ ~SavedIn(t, f) =>
              /\ t = open /\ ArmedNow(f)
              /\ f \in Editor!Texts => focus = f
              /\ f = "start" => draft[f] = pending[f].value
BY DEF Editor!Calm, Armed, EditInv, EditTypes, Behind, TimersHold, NotLost, InTimer, OnItsWay

\* What the user saves: each update carries what he typed into the open task.
LEMMA NewUpdates ==
  ASSUME EditInv, calls = {}, edited = server,
         UNCHANGED <<server, edited, typed, foreign>>,
         \A c \in calls' :
           /\ c \in Updates /\ c.task \in EditTasks /\ ~c.done /\ c.answer = NoRow
           /\ c.version <= server[c.task].version /\ typed[c.task][c.field] # 0
           /\ InForce(c) /\ Unshared(c.task) =>
                /\ c.value = typed[c.task][c.field]
                /\ \A g \in Fields : g # c.field => SavedIn(c.task, g)
  PROVE  Behind' /\ Updating' /\ Editor!ForeignKept'
BY DEF EditInv, Behind, InForce, Unshared, SavedIn, Updating, Editor!ForeignKept

LEMMA OpenKeeps ==
  ASSUME EditInv, Disorder = {}, NEW t \in EditTasks, Editor!Open(t)
  PROVE  EditInv'
<1>1. /\ open # t /\ focus = "none" /\ open' = t
      /\ \A f \in Fields \ Editor!Texts :
           open # NoTask => pending[f] = NoCall /\ draft[f] \in {NoDraft, edited[open].value[f]}
      /\ calls' = calls \cup UNION {Editor!Fire(f) : f \in Editor!Texts}
      /\ pending' = [f \in Fields |-> IF f \in Editor!Texts THEN NoCall ELSE pending[f]]
      /\ sent' = [f \in Editor!Texts |-> NoDraft]
      /\ draft' = [f \in Fields |->
           CASE f \in Editor!Texts -> edited[t].value[f]
             [] f = "start" /\ open # NoTask /\ edited[t].value[f] = edited[open].value[f] -> draft[f]
             [] OTHER -> NoDraft]
      /\ UNCHANGED <<server, edited, focus, reread, typed, foreign, nKeys>>
      /\ Editor!Calm({})
  BY DEF Editor!Open
<1>2. /\ calls = {} /\ reread = FALSE /\ edited = server
      /\ \A g \in Editor!Texts : ArmedNow(g) => focus = g
      /\ \A u \in EditTasks, f \in Fields : Unshared(u) /\ ~SavedIn(u, f) =>
           u = open /\ ArmedNow(f) /\ (f \in Editor!Texts => focus = f)
  BY <1>1, CalmMeans
<1>3. EditTypes /\ TimersHold /\ DraftsShow /\ nKeys \in 0 .. MaxKeys
  BY DEF EditInv, EditTypes
<1>4. "none" \notin Fields /\ NoTask \notin EditTasks /\ t # NoTask
  BY <1>3, Tokens
<1>5. \A g \in Editor!Texts : ~ArmedNow(g)
  BY <1>1, <1>2, <1>4, TextsAre
<1>6. \A f \in Fields \ Editor!Texts : ~Armed(f)
  BY <1>1, <1>3 DEF Armed, DraftsShow, EditTypes
<1>7. \A u \in EditTasks, f \in Fields : Unshared(u) => SavedIn(u, f)
  BY <1>1, <1>2, <1>4, <1>6 DEF ArmedNow
<1>8. ASSUME NEW c \in calls'
      PROVE  /\ c \in Updates /\ c.task \in EditTasks /\ ~c.done /\ c.answer = NoRow
             /\ c.version <= server[c.task].version /\ typed[c.task][c.field] # 0
             /\ ~InForce(c)
  <2>1. PICK f \in Editor!Texts : c \in Editor!Fire(f)
    BY <1>1, <1>2
  <2>2. f \in Fields /\ f # "start" /\ Armed(f)
    BY <2>1, NoFire, TextsAre
  <2>3. /\ pending[f].version \in Nat /\ open \in EditTasks /\ pending[f].value \in Written
        /\ c = Editor!Update(open, f, pending[f].value, pending[f].version, "timer")
    BY <1>3, <2>1, <2>2, FireIs
  <2>4. /\ c \in Updates /\ c.task = open /\ c.field = f /\ c.value = pending[f].value
        /\ c.version = pending[f].version /\ c.done = FALSE /\ c.answer = NoRow
    BY <2>2, <2>3 DEF Editor!Update, Updates
  <2>5. /\ pending[f].version <= server[open].version /\ pending[f].value = typed[open][f]
        /\ pending[f].value >= 1
    BY <1>3, <2>2 DEF TimersHold
  <2>6. pending[f].version # server[open].version
    BY <1>5, <2>2 DEF ArmedNow
  <2> QED BY <2>3, <2>4, <2>5, <2>6 DEF InForce
<1>9. Behind' /\ Updating' /\ Editor!ForeignKept'
  BY <1>1, <1>2, <1>8, NewUpdates
<1>10. \A f \in Fields : pending'[f] = NoCall /\ ~Armed(f)' /\ ~ArmedNow(f)'
  BY <1>1, <1>6 DEF Armed, ArmedNow
<1>11. TimersHold'
  BY <1>1, <1>10, TextsAre DEF TimersHold
<1>12. \A f \in Fields : /\ f \in Editor!Texts => draft'[f] = edited[t].value[f]
                         /\ f = "start" => draft'[f] \in {NoDraft, edited[t].value[f]}
                         /\ f \notin Editor!Texts /\ f # "start" => draft'[f] = NoDraft
  BY <1>1, <1>4, TextsAre
<1>13. EditTypes'
  <2>1. /\ \A f \in Fields : edited[t].value[f] \in Written
    BY <1>3 DEF EditTypes, RowsSeen
  <2>2. draft' \in [Fields -> Written \cup {NoDraft}]
    BY <1>12, <2>1, <1>1
  <2>3. pending' \in [Fields -> Pendings \cup {NoCall}] /\ sent' \in [Editor!Texts -> Written \cup {NoDraft}]
    BY <1>1, <1>3 DEF EditTypes
  <2>4. calls' \subseteq Updates
    BY <1>8
  <2> QED BY <1>1, <1>3, <2>2, <2>3, <2>4, EditTypesAre DEF EditTypes
<1>14. NotLost'
  BY <1>1, <1>7 DEF NotLost, Unshared, SavedIn
<1>15. DraftsShow'
  BY <1>2, <1>7, <1>1, <1>4, <1>12, TextsAre DEF SavedIn, Unshared, DraftsShow
<1> QED BY <1>9, <1>11, <1>13, <1>14, <1>15 DEF EditInv

LEMMA FieldFocusKeeps ==
  ASSUME EditInv, Disorder = {}, NEW f \in Fields, Editor!Focus(f)
  PROVE  EditInv'
<1>1. /\ open # NoTask /\ focus = "none" /\ focus' = f /\ Editor!Calm(Fields \ {f})
      /\ UNCHANGED <<server, edited, open, draft, sent, pending, calls, reread, typed, foreign, nKeys>>
  BY DEF Editor!Focus
<1>2. /\ calls = {} /\ edited = server
      /\ \A g \in (Fields \ {f}) \ Editor!Texts : ~Armed(g)
      /\ \A g \in Editor!Texts : ArmedNow(g) => focus = g
  BY <1>1, CalmMeans
<1>3. EditTypes /\ TimersHold /\ DraftsShow /\ nKeys \in 0 .. MaxKeys
  BY DEF EditInv, EditTypes
<1>4. "none" \notin Fields /\ open \in EditTasks
  BY <1>1, <1>3, Tokens DEF EditTypes
<1>5. /\ \A g \in Fields : Armed(g)' = Armed(g) /\ ArmedNow(g)' = ArmedNow(g)
      /\ \A g \in Editor!Texts : ~ArmedNow(g)
  BY <1>1, <1>2, <1>4, TextsAre DEF Armed, ArmedNow
<1>6. EditTypes'
  BY <1>1, <1>3, EditTypesAre DEF EditTypes
<1>7. Behind' /\ Updating' /\ Editor!ForeignKept'
  BY <1>1, <1>2, NewUpdates
<1>8. TimersHold'
  BY <1>1, <1>2, <1>3, <1>4, <1>5, TextsAre DEF TimersHold
<1>9. NotLost'
  BY <1>1 DEF InTimer, OnItsWay, SavedIn, Unshared, ArmedNow, Armed, InForce, EditInv, NotLost
<1>10. DraftsShow'
  BY <1>1, <1>2, <1>3, <1>5 DEF Unshared, DraftsShow
<1> QED BY <1>6, <1>7, <1>8, <1>9, <1>10 DEF EditInv

\* What a timer saves is the only field unsaved of its task, if the update is taken.
LEMMA FiredAlone ==
  ASSUME EditInv, Disorder = {}, NEW fs, Editor!Calm(fs), NEW f \in Fields, ArmedNow(f), f \notin Editor!Texts,
         focus = "none" \/ focus = f, Unshared(open), open \in EditTasks, NEW g \in Fields, g # f
  PROVE  SavedIn(open, g)
<1> SUFFICES ASSUME ~SavedIn(open, g) PROVE FALSE
  OBVIOUS
<1>1. ArmedNow(g) /\ (g \in Editor!Texts => focus = g)
  BY CalmMeans
<1>2. "none" \notin Fields
  BY Tokens DEF EditInv, EditTypes
<1>3. g \notin Editor!Texts
  BY <1>1, <1>2, TextsAre
<1> QED BY <1>1, <1>3 DEF ArmedNow, EditInv, TimersHold

LEMMA CloseKeeps ==
  ASSUME EditInv, Disorder = {}, Editor!Close
  PROVE  EditInv'
<1> DEFINE days == {g \in Fields \cap {"start"} : draft[g] \notin {NoDraft, edited[open].value[g]}}
<1>1. /\ open # NoTask /\ focus = "none" /\ open' = NoTask
      /\ calls' = calls \cup (UNION {Editor!Fire(f) : f \in Fields \ {"start"}}) \cup
           {Editor!Update(open, f, draft[f], edited[open].version, "user") :
              f \in {g \in Fields \cap {"start"} : draft[g] \notin {NoDraft, edited[open].value[g]}}}
      /\ pending' = [f \in Fields |-> NoCall]
      /\ draft' = [f \in Fields |-> NoDraft] /\ sent' = [f \in Editor!Texts |-> NoDraft]
      /\ UNCHANGED <<server, edited, focus, reread, typed, foreign, nKeys>>
      /\ Editor!Calm({})
  BY DEF Editor!Close
<1> DEFINE fired == UNION {Editor!Fire(f) : f \in Fields \ {"start"}}
           saved == {Editor!Update(open, f, draft[f], edited[open].version, "user") :
                       f \in {g \in Fields \cap {"start"} : draft[g] \notin {NoDraft, edited[open].value[g]}}}
<1>0. \A c : c \in calls' <=>
        \/ c \in calls
        \/ \E f \in Fields \ {"start"} : c \in Editor!Fire(f)
        \/ \E f \in days : c = Editor!Update(open, f, draft[f], edited[open].version, "user")
  <2>1. calls' = calls \cup fired \cup saved
    BY DEF Editor!Close
  <2>2. \A c : c \in fired <=> \E f \in Fields \ {"start"} : c \in Editor!Fire(f)
    OBVIOUS
  <2>3. \A c : c \in saved <=> \E f \in days : c = Editor!Update(open, f, draft[f], edited[open].version, "user")
    OBVIOUS
  <2> HIDE DEF fired, saved, days
  <2> QED BY <2>1, <2>2, <2>3
<1> HIDE DEF fired, saved
<1> HIDE DEF days
<1>2. /\ calls = {} /\ reread = FALSE /\ edited = server
      /\ \A g \in Editor!Texts : ArmedNow(g) => focus = g
      /\ \A u \in EditTasks, f \in Fields : Unshared(u) /\ ~SavedIn(u, f) =>
           /\ u = open /\ ArmedNow(f) /\ (f \in Editor!Texts => focus = f)
           /\ f = "start" => draft[f] = pending[f].value
  BY <1>1, CalmMeans
<1>3. EditTypes /\ TimersHold /\ DraftsShow /\ nKeys \in 0 .. MaxKeys
  BY DEF EditInv, EditTypes
<1>4. "none" \notin Fields /\ NoTask \notin EditTasks /\ open \in EditTasks
  BY <1>1, <1>3, Tokens DEF EditTypes
<1>5. \A g \in Editor!Texts : ~ArmedNow(g)
  BY <1>1, <1>2, <1>4, TextsAre
<1>6. edited[open].version \in Nat /\ edited[open].value = server[open].value
      /\ edited[open].version = server[open].version
  BY <1>2, <1>3, <1>4 DEF EditTypes, RowsSeen
<1>7. ASSUME NEW f \in days
      PROVE  LET c == Editor!Update(open, f, draft[f], edited[open].version, "user")
             IN  /\ c \in Updates /\ c.task = open /\ c.field = f /\ c.value = draft[f]
                 /\ c.version = server[open].version /\ c.done = FALSE /\ c.answer = NoRow
                 /\ f = "start" /\ f \in Fields /\ typed[open][f] # 0
                 /\ Unshared(open) => draft[f] = typed[open][f]
                 /\ Unshared(open) => \A g \in Fields : g # f => SavedIn(open, g)
  BY <1>3, <1>4, <1>6, <1>2, TextsAre, <1>1, FiredAlone DEF EditTypes, days, DraftsShow, SavedIn,
     Editor!Update, Updates
<1>8. ASSUME NEW f \in Fields \ {"start"}, NEW c \in Editor!Fire(f)
      PROVE  /\ Armed(f) /\ c \in Updates /\ c.task = open /\ c.field = f /\ c.value = pending[f].value
             /\ c.version = pending[f].version /\ c.done = FALSE /\ c.answer = NoRow
             /\ c.version <= server[open].version /\ pending[f].value = typed[open][f]
             /\ pending[f].value >= 1
  <2>1. Armed(f)
    BY <1>8, NoFire
  <2>2. /\ pending[f].version \in Nat /\ open \in EditTasks /\ pending[f].value \in Written
        /\ c = Editor!Update(open, f, pending[f].value, pending[f].version, "timer")
    BY <1>3, <1>8, <2>1, FireIs
  <2>3. /\ pending[f].version <= server[open].version /\ pending[f].value = typed[open][f]
        /\ pending[f].value >= 1
    BY <1>3, <2>1 DEF TimersHold
  <2> QED BY <1>8, <2>1, <2>2, <2>3 DEF Editor!Update, Updates
<1>9. ASSUME NEW c \in calls'
      PROVE  /\ c \in Updates /\ c.task \in EditTasks /\ ~c.done /\ c.answer = NoRow
             /\ c.version <= server[c.task].version /\ typed[c.task][c.field] # 0
             /\ InForce(c) /\ Unshared(c.task) =>
                  /\ c.value = typed[c.task][c.field]
                  /\ \A g \in Fields : g # c.field => SavedIn(c.task, g)
  <2>1. CASE \E f \in days : c = Editor!Update(open, f, draft[f], edited[open].version, "user")
    <3>1. PICK f \in days : c = Editor!Update(open, f, draft[f], edited[open].version, "user")
      BY <2>1
    <3>2. /\ c \in Updates /\ c.task = open /\ c.field = f /\ c.value = draft[f]
          /\ c.version = server[open].version /\ c.done = FALSE /\ c.answer = NoRow
          /\ typed[open][f] # 0
          /\ Unshared(open) => draft[f] = typed[open][f]
          /\ Unshared(open) => \A g \in Fields : g # f => SavedIn(open, g)
      BY <1>7, <3>1
    <3> QED BY <1>4, <1>6, <3>2
  <2>2. CASE \E f \in Fields \ {"start"} : c \in Editor!Fire(f)
    <3>1. PICK f \in Fields \ {"start"} : c \in Editor!Fire(f)
      BY <2>2
    <3>2. /\ Armed(f) /\ c \in Updates /\ c.task = open /\ c.field = f /\ c.value = pending[f].value
          /\ c.version = pending[f].version /\ c.done = FALSE /\ c.answer = NoRow
          /\ c.version <= server[open].version /\ pending[f].value = typed[open][f]
          /\ pending[f].value >= 1
      BY <1>8, <3>1
    <3>3. InForce(c) => ArmedNow(f) /\ f \notin Editor!Texts
      BY <1>5, <3>2 DEF InForce, ArmedNow
    <3>4. InForce(c) /\ Unshared(open) => \A g \in Fields : g # f => SavedIn(open, g)
      BY <1>1, <1>4, <3>3, FiredAlone
    <3> QED BY <1>4, <3>2, <3>4
  <2> QED BY <1>0, <1>2, <2>1, <2>2
<1>10. Behind' /\ Updating' /\ Editor!ForeignKept'
  BY <1>1, <1>2, <1>9, NewUpdates
<1>11. \A f \in Fields : pending'[f] = NoCall /\ ~Armed(f)' /\ ~ArmedNow(f)' /\ draft'[f] = NoDraft
  BY <1>1 DEF Armed, ArmedNow
<1>12. TimersHold'
  BY <1>1, <1>11, TextsAre DEF TimersHold
<1>13. EditTypes'
  BY <1>1, <1>9, <1>3, EditTypesAre DEF EditTypes
<1>14. NotLost'
  <2>1. ASSUME NEW t \in EditTasks, NEW f \in Fields, Unshared(t), ~SavedIn(t, f)
        PROVE  \E c \in calls' : InForce(c) /\ c.task = t /\ c.field = f
    <3>1. t = open /\ ArmedNow(f) /\ f \notin Editor!Texts /\ (f = "start" => draft[f] = pending[f].value)
      BY <1>2, <1>5, <2>1
    <3>2. CASE f = "start"
      <4>1. pending[f].value = typed[open][f] /\ pending[f].value \in Nat
        BY <1>3, <3>1 DEF TimersHold, ArmedNow, EditTypes
      <4>2. draft[f] \notin {NoDraft, edited[open].value[f]}
        BY <1>6, <2>1, <3>1, <3>2, <4>1, EditorAssumption DEF SavedIn
      <4>3. f \in days
        BY <3>2, <4>2 DEF days
      <4> DEFINE c == Editor!Update(open, f, draft[f], edited[open].version, "user")
      <4>4. c \in calls'
        BY <1>0, <4>3
      <4>5. c.task = open /\ c.field = f /\ c.version = server[open].version /\ c.done = FALSE
        BY <1>7, <4>3
      <4> QED BY <3>1, <4>4, <4>5 DEF InForce
    <3>3. CASE f # "start"
      <4> DEFINE c == Editor!Update(open, f, pending[f].value, pending[f].version, "timer")
      <4>1. Editor!Fire(f) = {c}
        BY <1>3, <3>1, <3>3, FireIs DEF ArmedNow
      <4>2. c \in calls'
        BY <1>0, <3>3, <4>1
      <4>3. c.task = open /\ c.field = f /\ c.version = pending[f].version /\ c.done = FALSE
        BY DEF Editor!Update
      <4> QED BY <3>1, <4>2, <4>3 DEF InForce, ArmedNow
    <3> QED BY <3>2, <3>3
  <2> QED BY <1>1, <2>1 DEF NotLost, OnItsWay, InForce, SavedIn, Unshared
<1>15. DraftsShow'
  BY <1>1, <1>4, <1>11, TextsAre DEF DraftsShow
<1> QED BY <1>10, <1>12, <1>13, <1>14, <1>15 DEF EditInv

LEMMA KeyKeeps ==
  ASSUME EditInv, Disorder = {}, NEW f \in Fields, Editor!Key(f)
  PROVE  EditInv'
<1> DEFINE n == nKeys + 1
<1>1. /\ focus = f /\ nKeys < MaxKeys /\ nKeys' = n
      /\ draft' = [draft EXCEPT ![f] = n]
      /\ sent' = [g \in Editor!Texts |-> IF g = f /\ sent[g] = edited[open].value[g] THEN NoDraft ELSE sent[g]]
      /\ pending' = [pending EXCEPT ![f] = Editor!Pend(f, n)]
      /\ typed' = [typed EXCEPT ![open][f] = n]
      /\ UNCHANGED <<server, edited, open, focus, calls, reread, foreign>>
      /\ Editor!Calm(Fields \ {f})
  BY DEF Editor!Key
<1>2. /\ calls = {} /\ edited = server
      /\ \A g \in (Fields \ {f}) \ Editor!Texts : ~Armed(g)
      /\ \A g \in Editor!Texts : ArmedNow(g) => focus = g
      /\ \A t \in EditTasks, g \in Fields : Unshared(t) /\ ~SavedIn(t, g) =>
           t = open /\ ArmedNow(g) /\ (g \in Editor!Texts => focus = g)
  BY <1>1, CalmMeans
<1>3. EditTypes /\ TimersHold /\ DraftsShow /\ nKeys \in 0 .. MaxKeys
  BY DEF EditInv, EditTypes
<1>4. open \in EditTasks /\ "none" \notin Fields /\ Written \subseteq Nat
  BY <1>1, <1>3, Tokens, WrittenNat DEF TimersHold
<1>5. n \in 1 .. MaxKeys /\ n \notin Written /\ Written' = Written \cup {n} /\ n # NoDraft
  BY <1>1, <1>3, EditorAssumption DEF Written
<1> HIDE DEF n
<1>6. /\ RowsSeen \subseteq RowsSeen' /\ Pendings \subseteq Pendings' /\ Updates \subseteq Updates'
  BY <1>5 DEF RowsSeen, Pendings, Updates
<1> DEFINE p == Editor!Pend(f, n)
<1>7. /\ p.value = n /\ p.task = open /\ p.old = server[open].value[f] /\ p.version = server[open].version
      /\ p \in Pendings' /\ p.old \in Written
  BY <1>3, <1>4, <1>2, <1>5 DEF Editor!Pend, EditTypes, RowsSeen, Pendings
<1> HIDE DEF p
<1>8. p # NoCall
  <2>1. p \in [value : Nat, task : EditTasks, old : Nat, version : Nat]
    <3>1. Written' \subseteq Nat
      BY <1>4, <1>5
    <3> QED BY <1>7, <3>1 DEF Pendings
  <2> QED BY <2>1, EditorAssumption
<1>9. /\ \A g \in Fields : pending'[g] = IF g = f THEN p ELSE pending[g]
      /\ \A g \in Fields : draft'[g] = IF g = f THEN n ELSE draft[g]
      /\ \A t \in EditTasks, g \in Fields : typed'[t][g] = IF t = open /\ g = f THEN n ELSE typed[t][g]
      /\ typed' \in [EditTasks -> [Fields -> 0 .. nKeys']]
      /\ pending' \in [Fields -> Pendings' \cup {NoCall}]
      /\ draft' \in [Fields -> Written' \cup {NoDraft}]
  BY <1>1, <1>3, <1>5, <1>6, <1>4, <1>7 DEF EditTypes, n, p
<1>10. EditTypes'
  BY <1>1, <1>3, <1>6, <1>5, <1>2, EditorAssumption, <1>9 DEF EditTypes, n
<1>11. Behind' /\ Updating' /\ Editor!ForeignKept'
  BY <1>1, <1>2, <1>5, <1>9 DEF EditInv, Behind, Updating, Editor!ForeignKept
<1>12. /\ \A g \in Fields : g # f => Armed(g)' = Armed(g) /\ ArmedNow(g)' = ArmedNow(g)
       /\ Armed(f)' /\ ArmedNow(f)'
  BY <1>1, <1>7, <1>8, <1>9 DEF Armed, ArmedNow
<1>13. TimersHold'
  <2>1. ASSUME NEW g \in Fields, Armed(g)'
        PROVE  /\ pending'[g].task = open
               /\ pending'[g].value = typed'[open][g] /\ pending'[g].value >= 1
               /\ pending'[g].version <= server[open].version
               /\ ArmedNow(g)' => server[open].value[g] = pending'[g].old /\ pending'[g].value # pending'[g].old
    <3>1. CASE g = f
      BY <1>3, <1>4, <1>5, <1>7, <1>9, <3>1 DEF EditTypes, RowsSeen
    <3>2. CASE g # f
      BY <1>3, <1>4, <1>9, <1>12, <2>1, <3>2 DEF TimersHold
    <3> QED BY <3>1, <3>2
  <2>2. \A g \in Editor!Texts : ArmedNow(g)' => g = f
    BY <1>1, <1>2, <1>12, TextsAre
  <2>3. \A g \in Fields \ Editor!Texts : Armed(g)' => g = f
    BY <1>2, <1>12
  <2> QED BY <1>1, <1>2, <1>4, <1>7, <1>9, <2>1, <2>2, <2>3, TextsAre DEF TimersHold
<1>14. NotLost'
  <2>1. ASSUME NEW t \in EditTasks, NEW g \in Fields, Unshared(t)', ~SavedIn(t, g)'
        PROVE  t = open /\ g = f
    <3> SUFFICES ASSUME ~(t = open /\ g = f) PROVE FALSE
      OBVIOUS
    <3>1. Unshared(t) /\ ~SavedIn(t, g)
      BY <1>1, <1>9, <2>1 DEF Unshared, SavedIn
    <3>2. t = open /\ ArmedNow(g) /\ (g \in Editor!Texts => focus = g)
      BY <1>2, <3>1
    <3> QED BY <1>1, <1>2, <3>2 DEF ArmedNow
  <2>2. ASSUME NEW t \in EditTasks, t = open PROVE InTimer(t, f)'
    BY <2>2, <1>1, <1>2, <1>7, <1>9, <1>12 DEF InTimer
  <2>3. open' = open
    BY <1>1
  <2>4. ASSUME NEW t \in EditTasks, NEW g \in Fields, Unshared(t)', ~SavedIn(t, g)'
        PROVE  InTimer(t, g)'
    BY <2>1, <2>2, <2>4
  <2> QED BY <2>4 DEF NotLost
<1>15. DraftsShow'
  BY <1>3, <1>4, Tokens, <1>1, <1>5, <1>9, TextsAre, <1>2 DEF Unshared, DraftsShow
<1> QED BY <1>10, <1>11, <1>13, <1>14, <1>15 DEF EditInv

LEMMA BlurKeeps ==
  ASSUME EditInv, Disorder = {}, NEW f \in Fields, Editor!Blur(f)
  PROVE  EditInv'
<1> DEFINE unsaved == draft[f] \notin {NoDraft, edited[open].value[f]} /\ f # "estimate"
<1>0. PICK u : u = Editor!Update(open, f, draft[f], edited[open].version, "user")
  OBVIOUS
<1>1. /\ focus = f /\ focus' = "none"
      /\ calls' = calls \cup IF unsaved THEN {u} ELSE {}
      /\ sent' = [g \in Editor!Texts |-> IF g = f /\ unsaved THEN draft[f] ELSE sent[g]]
      /\ draft' = IF f = "estimate" THEN [draft EXCEPT ![f] = NoDraft] ELSE draft
      /\ UNCHANGED <<server, edited, open, pending, reread, typed, foreign, nKeys>>
      /\ Editor!Calm(Fields \ {f})
  BY <1>0 DEF Editor!Blur
<1> HIDE DEF unsaved
<1>2. /\ calls = {} /\ edited = server
      /\ \A g \in (Fields \ {f}) \ Editor!Texts : ~Armed(g)
      /\ \A g \in Editor!Texts : ArmedNow(g) => focus = g
      /\ \A t \in EditTasks, g \in Fields : Unshared(t) /\ ~SavedIn(t, g) =>
           /\ t = open /\ ArmedNow(g) /\ (g \in Editor!Texts => focus = g)
           /\ g = "start" => draft[g] = pending[g].value
  BY <1>1, CalmMeans
<1>3. EditTypes /\ TimersHold /\ DraftsShow /\ nKeys \in 0 .. MaxKeys
  BY DEF EditInv, EditTypes
<1>4. open \in EditTasks /\ "none" \notin Fields /\ Written \subseteq Nat /\ NoDraft \notin Written
      /\ open # NoTask
  BY <1>1, <1>3, Tokens, WrittenNat DEF TimersHold
<1>5. /\ server[open].version \in Nat /\ edited[open] = server[open]
      /\ \A g \in Fields : draft[g] \in Written \cup {NoDraft}
  BY <1>2, <1>3, <1>4 DEF EditTypes, RowsSeen
<1>6. ASSUME unsaved
      PROVE  /\ u \in Updates /\ u.task = open /\ u.field = f /\ u.value = draft[f]
             /\ u.version = server[open].version /\ u.done = FALSE /\ u.answer = NoRow
             /\ typed[open][f] # 0 /\ draft[f] \in Written
             /\ Unshared(open) => draft[f] = typed[open][f]
             /\ f \in Editor!Texts \cup {"start"}
  BY <1>5, <1>6, <1>3, <1>4, TextsAre, <1>0 DEF unsaved, DraftsShow, Editor!Update, Updates
<1>7. ASSUME NEW t \in EditTasks, NEW g \in Fields, Unshared(t), ~SavedIn(t, g)
      PROVE  t = open /\ g = f /\ ArmedNow(f)
  BY <1>2, <1>7, <1>1 DEF ArmedNow
<1>8. ASSUME ArmedNow(f), f \in Editor!Texts \/ (f = "start" /\ draft[f] = pending[f].value)
      PROVE  unsaved /\ u \in calls' /\ InForce(u) /\ InForce(u)'
  <2>1. /\ server[open].value[f] = pending[f].old /\ pending[f].value # pending[f].old
        /\ pending[f].value = typed[open][f]
    BY <1>3, <1>8 DEF TimersHold, ArmedNow
  <2>2. draft[f] = pending[f].value
    BY <1>1, <1>3, <1>8 DEF TimersHold
  <2>3. pending[f].value \in Written
    BY <1>3, <1>8 DEF EditTypes, ArmedNow, Armed, Pendings
  <2>4. f # "estimate"
    BY <1>8, TextsAre
  <2>5. unsaved
    BY <1>4, <1>5, <2>1, <2>2, <2>3, <2>4 DEF unsaved
  <2>6. u \in calls' /\ server' = server
    BY <1>1, <2>5
  <2> QED BY <1>6, <2>5, <2>6 DEF InForce
<1>9. ASSUME NEW c \in calls' PROVE c = u /\ unsaved
  BY <1>1, <1>2, <1>9
<1>10. Behind' /\ Updating' /\ Editor!ForeignKept'
  <2>1. ASSUME NEW c \in calls'
        PROVE  /\ c \in Updates /\ c.task \in EditTasks /\ ~c.done /\ c.answer = NoRow
               /\ c.version <= server[c.task].version /\ typed[c.task][c.field] # 0
               /\ InForce(c) /\ Unshared(c.task) =>
                    /\ c.value = typed[c.task][c.field]
                    /\ \A g \in Fields : g # c.field => SavedIn(c.task, g)
    <3>1. c = u /\ unsaved
      BY <2>1, <1>9
    <3>2. Unshared(open) => \A g \in Fields : g # f => SavedIn(open, g)
      BY <1>4, <1>7
    <3>3. /\ c \in Updates /\ c.task = open /\ c.field = f /\ c.value = draft[f]
          /\ c.version = server[open].version /\ c.done = FALSE /\ c.answer = NoRow
          /\ typed[open][f] # 0 /\ (Unshared(open) => draft[f] = typed[open][f])
      BY <1>6, <3>1
    <3> QED BY <1>4, <1>5, <3>2, <3>3
  <2> QED BY <1>1, <1>2, <2>1, NewUpdates
<1>11. /\ \A g \in Fields : Armed(g)' = Armed(g) /\ ArmedNow(g)' = ArmedNow(g)
  BY <1>1 DEF Armed, ArmedNow
<1>12. \A g \in Fields : draft'[g] = IF g = f /\ f = "estimate" THEN NoDraft ELSE draft[g]
  BY <1>1, <1>3 DEF EditTypes
<1>13. EditTypes'
  <2>1. draft' \in [Fields -> Written \cup {NoDraft}]
    BY <1>1, <1>3 DEF EditTypes
  <2>2. sent' \in [Editor!Texts -> Written \cup {NoDraft}]
    BY <1>3, <1>1, <1>5 DEF EditTypes
  <2>3. calls' \subseteq Updates
    BY <1>6, <1>9
  <2> QED BY <1>1, <1>3, <2>1, <2>2, <2>3, EditTypesAre DEF EditTypes
<1>14. TimersHold'
  <2>1. \A g \in Editor!Texts : ArmedNow(g)' /\ focus' # g => \E c \in calls' : InForce(c)' /\ c.task = open
    <3> SUFFICES ASSUME NEW g \in Editor!Texts, ArmedNow(g)'
          PROVE  \E c \in calls' : InForce(c)' /\ c.task = open
      OBVIOUS
    <3>1. ArmedNow(g) /\ g = f
      BY <1>1, <1>2, <1>11, TextsAre
    <3> QED BY <1>6, <1>8, <3>1
  <2>2. \A g \in Editor!Texts : focus' # g
    BY <1>1, <1>4, TextsAre
  <2>3. \A c \in calls', n \in Fields \ Editor!Texts : Armed(n)' => c.field = n
    BY <1>2, <1>6, <1>9, <1>11
  <2> QED BY <1>1, <1>3, <1>11, <2>1, <2>2, <2>3 DEF TimersHold
<1>15. NotLost'
  <2> SUFFICES ASSUME NEW t \in EditTasks, NEW g \in Fields, Unshared(t)', ~SavedIn(t, g)'
        PROVE  InTimer(t, g)' \/ OnItsWay(t, g)'
    BY DEF NotLost
  <2>1. Unshared(t) /\ ~SavedIn(t, g)
    BY <1>1 DEF Unshared, SavedIn
  <2>2. t = open /\ g = f /\ ArmedNow(f) /\ (f = "start" => draft[f] = pending[f].value)
    BY <1>2, <1>7, <2>1
  <2>3. CASE f = "estimate"
    BY <1>1, <1>2, <2>3, <2>2, <1>11 DEF unsaved, InTimer
  <2>4. CASE f # "estimate"
    BY <2>4, TextsAre, <1>8, <2>2, <1>6 DEF OnItsWay
  <2> QED BY <2>3, <2>4
<1>16. DraftsShow'
  BY <1>1, <1>3, <1>6, <1>12, TextsAre, <1>4 DEF Unshared, DraftsShow
<1> QED BY <1>10, <1>13, <1>14, <1>15, <1>16 DEF EditInv

-----------------------------------------------------------------------------
(* What happens without him: timers, the server, answers, other devices.      *)

LEMMA DebouncedKeeps ==
  ASSUME EditInv, NEW f \in Fields, Editor!Debounced(f)
  PROVE  EditInv'
<1>0. PICK k : k = Editor!Update(open, f, pending[f].value,
                     IF f = "start" THEN edited[open].version ELSE pending[f].version, "timer")
  OBVIOUS
<1>1. /\ Armed(f)
      /\ calls' = calls \cup Editor!Fire(f)
      /\ pending' = [pending EXCEPT ![f] = NoCall]
      /\ sent' = [g \in Editor!Texts |-> IF g = f /\ Editor!Fire(f) # {} THEN pending[f].value ELSE sent[g]]
      /\ UNCHANGED <<server, edited, open, focus, draft, reread, typed, foreign, nKeys>>
  BY DEF Editor!Debounced, Armed
<1>2. EditTypes /\ Behind /\ Updating /\ TimersHold /\ NotLost /\ DraftsShow /\ nKeys \in 0 .. MaxKeys
  BY DEF EditInv, EditTypes
<1>3. /\ open \in EditTasks /\ open # NoTask /\ "none" \notin Fields
      /\ pending[f].value = typed[open][f] /\ pending[f].value >= 1 /\ pending[f].value \in Written
      /\ pending[f].version \in Nat /\ pending[f].version <= server[open].version
      /\ edited[open].version \in Nat /\ edited[open].version <= server[open].version
      /\ server[open].version \in Nat
      /\ ArmedNow(f) => ~SavedIn(open, f)
  BY <1>1, <1>2, Tokens DEF TimersHold, EditTypes, Armed, Pendings, RowsSeen, Behind, SavedIn
<1>4. /\ Editor!Fire(f) \subseteq {k}
      /\ f = "start" \/ ArmedNow(f) => Editor!Fire(f) = {k}
  BY <1>0, <1>1, <1>2, FireIs
<1>5. /\ k \in Updates /\ k.task = open /\ k.field = f /\ k.value = typed[open][f]
      /\ k.version <= server[open].version /\ k.done = FALSE /\ k.answer = NoRow
      /\ k.version = IF f = "start" THEN edited[open].version ELSE pending[f].version
  BY <1>0, <1>3 DEF Editor!Update, Updates
<1>6. InForce(k) /\ f # "start" => ArmedNow(f)
  BY <1>1, <1>5 DEF InForce, ArmedNow
<1>7. ASSUME InForce(k), f \in Editor!Texts
      PROVE  ArmedNow(f) /\ (focus # f => \E c \in calls : InForce(c) /\ c.task = open)
  BY <1>2, <1>6, <1>7, TextsAre DEF TimersHold
<1>8. ASSUME InForce(k), Unshared(open), NEW g \in Fields, g # f
      PROVE  SavedIn(open, g)
  <2> SUFFICES ASSUME ~SavedIn(open, g) PROVE FALSE
    OBVIOUS
  <2>1. CASE InTimer(open, g)
    <3>1. ArmedNow(g) /\ Armed(g) /\ \A c \in calls : c.task = open => ~InForce(c)
      BY <2>1 DEF InTimer, ArmedNow
    <3>2. g \in Editor!Texts => focus = g
      BY <1>2, <3>1 DEF TimersHold
    <3>3. focus \in Fields => \A n \in Fields \ Editor!Texts : Armed(n) => n = focus
      BY <1>2, <1>3 DEF TimersHold
    <3>4. CASE f \in Editor!Texts
      BY <1>7, <1>8, <3>1, <3>2, <3>3, <3>4, TextsAre
    <3>5. CASE f \notin Editor!Texts
      BY <1>1, <1>8, <3>2, <3>3, <3>5, TextsAre, <1>2, <3>1 DEF TimersHold
    <3> QED BY <3>4, <3>5
  <2>2. CASE OnItsWay(open, g)
    <3>1. PICK c \in calls : InForce(c) /\ c.task = open /\ c.field = g
      BY <2>2 DEF OnItsWay
    <3>2. SavedIn(open, f)
      BY <1>2, <1>8, <3>1 DEF Updating
    <3>3. f \notin Editor!Texts
      BY <1>3, <1>7, <1>8, <3>2
    <3> QED BY <1>1, <1>2, <1>8, <3>1, <3>3 DEF TimersHold
  <2> QED BY <1>2, <1>3, <1>8, <2>1, <2>2 DEF NotLost
<1>9. /\ \A g \in Fields : g # f => pending'[g] = pending[g] /\ Armed(g)' = Armed(g) /\ ArmedNow(g)' = ArmedNow(g)
      /\ pending'[f] = NoCall /\ ~Armed(f)' /\ ~ArmedNow(f)'
      /\ pending' \in [Fields -> Pendings \cup {NoCall}]
  BY <1>2, <1>1 DEF EditTypes, Armed, ArmedNow
<1>10. /\ \A c : InForce(c)' = InForce(c)
       /\ \A t : Unshared(t)' = Unshared(t)
       /\ \A t, g : SavedIn(t, g)' = SavedIn(t, g)
       /\ calls \subseteq calls' /\ \A c \in calls' : c \in calls \/ c = k
  BY <1>1, <1>4 DEF InForce, Unshared, SavedIn
<1>11. EditTypes'
  <2>1. sent' \in [Editor!Texts -> Written \cup {NoDraft}]
    BY <1>2, <1>1, <1>3 DEF EditTypes
  <2>2. calls' \subseteq Updates
    BY <1>2, <1>5, <1>10 DEF EditTypes
  <2> QED BY <1>1, <1>2, <1>9, <2>1, <2>2, EditTypesAre DEF EditTypes
<1>12. Behind'
  BY <1>1, <1>2, <1>5, <1>10 DEF Behind
<1>13. Updating'
  BY <1>2, <1>3, <1>5, <1>10, <1>8, <1>1 DEF Updating
<1>14. TimersHold'
  <2>1. ASSUME NEW c \in calls', NEW n \in Fields \ Editor!Texts,
               InForce(c), Unshared(c.task), c.task = open, Armed(n)'
        PROVE  c.field = n
    <3>1. n # f /\ Armed(n)
      BY <1>9, <2>1
    <3>2. CASE c \in calls
      BY <1>2, <2>1, <3>1, <3>2 DEF TimersHold
    <3>3. CASE c = k /\ f \notin Editor!Texts
      BY <1>1, <1>2, <3>1, <3>3 DEF TimersHold
    <3>4. CASE c = k /\ f \in Editor!Texts
      <4>1. focus # f
        BY <1>2, <1>3, <3>1 DEF TimersHold
      <4>2. PICK d \in calls : InForce(d) /\ d.task = open
        BY <1>7, <2>1, <3>4, <4>1
      <4>3. d.field = n /\ Unshared(open)
        BY <1>2, <2>1, <3>1, <4>2 DEF TimersHold
      <4>4. SavedIn(open, f)
        BY <1>2, <3>1, <4>2, <4>3 DEF Updating
      <4> QED BY <1>3, <1>7, <2>1, <3>4, <4>4
    <3> QED BY <1>10, <3>2, <3>3, <3>4
  <2>2. \A g \in Fields : Armed(g)' =>
          /\ open \in EditTasks /\ pending'[g].task = open
          /\ pending'[g].value = typed[open][g] /\ pending'[g].value >= 1
          /\ pending'[g].version <= server[open].version
          /\ ArmedNow(g)' => server[open].value[g] = pending'[g].old /\ pending'[g].value # pending'[g].old
    BY <1>2, <1>9 DEF TimersHold
  <2>3. \A g, e \in Fields \ Editor!Texts : Armed(g)' /\ Armed(e)' => g = e
    BY <1>2, <1>9 DEF TimersHold
  <2>4. focus # "none" => open \in EditTasks /\ \A g \in Fields \ Editor!Texts : Armed(g)' => g = focus
    BY <1>2, <1>9 DEF TimersHold
  <2>5. \A g \in Editor!Texts : ArmedNow(g)' /\ focus # g => \E c \in calls' : InForce(c) /\ c.task = open
    BY <1>2, <1>9, <1>10, TextsAre DEF TimersHold
  <2>6. \A g \in Editor!Texts : ArmedNow(g)' /\ focus = g => draft[g] = pending'[g].value
    BY <1>2, <1>9, TextsAre DEF TimersHold
  <2> QED BY <1>1, <1>10, <2>1, <2>2, <2>3, <2>4, <2>5, <2>6 DEF TimersHold
<1>15. NotLost'
  <2> SUFFICES ASSUME NEW t \in EditTasks, NEW g \in Fields, Unshared(t)', ~SavedIn(t, g)'
        PROVE  InTimer(t, g)' \/ OnItsWay(t, g)'
    BY DEF NotLost
  <2>1. Unshared(t) /\ ~SavedIn(t, g)
    BY <1>10
  <2>2. CASE OnItsWay(t, g)
    BY <1>10, <2>2 DEF OnItsWay
  <2>3. CASE InTimer(t, g) /\ g = f
    BY <2>3, <1>1, <1>4, <1>5, <1>10 DEF InTimer, InForce, ArmedNow, OnItsWay
  <2>4. CASE InTimer(t, g) /\ g # f
    BY <2>4, <1>8, <2>1, <1>5, <1>10, <1>9, <1>1 DEF InTimer
  <2> QED BY <1>2, <2>1, <2>2, <2>3, <2>4 DEF NotLost
<1>16. DraftsShow'
  <2>1. \A g \in Editor!Texts : sent'[g] # NoDraft => typed[open][g] # 0
    BY <1>1, <1>2, <1>3 DEF DraftsShow
  <2>2. ASSUME focus # "none", typed[open][focus] = 0, NEW c \in calls', c.task = open
        PROVE  ~InForce(c) /\ c.answer = NoRow
    <3>1. \A d \in calls : d.task = open => ~InForce(d) /\ d.answer = NoRow
      BY <1>2, <2>2 DEF DraftsShow
    <3>2. focus # f
      BY <1>3, <2>2
    <3>3. ~InForce(k)
      BY <1>7, <3>1, <3>2, <1>1, <1>2, <2>2 DEF TimersHold
    <3> QED BY <1>5, <1>10, <2>2, <3>1, <3>3
  <2>3. focus # "none" /\ typed[open][focus] = 0 =>
          \A c \in calls' : c.task = open => ~InForce(c)' /\ c.answer = NoRow
    BY <1>10, <2>2
  <2>4. open # NoTask
    BY <1>3
  <2>5. Unshared(open)' = Unshared(open)
    BY <1>1 DEF Unshared
  <2>6. Unshared(open)' => \A g \in Fields :
          /\ g \in Editor!Texts => draft[g] = typed[open][g]
          /\ g = "start" => draft[g] \in {NoDraft, typed[open][g]}
    BY <1>2, <1>3, <2>5 DEF DraftsShow
  <2>7. \A g \in Fields : typed[open][g] = 0 /\ g # "estimate" => draft[g] \in {NoDraft, edited[open].value[g]}
    BY <1>2, <1>3 DEF DraftsShow
  <2>8. open' = open /\ focus' = focus /\ draft' = draft /\ typed' = typed /\ edited' = edited
    BY <1>1
  <2> QED BY <1>3, <2>1, <2>3, <2>4, <2>6, <2>7, <2>8 DEF DraftsShow
<1>17. Editor!ForeignKept'
  BY <1>1 DEF EditInv, Editor!ForeignKept
<1> QED BY <1>11, <1>12, <1>13, <1>14, <1>15, <1>16, <1>17 DEF EditInv

LEMMA ServerUpdatesKeeps ==
  ASSUME EditInv, NEW c \in calls, Editor!ServerUpdates(c)
  PROVE  EditInv'
<1> DEFINE taken == server[c.task].version = c.version
<1>0. PICK s : s = [value   |-> [server[c.task].value EXCEPT ![c.field] = c.value],
                    version |-> server[c.task].version + 1]
  OBVIOUS
<1>a. PICK d : d = [c EXCEPT !.done = TRUE, !.answer = IF taken THEN s ELSE NoRow]
  OBVIOUS
<1>1. /\ ~c.done
      /\ server' = IF taken THEN [server EXCEPT ![c.task] = s] ELSE server
      /\ calls' = (calls \ {c}) \cup {d}
      /\ UNCHANGED <<edited, open, focus, draft, sent, pending, reread, typed, foreign, nKeys>>
  BY <1>0, <1>a DEF Editor!ServerUpdates
<1>2. EditTypes /\ Behind /\ Updating /\ TimersHold /\ NotLost /\ DraftsShow /\ nKeys \in 0 .. MaxKeys
  BY DEF EditInv, EditTypes
<1>3. /\ c \in Updates /\ c.task \in EditTasks /\ c.field \in Fields /\ c.value \in Written /\ c.version \in Nat
      /\ server \in [EditTasks -> RowsSeen]
      /\ \A t \in EditTasks : server[t].value \in [Fields -> Written] /\ server[t].version \in Nat
  BY <1>2 DEF EditTypes, Updates, RowsSeen
<1>4. /\ s \in RowsSeen /\ s.version = server[c.task].version + 1
      /\ \A g \in Fields : s.value[g] = IF g = c.field THEN c.value ELSE server[c.task].value[g]
      /\ s.value \in [Fields -> Written]
  BY <1>3, <1>0 DEF RowsSeen
<1>5. /\ d \in Updates /\ d.task = c.task /\ d.field = c.field /\ d.version = c.version
      /\ d.done = TRUE /\ d.answer = IF taken THEN s ELSE NoRow
  BY <1>3, <1>4, <1>a DEF Updates
<1>6. /\ d \in calls' /\ \A e \in calls' : e = d \/ (e \in calls /\ e # c)
      /\ \A e \in calls : e # c => e \in calls'
  BY <1>1
<1> HIDE DEF taken
<1>7. /\ \A t : Unshared(t)' = Unshared(t)
      /\ Unshared(open)' = Unshared(open)
      /\ \A g \in Fields : Armed(g)' = Armed(g)
  BY <1>1 DEF Unshared, Armed
<1>8. EditTypes'
  BY <1>1, <1>3, <1>4, <1>2, <1>5, <1>6, EditTypesAre DEF EditTypes
<1>9. CASE ~taken
  <2>1. server' = server /\ d.answer = NoRow /\ ~InForce(c) /\ ~InForce(d)
    BY <1>1, <1>5, <1>9 DEF taken, InForce
  <2>2. /\ \A e : InForce(e)' = InForce(e)
        /\ \A t, g : SavedIn(t, g)' = SavedIn(t, g)
        /\ \A g \in Fields : ArmedNow(g)' = ArmedNow(g)
        /\ \A e \in calls' : InForce(e) => e \in calls /\ e # c
        /\ \A e \in calls : InForce(e) => e \in calls'
    BY <1>1, <1>6, <2>1 DEF InForce, SavedIn, ArmedNow, Armed
  <2>3. Behind'
    BY <1>2, <1>5, <1>6, <2>1, <1>1 DEF Behind
  <2>4. Updating'
    BY <1>2, <1>5, <1>6, <2>1, <2>2, <1>1, <1>7 DEF Updating
  <2>5. TimersHold'
    BY <1>2, <2>2, <1>1, <1>7, <2>1, TextsAre DEF TimersHold
  <2>6. NotLost'
    <3> SUFFICES ASSUME NEW t \in EditTasks, NEW g \in Fields, Unshared(t)', ~SavedIn(t, g)'
          PROVE  InTimer(t, g)' \/ OnItsWay(t, g)'
      BY DEF NotLost
    <3>1. CASE OnItsWay(t, g)
      BY <2>2, <3>1 DEF OnItsWay
    <3>2. CASE InTimer(t, g)
      BY <1>6, <2>1, <3>2, <1>1, <2>2 DEF InTimer
    <3> QED BY <1>2, <1>7, <2>2, <3>1, <3>2 DEF NotLost
  <2>7. DraftsShow'
    BY <1>2, <1>6, <2>1, <1>1, <1>7, <2>2 DEF DraftsShow
  <2>8. Editor!ForeignKept'
    BY <1>1, <2>1 DEF EditInv, Editor!ForeignKept
  <2> QED BY <1>8, <2>3, <2>4, <2>5, <2>6, <2>7, <2>8 DEF EditInv
<1>10. CASE taken
  <2>1. /\ InForce(c) /\ d.answer = s /\ d.done
        /\ \A t \in EditTasks : server'[t] = IF t = c.task THEN s ELSE server[t]
    BY <1>1, <1>3, <1>5, <1>10 DEF taken, InForce
  <2>2. ASSUME NEW e \in calls'
        PROVE  /\ e.task \in EditTasks /\ e.version \in Nat
               /\ e.task = c.task => ~InForce(e)'
               /\ e.task # c.task => e \in calls /\ InForce(e)' = InForce(e)
    <3>1. e \in Updates
      BY <1>2, <1>5, <1>6 DEF EditTypes
    <3>2. e.task \in EditTasks /\ e.version \in Nat
      BY <3>1 DEF Updates
    <3>3. ASSUME e.task = c.task PROVE ~InForce(e)'
      BY <1>2, <1>5, <1>6, <3>3, <1>4, <2>1, <3>2, <1>3 DEF Behind, InForce
    <3>4. e.task # c.task => e \in calls /\ InForce(e)' = InForce(e)
      BY <1>5, <1>6, <2>1, <3>2 DEF InForce
    <3> QED BY <3>2, <3>3, <3>4
  <2>3. \A t \in EditTasks : t # c.task => \A g \in Fields : SavedIn(t, g)' = SavedIn(t, g)
    BY <1>1, <2>1 DEF SavedIn
  <2>4. Unshared(c.task) => s.value = typed[c.task]
    <3> SUFFICES ASSUME Unshared(c.task) PROVE s.value = typed[c.task]
      OBVIOUS
    <3>1. typed[c.task] \in [Fields -> 0 .. nKeys]
      BY <1>2, <1>3 DEF EditTypes
    <3>2. \A g \in Fields : s.value[g] = typed[c.task][g]
      BY <1>2, <1>4, <2>1 DEF Updating, SavedIn
    <3> QED BY <1>4, <3>1, <3>2
  <2>5. /\ \A g \in Fields : open = c.task => ~ArmedNow(g)'
        /\ \A g \in Fields : open # c.task /\ open \in EditTasks => ArmedNow(g)' = ArmedNow(g)
        /\ \A g \in Fields : ArmedNow(g)' => open \in EditTasks /\ open # c.task /\ ArmedNow(g)
    <3>1. ASSUME NEW g \in Fields, open = c.task PROVE ~ArmedNow(g)'
      <4> SUFFICES ASSUME Armed(g), pending[g].version = server'[open].version PROVE FALSE
        BY <1>1 DEF ArmedNow, Armed
      <4>1. pending[g].version <= server[c.task].version
        BY <1>2, <3>1 DEF TimersHold
      <4>2. server'[open].version = server[c.task].version + 1
        BY <1>3, <1>4, <2>1, <3>1
      <4> QED BY <1>3, <4>1, <4>2
    <3>2. ASSUME NEW g \in Fields, open # c.task, open \in EditTasks PROVE ArmedNow(g)' = ArmedNow(g)
      BY <1>1, <2>1, <3>2 DEF ArmedNow, Armed
    <3>3. ASSUME NEW g \in Fields, ArmedNow(g)' PROVE open \in EditTasks
      BY <1>2, <1>7, <3>3 DEF ArmedNow, TimersHold
    <3> QED BY <3>1, <3>2, <3>3
  <2>6. Behind'
    <3>1. \A t \in EditTasks : edited[t].version <= server'[t].version
      <4>1. \A t \in EditTasks : edited[t].version \in Nat /\ edited[t].version <= server[t].version
        BY <1>2 DEF Behind, EditTypes, RowsSeen
      <4> QED BY <1>3, <1>4, <2>1, <4>1
    <3>2. ASSUME NEW e \in calls'
          PROVE  /\ e.version <= server'[e.task].version
                 /\ e.answer # NoRow => e.answer.version <= server'[e.task].version
                 /\ ~e.done => e.answer = NoRow
      <4>1. CASE e = d
        BY <1>3, <1>4, <1>5, <1>10, <2>1, <4>1 DEF taken
      <4>2. CASE e \in calls
        BY <1>2, <4>2, <1>4, <2>1, <2>2, <1>3 DEF Behind, EditTypes, Updates, RowsSeen
      <4> QED BY <1>6, <4>1, <4>2
    <3> QED BY <1>1, <1>6, <2>1, <3>1, <3>2 DEF Behind
  <2>7. Updating'
    <3>1. \A e \in calls' : typed[e.task][e.field] # 0
      BY <1>2, <1>5, <1>6 DEF Updating
    <3>2. \A e \in calls' : e.done /\ e.answer # NoRow /\ Unshared(e.task) =>
            e.answer.value = typed[e.task] /\ server'[e.task].value = typed[e.task]
      <4> SUFFICES ASSUME NEW e \in calls', e.done, e.answer # NoRow, Unshared(e.task)
            PROVE  e.answer.value = typed[e.task] /\ server'[e.task].value = typed[e.task]
        OBVIOUS
      <4>1. CASE e = d
        BY <1>3, <1>5, <2>1, <2>4, <4>1
      <4>2. CASE e \in calls
        BY <1>2, <4>2, <2>1, <2>2, <2>4 DEF Updating
      <4> QED BY <1>6, <4>1, <4>2
    <3>3. ASSUME NEW e \in calls', InForce(e)', Unshared(e.task)
          PROVE  /\ e.value = typed[e.task][e.field]
                 /\ \A g \in Fields : g # e.field => SavedIn(e.task, g)'
      BY <2>2, <3>3, <1>2, <2>3 DEF Updating
    <3>4. \A t \in EditTasks : Unshared(t) /\ server'[t].value # typed[t] => edited[t] = server'[t]
      BY <1>2, <2>1, <2>4 DEF Updating
    <3> QED BY <1>1, <1>7, <3>1, <3>2, <3>3, <3>4 DEF Updating
  <2>8. TimersHold'
    <3>1. \A g \in Editor!Texts : ArmedNow(g)' /\ focus # g => \E e \in calls' : InForce(e)' /\ e.task = open
      <4> SUFFICES ASSUME NEW g \in Editor!Texts, ArmedNow(g)', focus # g
            PROVE  \E e \in calls' : InForce(e)' /\ e.task = open
        OBVIOUS
      <4>1. open \in EditTasks /\ open # c.task /\ ArmedNow(g)
        BY <2>5, TextsAre
      <4>2. PICK e \in calls : InForce(e) /\ e.task = open
        BY <1>2, <4>1 DEF TimersHold
      <4>3. e \in calls' /\ e.task # c.task
        BY <1>6, <4>1, <4>2
      <4> QED BY <2>2, <4>2, <4>3
    <3>2. \A e \in calls', n \in Fields \ Editor!Texts :
            InForce(e)' /\ Unshared(e.task) /\ e.task = open /\ Armed(n) => e.field = n
      BY <1>2, <2>2 DEF TimersHold
    <3>3. \A g \in Fields : Armed(g) =>
            /\ open \in EditTasks /\ pending[g].task = open
            /\ pending[g].value = typed[open][g] /\ pending[g].value >= 1
      BY <1>2 DEF TimersHold
    <3>4. ASSUME NEW g \in Fields, Armed(g)
          PROVE  /\ pending[g].version <= server'[open].version
                 /\ ArmedNow(g)' => server'[open].value[g] = pending[g].old /\ pending[g].value # pending[g].old
      BY <1>2, <3>4, <1>4, <2>1, <1>3, <2>5 DEF TimersHold, EditTypes, Armed, Pendings
    <3>5. \A g \in Editor!Texts : ArmedNow(g)' /\ focus = g => draft[g] = pending[g].value
      BY <1>2, <2>5, TextsAre DEF TimersHold
    <3>6. /\ \A g, e \in Fields \ Editor!Texts : Armed(g) /\ Armed(e) => g = e
          /\ focus # "none" => open \in EditTasks /\ \A g \in Fields \ Editor!Texts : Armed(g) => g = focus
      BY <1>2 DEF TimersHold
    <3> QED BY <1>1, <1>7, <3>1, <3>2, <3>3, <3>4, <3>5, <3>6 DEF TimersHold
  <2>9. NotLost'
    <3> SUFFICES ASSUME NEW t \in EditTasks, NEW g \in Fields, Unshared(t)', ~SavedIn(t, g)'
          PROVE  InTimer(t, g)' \/ OnItsWay(t, g)'
      BY DEF NotLost
    <3>1. t # c.task
      <4> SUFFICES ASSUME t = c.task PROVE FALSE
        OBVIOUS
      <4>1. server'[t].value = typed[t]
        BY <1>7, <2>1, <2>4
      <4> QED BY <1>1, <4>1 DEF SavedIn
    <3>2. Unshared(t) /\ ~SavedIn(t, g) /\ server'[t] = server[t]
      BY <1>7, <2>1, <2>3, <3>1
    <3>3. CASE OnItsWay(t, g)
      <4>1. PICK e \in calls : InForce(e) /\ e.task = t /\ e.field = g
        BY <3>3 DEF OnItsWay
      <4>2. e \in calls' /\ InForce(e)'
        BY <1>6, <2>2, <3>1, <4>1
      <4> QED BY <4>1, <4>2 DEF OnItsWay
    <3>4. CASE InTimer(t, g)
      BY <2>2, <3>1, <3>4, <2>5, <3>2, <1>1 DEF InTimer
    <3> QED BY <1>2, <3>2, <3>3, <3>4 DEF NotLost
  <2>10. DraftsShow'
    <3>1. ASSUME focus # "none", typed[open][focus] = 0, NEW e \in calls', e.task = open
          PROVE  ~InForce(e)' /\ e.answer = NoRow
      BY <1>2, <3>1, <2>1, <2>2 DEF DraftsShow
    <3> QED BY <1>1, <1>2, <1>7, <3>1 DEF DraftsShow
  <2>11. Editor!ForeignKept'
    BY <1>2, <1>1, <1>4, <2>1 DEF Updating, EditInv, Editor!ForeignKept
  <2> QED BY <1>8, <2>6, <2>7, <2>8, <2>9, <2>10, <2>11 DEF EditInv
<1> QED BY <1>9, <1>10

\* New rows in the list take nothing from what was typed: where a row differs from what it was,
\* it is as the user left it, or he has typed nothing there.
LEMMA ShowKeeps ==
  ASSUME EditInv, NEW new \in [EditTasks -> RowsSeen], RowsShown(new),
         UNCHANGED <<server, open, focus, pending, typed, foreign, nKeys>>,
         calls' \subseteq calls, \A c \in calls : InForce(c) => c \in calls',
         reread' \in BOOLEAN, new = server \/ reread',
         \A t \in EditTasks : new[t].version <= server[t].version,
         \A t \in EditTasks : Unshared(t) => new[t].value = edited[t].value \/ new[t].value = typed[t],
         \A t \in EditTasks : Unshared(t) /\ server[t].value # typed[t] => new[t] = server[t],
         \A f \in Fields : open \in EditTasks /\ new[open].value[f] # edited[open].value[f] /\ typed[open][f] = 0
                             => focus # f,
         \A f \in Fields : InTimer(open, f) => new[open] = edited[open]
  PROVE  EditInv'
<1>1. EditTypes /\ Behind /\ Updating /\ TimersHold /\ NotLost /\ DraftsShow
  BY DEF EditInv
<1>2. /\ edited' = new
      /\ \A f \in Editor!Texts : sent'[f] \in {sent[f], NoDraft}
      /\ draft' \in [Fields -> Written \cup {NoDraft}] /\ sent' \in [Editor!Texts -> Written \cup {NoDraft}]
  BY DEF RowsShown
<1>3. ASSUME open \in EditTasks, NEW f \in Fields
      PROVE  /\ new[open].value[f] = edited[open].value[f] => draft'[f] = draft[f]
             /\ focus = f => draft'[f] = draft[f]
             /\ f \in Editor!Texts => draft'[f] \in {draft[f], new[open].value[f]}
             /\ f \notin Editor!Texts => draft'[f] \in {draft[f], NoDraft}
             /\ f \in Editor!Texts /\ new[open].value[f] # edited[open].value[f] /\ sent[f] = NoDraft
                /\ focus # f => draft'[f] = new[open].value[f]
             /\ f = "start" /\ new[open].value[f] # edited[open].value[f] /\ focus # f => draft'[f] = NoDraft
  BY <1>3 DEF RowsShown
<1>4. /\ \A c : InForce(c)' = InForce(c)
      /\ \A t : Unshared(t)' = Unshared(t)
      /\ \A t, g : SavedIn(t, g)' = SavedIn(t, g)
      /\ \A g \in Fields : Armed(g)' = Armed(g) /\ ArmedNow(g)' = ArmedNow(g)
      /\ Unshared(open)' = Unshared(open)
  BY DEF InForce, Unshared, SavedIn, Armed, ArmedNow
<1>5. EditTypes'
  BY <1>1, <1>2, EditTypesAre DEF EditTypes
<1>6. Behind'
  BY <1>1, <1>2 DEF Behind
<1>7. Updating'
  BY <1>1, <1>2, <1>4 DEF Updating
<1>8. TimersHold'
  BY <1>1, <1>3, TextsAre, <1>4 DEF TimersHold, ArmedNow
<1>9. NotLost'
  <2> SUFFICES ASSUME NEW t \in EditTasks, NEW g \in Fields, Unshared(t)', ~SavedIn(t, g)'
        PROVE  InTimer(t, g)' \/ OnItsWay(t, g)'
    BY DEF NotLost
  <2>1. CASE OnItsWay(t, g)
    BY <1>4, <2>1 DEF OnItsWay
  <2>2. CASE InTimer(t, g)
    BY <2>2, <1>3, <1>2, <1>4 DEF InTimer
  <2> QED BY <1>1, <1>4, <2>1, <2>2 DEF NotLost
<1>10. DraftsShow'
  <2>1. open = NoTask => focus = "none" /\ \A f \in Fields : draft'[f] = NoDraft /\ ~Armed(f)
    BY <1>1 DEF DraftsShow, RowsShown
  <2>2. ASSUME open \in EditTasks, Unshared(open), NEW f \in Fields
        PROVE  /\ f \in Editor!Texts => draft'[f] = typed[open][f]
               /\ f = "start" => draft'[f] \in {NoDraft, typed[open][f]}
    BY <1>1, <2>2, <1>3, TextsAre DEF DraftsShow
  <2>3. \A f \in Editor!Texts : sent'[f] # NoDraft => open \in EditTasks /\ typed[open][f] # 0
    BY <1>1, <1>2 DEF DraftsShow
  <2>4. ASSUME open \in EditTasks, NEW f \in Fields, typed[open][f] = 0, f # "estimate"
        PROVE  draft'[f] \in {NoDraft, new[open].value[f]}
    <3>1. draft[f] \in {NoDraft, edited[open].value[f]} /\ (f \in Editor!Texts => sent[f] = NoDraft)
      BY <1>1, <2>4 DEF DraftsShow
    <3>2. CASE new[open].value[f] = edited[open].value[f]
      BY <1>3, <2>4, <3>1, <3>2
    <3>3. CASE new[open].value[f] # edited[open].value[f]
      BY <2>4, <3>3, TextsAre, <1>3, <3>1
    <3> QED BY <3>2, <3>3
  <2>5. focus # "none" /\ typed[open][focus] = 0 =>
          \A c \in calls' : c.task = open => ~InForce(c) /\ c.answer = NoRow
    BY <1>1 DEF DraftsShow
  <2> QED BY <1>2, <1>4, <2>1, <2>2, <2>3, <2>4, <2>5 DEF DraftsShow
<1>11. Editor!ForeignKept'
  BY DEF EditInv, Editor!ForeignKept
<1> QED BY <1>5, <1>6, <1>7, <1>8, <1>9, <1>10, <1>11 DEF EditInv

LEMMA AnsweredKeeps ==
  ASSUME EditInv, NEW c \in calls, Editor!Answered(c)
  PROVE  EditInv'
<1>1. /\ c.done /\ calls' = calls \ {c} /\ reread' = TRUE
      /\ UNCHANGED <<server, open, focus, pending, typed, foreign, nKeys>>
  BY DEF Editor!Answered
<1>2. EditTypes /\ Behind /\ Updating /\ DraftsShow /\ nKeys \in 0 .. MaxKeys /\ c \in Updates
      /\ edited \in [EditTasks -> RowsSeen]
  BY DEF EditInv, EditTypes
<1>3. calls' \subseteq calls /\ \A d \in calls : InForce(d) => d \in calls'
  BY <1>1 DEF InForce
<1>4. \A t \in EditTasks : edited[t].version <= server[t].version
  BY <1>2 DEF Behind
<1>5. CASE c.answer = NoRow
  <2>1. UNCHANGED <<edited, draft, sent>>
    BY <1>5 DEF Editor!Answered
  <2>2. RowsShown(edited)
    BY <1>2, <2>1 DEF EditTypes, RowsShown
  <2>3. \A t \in EditTasks : Unshared(t) /\ server[t].value # typed[t] => edited[t] = server[t]
    BY <1>2 DEF Updating
  <2> QED BY <1>1, <1>2, <1>3, <1>4, <2>2, <2>3, ShowKeeps
<1>6. CASE c.answer # NoRow
  <2>1. PICK new : new = [edited EXCEPT ![c.task] = c.answer]
    OBVIOUS
  <2>2. c.task \in EditTasks /\ c.answer \in RowsSeen /\ c.answer.version <= server[c.task].version
    BY <1>2, <1>6 DEF Updates, Behind
  <2>3. /\ new \in [EditTasks -> RowsSeen]
        /\ \A t \in EditTasks : new[t] = IF t = c.task THEN c.answer ELSE edited[t]
    BY <1>2, <2>1, <2>2
  <2>4. RowsShown(new)
    BY <1>6, <2>1, <1>2, <2>3, ShownIs DEF Editor!Answered
  <2>5. Unshared(c.task) => c.answer.value = typed[c.task] /\ server[c.task].value = typed[c.task]
    BY <1>1, <1>2, <1>6 DEF Updating
  <2>6. \A t \in EditTasks : Unshared(t) /\ server[t].value # typed[t] => new[t] = server[t]
    BY <1>2, <2>3, <2>5 DEF Updating
  <2>7. \A t \in EditTasks : Unshared(t) => new[t].value = edited[t].value \/ new[t].value = typed[t]
    BY <2>3, <2>5
  <2>8. \A t \in EditTasks : new[t].version <= server[t].version
    BY <1>4, <2>2, <2>3
  <2>9. ASSUME NEW f \in Fields, open \in EditTasks, new[open].value[f] # edited[open].value[f], typed[open][f] = 0
        PROVE  focus # f
    BY <2>3, <2>9, <1>2, Tokens, <1>6 DEF DraftsShow
  <2>10. ASSUME NEW f \in Fields, InTimer(open, f) PROVE new[open] = edited[open]
    BY <1>6, <2>10, <2>3 DEF InTimer, ArmedNow, EditInv, TimersHold
  <2> QED BY <1>1, <1>3, <2>3, <2>4, <2>6, <2>7, <2>8, <2>9, <2>10, ShowKeeps
<1> QED BY <1>5, <1>6

LEMMA RereadKeeps ==
  ASSUME EditInv, Disorder = {}, Editor!Reread
  PROVE  EditInv'
<1>1. /\ reread' = FALSE /\ Editor!ShowRows(server)
      /\ \A f \in Fields : focus = f => edited[open].value[f] = server[open].value[f]
      /\ UNCHANGED <<server, open, focus, pending, calls, typed, foreign, nKeys>>
  BY DEF Editor!Reread
<1>2. EditTypes /\ Updating /\ server \in [EditTasks -> RowsSeen]
  BY DEF EditInv, EditTypes
<1>3. RowsShown(server)
  BY <1>1, <1>2, ShownIs
<1>4. \A t \in EditTasks : server[t].version <= server[t].version
  BY <1>2 DEF RowsSeen
<1>5. \A t \in EditTasks : Unshared(t) => server[t].value = edited[t].value \/ server[t].value = typed[t]
  BY <1>2 DEF Updating
<1>6. \A f \in Fields : InTimer(open, f) => server[open] = edited[open]
  BY DEF InTimer
<1>7. calls' \subseteq calls /\ \A c \in calls : InForce(c) => c \in calls'
  BY <1>1
<1> QED BY <1>1, <1>2, <1>3, <1>4, <1>5, <1>6, <1>7, ShowKeeps

LEMMA OtherDeviceEditsKeeps ==
  ASSUME EditInv, NEW t \in EditTasks, NEW f \in Fields, Editor!OtherDeviceEdits(t, f)
  PROVE  EditInv'
<1>0. PICK s : s = [value |-> [server[t].value EXCEPT ![f] = MaxKeys + 1], version |-> server[t].version + 1]
  OBVIOUS
<1>1. /\ server' = [server EXCEPT ![t] = s]
      /\ foreign' = foreign \cup {<<t, f>>} /\ reread' = TRUE
      /\ UNCHANGED <<edited, open, focus, draft, sent, pending, calls, typed, nKeys>>
  BY <1>0 DEF Editor!OtherDeviceEdits
<1>2. EditTypes /\ Behind /\ Updating /\ TimersHold /\ NotLost /\ DraftsShow /\ nKeys \in 0 .. MaxKeys
  BY DEF EditInv, EditTypes
<1>3. /\ server \in [EditTasks -> RowsSeen]
      /\ \A u \in EditTasks : server[u].value \in [Fields -> Written] /\ server[u].version \in Nat
      /\ \A u \in EditTasks : edited[u].version \in Nat
  BY <1>2 DEF EditTypes, RowsSeen
<1>4. /\ s \in RowsSeen /\ s.version = server[t].version + 1
      /\ \A g \in Fields : s.value[g] = IF g = f THEN MaxKeys + 1 ELSE server[t].value[g]
  BY <1>2, WrittenNat, <1>3, <1>0 DEF RowsSeen
<1>5. /\ server' \in [EditTasks -> RowsSeen]
      /\ \A u \in EditTasks : server'[u] = IF u = t THEN s ELSE server[u]
  BY <1>1, <1>3, <1>4
<1>6. /\ \A u \in EditTasks : Unshared(u)' => u # t /\ Unshared(u)
      /\ Unshared(open)' => open # t /\ Unshared(open)
  BY <1>1 DEF Unshared
<1>7. ASSUME NEW c \in calls
      PROVE  /\ c.task \in EditTasks /\ c.version \in Nat /\ (c.answer # NoRow => c.answer.version \in Nat)
             /\ c.task = t => ~InForce(c)'
             /\ c.task # t => InForce(c)' = InForce(c)
  <2>1. c.task \in EditTasks /\ c.version \in Nat /\ (c.answer # NoRow => c.answer.version \in Nat)
    BY <1>2 DEF EditTypes, Updates, RowsSeen
  <2>2. ASSUME c.task = t PROVE ~InForce(c)'
    BY <1>2, <2>2, <1>4, <1>5, <1>3, <2>1 DEF Behind, InForce
  <2>3. c.task # t => InForce(c)' = InForce(c)
    BY <1>5, <2>1 DEF InForce
  <2> QED BY <2>1, <2>2, <2>3
<1>8. ASSUME NEW g \in Fields
      PROVE  /\ Armed(g)' = Armed(g)
             /\ ArmedNow(g)' => open \in EditTasks /\ open # t /\ ArmedNow(g)
             /\ open # t /\ ArmedNow(g) => ArmedNow(g)'
  <2>1. Armed(g)' = Armed(g)
    BY <1>1 DEF Armed
  <2>2. ASSUME Armed(g) PROVE open \in EditTasks /\ pending[g].version \in Nat /\ pending[g].version <= server[open].version
    BY <1>2, <2>2 DEF TimersHold, EditTypes, Armed, Pendings
  <2>3. ASSUME ArmedNow(g)', open = t PROVE FALSE
    BY <1>1, <2>1, <2>3, <1>3, <1>4, <1>5, <2>2 DEF ArmedNow
  <2>4. open # t /\ open \in EditTasks => ArmedNow(g)' = ArmedNow(g)
    BY <1>1, <1>5, <2>1 DEF ArmedNow
  <2>5. ArmedNow(g)' \/ ArmedNow(g) => open \in EditTasks
    BY <2>1, <2>2 DEF ArmedNow
  <2> QED BY <2>1, <2>3, <2>4, <2>5
<1>9. EditTypes'
  BY <1>1, <1>2, <1>5, EditTypesAre DEF EditTypes
<1>10. Behind'
  <2>1. ASSUME NEW u \in EditTasks
        PROVE  /\ server'[u].version \in Nat /\ server[u].version <= server'[u].version
               /\ edited[u].version <= server'[u].version
    BY <1>4, <1>5, <1>2, <1>3 DEF Behind
  <2>2. ASSUME NEW c \in calls
        PROVE  /\ c.version <= server'[c.task].version
               /\ c.answer # NoRow => c.answer.version <= server'[c.task].version
               /\ ~c.done => c.answer = NoRow
    BY <1>2, <1>3, <1>7, <2>1 DEF Behind
  <2> QED BY <1>1, <2>1, <2>2 DEF Behind
<1>11. Updating'
  <2>1. ASSUME NEW c \in calls, InForce(c)', Unshared(c.task)'
        PROVE  /\ c.value = typed[c.task][c.field]
               /\ \A g \in Fields : g # c.field => SavedIn(c.task, g)'
    BY <1>6, <1>7, <2>1, <1>2, <1>1, <1>5 DEF Updating, SavedIn
  <2>2. ASSUME NEW c \in calls, c.done, c.answer # NoRow, Unshared(c.task)'
        PROVE  c.answer.value = typed[c.task] /\ server'[c.task].value = typed[c.task]
    BY <1>6, <1>7, <2>2, <1>2, <1>5 DEF Updating
  <2>3. ASSUME NEW u \in EditTasks, Unshared(u)', server'[u].value # typed[u]
        PROVE  edited[u] = server'[u]
    BY <1>2, <1>5, <1>6, <2>3 DEF Updating
  <2>4. \A c \in calls : typed[c.task][c.field] # 0
    BY <1>2 DEF Updating
  <2> QED BY <1>1, <2>1, <2>2, <2>3, <2>4 DEF Updating
<1>12. TimersHold'
  <2>1. ASSUME NEW g \in Fields, Armed(g)
        PROVE  /\ open \in EditTasks /\ pending[g].task = open
               /\ pending[g].value = typed[open][g] /\ pending[g].value >= 1
               /\ pending[g].version <= server'[open].version
               /\ ArmedNow(g)' => server'[open].value[g] = pending[g].old /\ pending[g].value # pending[g].old
    BY <1>2, <2>1, <1>4, <1>5, <1>3, <1>8 DEF TimersHold, EditTypes, Armed, Pendings
  <2>2. ASSUME NEW g \in Editor!Texts, ArmedNow(g)', focus # g
        PROVE  \E c \in calls : InForce(c)' /\ c.task = open
    <3>1. open # t /\ ArmedNow(g)
      BY <1>8, <2>2, TextsAre
    <3>2. PICK c \in calls : InForce(c) /\ c.task = open
      BY <1>2, <2>2, <3>1 DEF TimersHold
    <3> QED BY <1>7, <3>1, <3>2
  <2>3. \A g \in Editor!Texts : ArmedNow(g)' /\ focus = g => draft[g] = pending[g].value
    BY <1>2, <1>8, TextsAre DEF TimersHold
  <2>4. ASSUME NEW c \in calls, NEW n \in Fields \ Editor!Texts,
               InForce(c)', Unshared(c.task)', c.task = open, Armed(n)
        PROVE  c.field = n
    BY <1>6, <1>7, <2>4, <1>2 DEF TimersHold
  <2>5. /\ \A g, e \in Fields \ Editor!Texts : Armed(g) /\ Armed(e) => g = e
        /\ focus # "none" => open \in EditTasks /\ \A g \in Fields \ Editor!Texts : Armed(g) => g = focus
    BY <1>2 DEF TimersHold
  <2> QED BY <1>1, <1>8, <2>1, <2>2, <2>3, <2>4, <2>5 DEF TimersHold
<1>13. NotLost'
  <2> SUFFICES ASSUME NEW u \in EditTasks, NEW g \in Fields, Unshared(u)', ~SavedIn(u, g)'
        PROVE  InTimer(u, g)' \/ OnItsWay(u, g)'
    BY DEF NotLost
  <2>1. u # t /\ Unshared(u) /\ server'[u] = server[u] /\ ~SavedIn(u, g)
    BY <1>1, <1>5, <1>6 DEF SavedIn
  <2>2. CASE OnItsWay(u, g)
    <3>1. PICK c \in calls : InForce(c) /\ c.task = u /\ c.field = g
      BY <2>2 DEF OnItsWay
    <3>2. InForce(c)'
      BY <1>7, <2>1, <3>1
    <3> QED BY <1>1, <3>1, <3>2 DEF OnItsWay
  <2>3. CASE InTimer(u, g)
    BY <1>8, <2>1, <2>3, <1>7, <1>1 DEF InTimer
  <2> QED BY <1>2, <2>1, <2>2, <2>3 DEF NotLost
<1>14. DraftsShow'
  BY <1>2, <1>7, <1>1, <1>6, <1>8 DEF DraftsShow
<1>15. Editor!ForeignKept'
  BY <1>1, <1>4, <1>5 DEF EditInv, Editor!ForeignKept
<1> QED BY <1>9, <1>10, <1>11, <1>12, <1>13, <1>14, <1>15 DEF EditInv

-----------------------------------------------------------------------------
LEMMA EditKeeps ==
  ASSUME EditInv, Disorder = {}, Editor!EditNext
  PROVE  EditInv'
BY OpenKeeps, CloseKeeps, FieldFocusKeeps, KeyKeeps, BlurKeeps, DebouncedKeeps, ServerUpdatesKeeps,
   AnsweredKeeps, RereadKeeps, OtherDeviceEditsKeeps DEF Editor!EditNext

LEMMA EditStarts ==
  ASSUME Editor!Init
  PROVE  EditInv
<1>1. /\ server = [t \in EditTasks |-> [value |-> [f \in Fields |-> 0], version |-> 0]]
      /\ edited = server /\ open = NoTask /\ focus = "none"
      /\ draft = [f \in Fields |-> NoDraft] /\ sent = [f \in Editor!Texts |-> NoDraft]
      /\ pending = [f \in Fields |-> NoCall]
      /\ calls = {} /\ reread = FALSE
      /\ typed = [t \in EditTasks |-> [f \in Fields |-> 0]] /\ foreign = {}
      /\ nKeys = 0
  BY DEF Editor!Init
<1>2. nKeys \in 0 .. MaxKeys /\ 0 \in Written
  BY <1>1, EditorAssumption DEF Written
<1>3. /\ \A t \in EditTasks : /\ server[t].version = 0 /\ server[t].value = typed[t] /\ server[t] \in RowsSeen
                              /\ \A f \in Fields : server[t].value[f] = typed[t][f]
      /\ server \in [EditTasks -> RowsSeen]
  BY <1>2, <1>1 DEF RowsSeen
<1>4. EditTypes
  <2>1. 0 \in 0 .. nKeys /\ typed \in [EditTasks -> [Fields -> 0 .. nKeys]]
    BY <1>1
  <2>2. draft \in [Fields -> Written \cup {NoDraft}] /\ sent \in [Editor!Texts -> Written \cup {NoDraft}]
    BY <1>1
  <2>3. pending \in [Fields -> Pendings \cup {NoCall}] /\ calls \subseteq Updates /\ reread \in BOOLEAN
    BY <1>1
  <2> QED BY <1>1, <1>2, <1>3, <2>1, <2>2, <2>3 DEF EditTypes
<1>5. \A f \in Fields : ~Armed(f) /\ draft[f] = NoDraft
  BY <1>1 DEF Armed
<1>6. NoTask \notin EditTasks
  BY <1>2, Tokens
<1>7. Behind /\ Updating
  BY <1>1, <1>3 DEF Behind, Updating
<1>8. TimersHold /\ NotLost
  BY <1>1, <1>3, <1>5, TextsAre DEF TimersHold, NotLost, SavedIn, ArmedNow
<1>9. DraftsShow
  BY <1>1, <1>5, <1>6, TextsAre DEF DraftsShow
<1>10. Editor!ForeignKept
  BY <1>1 DEF Editor!ForeignKept
<1> QED BY <1>4, <1>7, <1>8, <1>9, <1>10 DEF EditInv

\* At rest there is no timer and nothing is on its way: what was typed is saved.
LEMMA EditMeans ==
  ASSUME EditInv
  PROVE  Editor!EditKept /\ Editor!ForeignKept
<1>1. ASSUME Editor!Saved, NEW t \in EditTasks, \A f \in Fields : <<t, f>> \notin foreign
      PROVE  server[t].value = typed[t]
  <2>1. calls = {} /\ \A f \in Fields : ~Armed(f)
    BY <1>1 DEF Editor!Saved, Armed
  <2>2. \A f \in Fields : SavedIn(t, f)
    BY <1>1, <2>1 DEF EditInv, NotLost, InTimer, OnItsWay, ArmedNow, Unshared
  <2>3. server[t].value \in [Fields -> Written] /\ typed[t] \in [Fields -> 0 .. nKeys]
    BY DEF EditInv, EditTypes, RowsSeen
  <2> QED BY <2>2, <2>3 DEF SavedIn
<1>2. Editor!EditKept
  BY <1>1 DEF Editor!EditKept
<1> QED BY <1>2 DEF EditInv
-----------------------------------------------------------------------------

\* Nothing of the panel changes while another part runs.
LEMMA EditStands ==
  ASSUME EditInv, UNCHANGED editorVars
  PROVE  EditInv'
<1>1. UNCHANGED <<server, edited, open, focus, draft, sent, pending, calls, reread, typed, foreign, nKeys>>
  BY DEF editorVars
<1>2. EditTypes'
  BY <1>1, EditTypesAre DEF EditInv, EditTypes
<1>3. Behind' /\ Updating'
  BY <1>1 DEF EditInv, Behind, Updating, InForce, Unshared, SavedIn
<1>4. TimersHold'
  BY <1>1 DEF EditInv, TimersHold, InForce, Unshared, Armed, ArmedNow
<1>5. NotLost'
  BY <1>1 DEF EditInv, NotLost, InTimer, OnItsWay, InForce, Unshared, SavedIn, ArmedNow, Armed
<1>6. DraftsShow' /\ Editor!ForeignKept'
  BY <1>1 DEF EditInv, DraftsShow, InForce, Unshared, Armed, Editor!ForeignKept
<1> QED BY <1>2, <1>3, <1>4, <1>5, <1>6 DEF EditInv

-----------------------------------------------------------------------------
\* What was put in is kept and done once, whichever part takes it: the panel ends with what the
\* user typed last at the server, when he waits for his saves before he goes on, no list is read
\* while he types, and another device's value is replaced by nothing else; each thought of a form is
\* one row, and a touch one outcome.
THEOREM InputIsKept == Disorder = {} /\ Haste = {} /\ Touches = {} => (PartsSpec => []InputKept)
<1> SUFFICES ASSUME Disorder = {}, Haste = {}, Touches = {} PROVE PartsSpec => []InputKept
  OBVIOUS
<1> DEFINE Inv == /\ part = "editor" => EditInv
                  /\ part = "forms"  => FormsInv
                  /\ part = "touch"  => TouchInv
<1>1. PartsInit => Inv
  <2> SUFFICES ASSUME PartsInit PROVE EditInv /\ FormsInv /\ TouchInv
    OBVIOUS
  <2>1. EditInv
    BY EditStarts DEF PartsInit
  <2>2. FormsInv
    BY FormsStart DEF PartsInit
  <2>3. TouchInv
    BY TouchStarts DEF PartsInit
  <2> QED BY <2>1, <2>2, <2>3
<1>2. Inv /\ [PartsNext]_partVars => Inv'
  <2> SUFFICES ASSUME Inv, [PartsNext]_partVars PROVE Inv'
    OBVIOUS
  <2>1. ASSUME part' = "editor" PROVE EditInv'
    BY <2>1, EditStands, EditKeeps DEF PartsNext, partVars
  <2>2. ASSUME part' = "forms" PROVE FormsInv'
    <3>1. part = "forms" /\ (FormNext \/ UNCHANGED formVars)
      BY <2>2 DEF PartsNext, partVars
    <3>2. CASE UNCHANGED formVars
      BY <3>1, <3>2 DEF formVars, FormsInv, FormTypes, NoneBefore, HeldOnce, SentOnce, FormsWait, ThoughtsKept
    <3> QED BY <3>1, <3>2, FormsKeep
  <2>3. ASSUME part' = "touch" PROVE TouchInv'
    <3>1. part = "touch" /\ (TouchNext \/ UNCHANGED touchVars)
      BY <2>3 DEF PartsNext, partVars
    <3>2. CASE UNCHANGED touchVars
      BY <3>1, <3>2 DEF touchVars, TouchInv, TouchTypeOK, OneWay, Nothing, Slack
    <3> QED BY <3>1, <3>2, TouchKeeps
  <2> QED BY <2>1, <2>2, <2>3
<1>3. Inv => InputKept
  <2> SUFFICES ASSUME Inv PROVE InputKept
    OBVIOUS
  <2>1. part = "editor" => Editor!EditKept /\ Editor!ForeignKept
    BY EditMeans
  <2>2. part = "forms" => ThoughtsKept
    BY DEF FormsInv
  <2>3. part = "touch" => OneOutcome
    BY TouchMeans
  <2> QED BY <2>1, <2>2, <2>3 DEF InputKept
<1> QED BY <1>1, <1>2, <1>3, PTL DEF PartsSpec

-----------------------------------------------------------------------------
(* The list of tasks: its types, the spinner, and what it shows at rest.     *)

USE PageAssumption DEF PageAssumption

-----------------------------------------------------------------------------
(* What the operators return.                                               *)

LEMMA ContentType ==
  ASSUME PageTypeOK, NEW v \in View
  PROVE  Content(v) \in SUBSET Shown
<1>1. ASSUME NEW t \in Tasks, rows[t] # Gone PROVE Card(t) \in Shown
  BY <1>1 DEF PageTypeOK, Card, Row, Shown
<1> QED BY <1>1 DEF Content

LEMMA CurrentType ==
  ASSUME PageTypeOK
  PROVE  Current \in View
BY DEF PageTypeOK, Current, ViewOf, View, Places

\* Requests keep their type, and the spinner is set.
LEMMA RefreshType ==
  ASSUME PageTypeOK, NEW v \in View, RefreshTasks(v)
  PROVE  requests' \subseteq Request /\ tasksLoading' \in BOOLEAN
<1>1. [view |-> v, answer |-> NoAnswer, newest |-> TRUE] \in Request
  BY DEF Request
<1>2. ASSUME NEW q \in requests PROVE [q EXCEPT !.newest = FALSE] \in Request
  BY DEF PageTypeOK, Request
<1> QED BY <1>1, <1>2 DEF RefreshTasks

LEMMA AnnounceType ==
  ASSUME PageTypeOK, Announce
  PROVE  hub' \in 0 .. HubSize /\ missed' \in BOOLEAN
<1>1. hub \in 0 .. HubSize /\ missed \in BOOLEAN
  BY DEF PageTypeOK
<1>2. CASE streamUp /\ hub < HubSize
  BY <1>1, <1>2 DEF Announce
<1>3. CASE ~(streamUp /\ hub < HubSize)
  <2>1. missed' = (missed \/ ~streamUp) /\ hub' = hub
    BY <1>3 DEF Announce
  <2>2. missed' \in BOOLEAN
    BY <2>1, Zenon
  <2> QED BY <1>1, <2>1, <2>2
<1> QED BY <1>2, <1>3

LEMMA ShownKept ==
  ASSUME PageTypeOK, NEW t \in Tasks
  PROVE  /\ Flipped(t) \subseteq Shown /\ Removed(t) \subseteq Shown
         /\ \A r \in Shown : Patched(r) \subseteq Shown
BY DEF PageTypeOK, Shown, Flipped, Removed, Patched

-----------------------------------------------------------------------------
(* Types.                                                                   *)

\* All that a place change sets.
LEMMA GoToType ==
  ASSUME PageTypeOK, NEW where \in Places, NEW word \in BOOLEAN, NEW hide \in BOOLEAN,
         GoTo(where, word, hide), preSearch' \in Lists, chosen' \in Places,
         box' \in {"idle", "word", ""}
  PROVE  PageTypeOK'
BY RefreshType DEF ViewOf, View, Places, GoTo, PageTypeOK

LEMMA SetKeywordType ==
  ASSUME PageTypeOK, NEW word, SetKeyword(word), chosen' \in Places,
         box' \in {"idle", "word", ""}
  PROVE  PageTypeOK'
<1>1. selection \in Places /\ preSearch \in Lists /\ showHidden \in BOOLEAN
  BY DEF PageTypeOK
<1>2. CASE word = "word"
  BY <1>1, <1>2, GoToType DEF SetKeyword, Places
<1>3. CASE word # "word"
  BY <1>1, <1>3, GoToType DEF SetKeyword, Places
<1> QED BY <1>2, <1>3

LEMMA InitTypes == Init => PageTypeOK
<1> SUFFICES ASSUME Init PROVE PageTypeOK
  OBVIOUS
<1>1. [view |-> ViewOf(Home, FALSE, FALSE), answer |-> NoAnswer, newest |-> TRUE] \in Request
  BY DEF Request, ViewOf, View, Places
<1>2. /\ selection \in Places /\ preSearch \in Lists /\ chosen \in Places
      /\ hub \in 0 .. HubSize
  BY DEF Init, Places
<1>3. /\ rows \in [Tasks -> Row \cup {Gone}]
      /\ {loading, keyword, showHidden, tasksLoading, streamUp, missed, failed} \subseteq BOOLEAN
      /\ shown \subseteq Shown /\ writes \subseteq Write
      /\ timer \in View \cup {NoView} /\ box \in {"idle", "word", ""}
  BY DEF Init
<1>4. requests \subseteq Request
  BY <1>1 DEF Init
<1> QED BY <1>2, <1>3, <1>4 DEF PageTypeOK

LEMMA ListTypes ==
  ASSUME PageTypeOK, NEW r \in requests, ServerAnswers(r) \/ ListLands(r) \/ FetchFails(r)
  PROVE  PageTypeOK'
<1>0. r \in Request /\ r.view \in View /\ (r.answer # NoAnswer => r.answer \subseteq Shown)
  BY DEF PageTypeOK, Request
<1>1. CASE ServerAnswers(r)
  BY <1>0, ContentType, <1>1 DEF Request, ServerAnswers, PageTypeOK
<1>2. CASE ListLands(r)
  BY <1>0, <1>2 DEF ListLands, PageTypeOK
<1>3. CASE FetchFails(r)
  BY <1>3 DEF FetchFails, PageTypeOK
<1> QED BY <1>1, <1>2, <1>3

LEMMA PlaceTypes ==
  ASSUME PageTypeOK,
         \/ \E l \in Lists : Select(l) \/ ApplySavedFilter(l)
         \/ ToggleShowCompleted
         \/ \E word \in {"word", ""} : Type(word)
         \/ BoxFires \/ Clear
  PROVE  PageTypeOK'
BY GoToType, SetKeywordType DEF PageTypeOK, Select, Places, MayMove, ApplySavedFilter,
   ToggleShowCompleted, Type, BoxFires, Clear

-----------------------------------------------------------------------------
(* The answer to a write that shows a entry is a entry, or a refusal.            *)

AnswersOK ==
  \A w \in writes : w.stage = "answered" /\ w.kind \notin {"add", "delete"} =>
                      w.answer \in Shown \cup {Refused}

TInv == PageTypeOK /\ AnswersOK

\* What the server makes of a row is a row, or none.
LEMMA OutcomeType ==
  ASSUME PageTypeOK, NEW kind \in Kinds, NEW t \in Tasks, NEW at \in Places,
         (rows[t] = Gone) = (kind = "add"),
         NEW entry \in Outcomes(kind, t, at)
  PROVE  entry \in Row \cup {Gone} /\ (kind # "delete" => entry \in Row)
<1>1. rows[t] \in Row \cup {Gone}
  BY DEF PageTypeOK
<1>2. CASE kind = "toggle"
  BY <1>1, <1>2 DEF Outcomes, Row
<1>3. CASE kind = "move"
  BY <1>1, <1>3 DEF Outcomes, Row
<1>4. CASE kind = "delete"
  BY <1>4 DEF Outcomes
<1>5. CASE kind = "add"
  <2> DEFINE l == IF at \in Lists THEN at ELSE Home
  <2>1. l \in Lists
    OBVIOUS
  <2>2. entry = [list |-> l, done |-> FALSE]
    BY <1>5 DEF Outcomes
  <2>3. entry \in Row
    BY <2>1, <2>2 DEF Row
  <2> QED BY <2>3
<1>6. CASE kind = "sub"
  BY <1>1, <1>6 DEF Outcomes
<1> QED BY <1>2, <1>3, <1>4, <1>5, <1>6

LEMMA SendTypes ==
  ASSUME TInv, NEW kind \in Kinds, NEW t \in Tasks, Send(kind, t)
  PROVE  TInv'
<1> DEFINE new == [kind |-> kind, task |-> t, view |-> Current, stage |-> "sent", answer |-> NoAnswer]
<1>0. PageTypeOK /\ AnswersOK
  BY DEF TInv
<1>1. new \in Write
  BY <1>0, CurrentType DEF Write
<1>2. writes' = writes \cup {new} /\ shown' \in {shown, Flipped(t)}
  BY DEF Send
<1>3. shown' \subseteq Shown
  BY <1>0, <1>2, ShownKept DEF PageTypeOK
<1>4. PageTypeOK'
  BY <1>0, <1>1, <1>2, <1>3 DEF Send, PageTypeOK
<1>5. AnswersOK'
  BY <1>0, <1>2 DEF AnswersOK
<1> QED BY <1>4, <1>5 DEF TInv

LEMMA ServerTypes ==
  ASSUME TInv, NEW w \in writes, ServerWrites(w) \/ ServerReads(w)
  PROVE  TInv'
<1>0. PageTypeOK /\ AnswersOK
  BY DEF TInv
<1>1. /\ w \in Write /\ w.kind \in Kinds /\ w.task \in Tasks /\ w.view.place \in Places
      /\ rows[w.task] \in Row \cup {Gone}
  BY <1>0 DEF PageTypeOK, Write, View
<1> DEFINE Ans(st, a) == [w EXCEPT !.stage = st, !.answer = a]
<1>2. ASSUME NEW st \in {"read", "answered"}, NEW a \in Shown \cup {NoAnswer, Refused, Ok},
             st = "answered" /\ w.kind \notin {"add", "delete"} => a \in Shown \cup {Refused},
             writes' = (writes \ {w}) \cup {Ans(st, a)},
             rows' \in [Tasks -> Row \cup {Gone}], hub' \in 0 .. HubSize, missed' \in BOOLEAN,
             UNCHANGED <<loading, selection, keyword, preSearch, showHidden, shown, tasksLoading,
                         requests, timer, box, streamUp, chosen, failed>>
      PROVE  TInv'
  BY <1>1, <1>0, <1>2 DEF Write, PageTypeOK, AnswersOK, TInv
<1>3. CASE ServerWrites(w) /\ (rows[w.task] = Gone) # (w.kind = "add")
  BY <1>3, <1>0, <1>2 DEF ServerWrites, PageTypeOK
<1>4. CASE ServerWrites(w) /\ (rows[w.task] = Gone) = (w.kind = "add")
  <2> DEFINE Card0(entry) == [id |-> w.task, list |-> entry.list, done |-> entry.done]
             St == IF w.kind = "sub" THEN "read" ELSE "answered"
             A(entry) == CASE w.kind \in {"toggle", "move"} -> Card0(entry)
                         [] w.kind = "sub" -> NoAnswer
                         [] OTHER -> Ok
  <2>1. PICK entry \in Outcomes(w.kind, w.task, w.view.place) :
          /\ rows' = [rows EXCEPT ![w.task] = entry] /\ Announce
          /\ writes' = (writes \ {w}) \cup {Ans(St, A(entry))}
    BY <1>4 DEF ServerWrites
  <2>2. entry \in Row \cup {Gone} /\ (w.kind # "delete" => entry \in Row)
    BY <1>0, <1>1, <1>4, OutcomeType
  <2>3. rows' \in [Tasks -> Row \cup {Gone}]
    BY <1>0, <2>1, <2>2 DEF PageTypeOK
  <2>4. hub' \in 0 .. HubSize /\ missed' \in BOOLEAN
    BY <1>0, <2>1, AnnounceType
  <2>5. w.kind \in {"toggle", "move"} => Card0(entry) \in Shown
    BY <1>1, <2>2 DEF Row, Shown
  <2>6. /\ A(entry) \in Shown \cup {NoAnswer, Refused, Ok} /\ St \in {"read", "answered"}
        /\ St = "answered" /\ w.kind \notin {"add", "delete"} => A(entry) \in Shown \cup {Refused}
    BY <1>1, <2>5
  <2> HIDE DEF A, St, Ans
  <2> QED BY <1>2, <1>4, <2>1, <2>3, <2>4, <2>6 DEF ServerWrites
<1>5. CASE ServerReads(w)
  <2> DEFINE a == IF rows[w.task] = Gone THEN Refused ELSE Card(w.task)
  <2>1. a \in Shown \cup {Refused}
    BY <1>1 DEF Card, Row, Shown
  <2>2. writes' = (writes \ {w}) \cup {Ans("answered", a)}
    BY <1>5 DEF ServerReads
  <2> HIDE DEF a, Ans
  <2> QED BY <1>0, <1>2, <1>5, <2>1, <2>2 DEF ServerReads, PageTypeOK
<1> QED BY <1>3, <1>4, <1>5

LEMMA LandTypes ==
  ASSUME TInv, NEW w \in writes, AnswerLands(w)
  PROVE  TInv'
<1>0. PageTypeOK /\ AnswersOK
  BY DEF TInv
<1>1. w \in Write /\ w.view \in View /\ w.task \in Tasks
  BY <1>0 DEF PageTypeOK, Write
<1>2. writes' \subseteq Write /\ AnswersOK'
  BY <1>0 DEF AnswerLands, PageTypeOK, AnswersOK
<1>3. CASE w.answer = Refused
  BY <1>0, <1>1, <1>3, RefreshType, <1>2 DEF AnswerLands, PageTypeOK, TInv
<1>4. CASE w.answer # Refused
  <2>1. shown' \subseteq Shown
    BY <1>0, <1>4, <1>1, ShownKept DEF AnswersOK, AnswerLands, PageTypeOK
  <2>2. timer' \in View \cup {NoView}
    BY <1>0, <1>1, <1>4 DEF AnswerLands, Reconcile, PageTypeOK
  <2>3. requests' = requests /\ tasksLoading' = tasksLoading
    BY <1>4 DEF AnswerLands
  <2> QED BY <1>0, <1>2, <2>1, <2>2, <2>3 DEF AnswerLands, PageTypeOK, TInv
<1> QED BY <1>3, <1>4

LEMMA StepTypes == TInv /\ [PageNext]_pageVars => TInv'
<1> SUFFICES ASSUME TInv, [PageNext]_pageVars PROVE TInv'
  OBVIOUS
<1>0. PageTypeOK /\ AnswersOK
  BY DEF TInv
<1>1. ASSUME PageTypeOK', writes' = writes PROVE TInv'
  BY <1>0, <1>1 DEF TInv, AnswersOK
<1>2. CASE FirstAnswer
  BY <1>0, <1>1, <1>2 DEF FirstAnswer, PageTypeOK
<1>3. ASSUME NEW r \in requests, ServerAnswers(r) \/ ListLands(r) \/ FetchFails(r) PROVE TInv'
  BY <1>0, <1>1, <1>3, ListTypes DEF ServerAnswers, ListLands, FetchFails
<1>4. CASE TimerFires
  BY <1>0, <1>4, RefreshType, <1>1 DEF TimerFires, PageTypeOK
<1>5. CASE \/ \E l \in Lists : Select(l) \/ ApplySavedFilter(l)
           \/ ToggleShowCompleted
           \/ \E word \in {"word", ""} : Type(word)
           \/ BoxFires \/ Clear
  BY <1>0, <1>5, PlaceTypes, <1>1 DEF Select, ApplySavedFilter, ToggleShowCompleted, Type,
     BoxFires, Clear, SetKeyword, GoTo
<1>6. ASSUME NEW kind \in Kinds, NEW t \in Tasks, Send(kind, t) PROVE TInv'
  BY <1>6, SendTypes
<1>7. ASSUME NEW w \in writes, ServerWrites(w) \/ ServerReads(w) \/ AnswerLands(w) PROVE TInv'
  BY <1>7, ServerTypes, LandTypes
<1>8. ASSUME NEW t \in Tasks, NEW entry \in Row \cup {Gone}, OtherDeviceWrites(t, entry) PROVE TInv'
  BY <1>0, <1>8, AnnounceType, <1>1 DEF OtherDeviceWrites, PageTypeOK
<1>9. CASE MessageArrives
  <2>0. hub \in 0 .. HubSize /\ HubSize \in Nat /\ hub > 0 /\ hub' = hub - 1
    BY <1>0, <1>9 DEF MessageArrives, PageTypeOK
  <2>1. hub' \in 0 .. HubSize
    BY <2>0
  <2>2. timer' \in View \cup {NoView}
    BY <1>0, <1>9, CurrentType DEF MessageArrives, Reconcile
  <2>3. PageTypeOK'
    BY <1>0, <1>9, <2>1, <2>2 DEF MessageArrives, PageTypeOK
  <2> QED BY <1>1, <1>9, <2>3 DEF MessageArrives
<1>10. CASE StreamCut
  <2>1. missed' \in BOOLEAN
    BY <1>10, Zenon DEF StreamCut
  <2>2. hub' \in 0 .. HubSize
    BY <1>10 DEF StreamCut
  <2>3. PageTypeOK'
    BY <1>0, <1>10, <2>1, <2>2 DEF StreamCut, PageTypeOK
  <2> QED BY <1>1, <1>10, <2>3 DEF StreamCut
<1>11. CASE StreamBack
  BY <1>0, <1>1, <1>11 DEF StreamBack, PageTypeOK
<1>12. CASE UNCHANGED pageVars
  BY <1>0, <1>1, <1>12 DEF pageVars, PageTypeOK
<1> QED
  BY <1>2, <1>3, <1>4, <1>5, <1>6, <1>7, <1>8, <1>9, <1>10, <1>11, <1>12 DEF PageNext

LEMMA InitAnswers == Init => AnswersOK
BY DEF Init, AnswersOK

\* Every variable of the page keeps its type, whatever lapses are admitted.
THEOREM PageTypeCorrect == PageSpec => []PageTypeOK
<1>1. Init => TInv
  BY InitTypes, InitAnswers DEF TInv
<1>2. TInv => PageTypeOK
  BY DEF TInv
<1> QED BY <1>1, <1>2, StepTypes, PTL DEF PageSpec

-----------------------------------------------------------------------------
(* The spinner.  The page never has two newest requests, and a request that  *)
(* has not been answered is the newest: the one before it was aborted.       *)

OneNewest == \A q, r \in requests : q.newest /\ r.newest => q = r
OpenIsNewest == \A r \in requests : r.answer = NoAnswer => r.newest

Spin == SpinnerTrue /\ OneNewest /\ OpenIsNewest

\* A new request overtakes all others and sets the spinner.
LEMMA RefreshSpins ==
  ASSUME PageTypeOK, NEW v \in View, RefreshTasks(v)
  PROVE  Spin'
<1> DEFINE new == [view |-> v, answer |-> NoAnswer, newest |-> TRUE]
<1>1. \A r \in requests' : r = new \/ (r.newest = FALSE /\ r.answer # NoAnswer)
  BY DEF RefreshTasks, PageTypeOK, Request
<1>2. new \in requests' /\ tasksLoading' = TRUE /\ new.newest
  BY DEF RefreshTasks
<1> HIDE DEF new
<1> QED BY <1>1, <1>2 DEF Spin, SpinnerTrue, OneNewest, OpenIsNewest

LEMMA SpinKept ==
  ASSUME Spin, UNCHANGED <<requests, tasksLoading>>
  PROVE  Spin'
BY DEF Spin, SpinnerTrue, OneNewest, OpenIsNewest

LEMMA ListSpins ==
  ASSUME PageTypeOK, Spin, NEW r \in requests, ServerAnswers(r) \/ ListLands(r) \/ FetchFails(r)
  PROVE  Spin'
<1>0. /\ \A q \in requests : q \in Request
      /\ tasksLoading \in BOOLEAN /\ r.newest \in BOOLEAN
  BY DEF PageTypeOK, Request
<1>1. CASE ServerAnswers(r)
  <2> DEFINE new == [r EXCEPT !.answer = Content(r.view)]
  <2>1. /\ r.newest /\ new.newest = r.newest /\ new.answer = Content(r.view)
    BY <1>0, <1>1 DEF ServerAnswers, Spin, OpenIsNewest, Request
  <2>2. requests' = (requests \ {r}) \cup {new} /\ tasksLoading' = tasksLoading
    BY <1>1 DEF ServerAnswers
  <2>3. new.answer # NoAnswer
    BY <1>0, <2>1, ContentType, AnswerAssumption DEF Request
  <2> HIDE DEF new
  <2> QED BY <2>1, <2>2, <2>3 DEF Spin, SpinnerTrue, OneNewest, OpenIsNewest
<1>2. CASE ListLands(r) /\ r.newest
  BY <1>2 DEF ListLands, Spin, SpinnerTrue, OneNewest, OpenIsNewest
<1>3. CASE ListLands(r) /\ ~r.newest
  BY <1>3 DEF ListLands, Spin, SpinnerTrue, OneNewest, OpenIsNewest
<1>4. CASE FetchFails(r)
  BY <1>4 DEF FetchFails, Spin, OpenIsNewest, SpinnerTrue, OneNewest
<1> QED BY <1>1, <1>2, <1>3, <1>4

LEMMA GoToSpins ==
  ASSUME PageTypeOK, NEW where \in Places, NEW word \in BOOLEAN, NEW hide \in BOOLEAN,
         GoTo(where, word, hide)
  PROVE  Spin'
BY RefreshSpins DEF ViewOf, View, Places, GoTo

LEMMA SetKeywordSpins ==
  ASSUME PageTypeOK, NEW word, SetKeyword(word)
  PROVE  Spin'
BY GoToSpins DEF PageTypeOK, Places, SetKeyword

LEMMA StepSpins == TInv /\ Spin /\ [PageNext]_pageVars => Spin'
<1> SUFFICES ASSUME TInv, Spin, [PageNext]_pageVars PROVE Spin'
  OBVIOUS
<1>0. /\ PageTypeOK
      /\ selection \in Places /\ showHidden \in BOOLEAN /\ keyword \in BOOLEAN
  BY DEF TInv, PageTypeOK
<1>1. ASSUME NEW r \in requests, ServerAnswers(r) \/ ListLands(r) \/ FetchFails(r) PROVE Spin'
  BY <1>0, <1>1, ListSpins
<1>2. CASE TimerFires
  BY <1>0, <1>2, RefreshSpins DEF TimerFires, PageTypeOK
<1>3. ASSUME NEW l \in Lists, Select(l) \/ ApplySavedFilter(l) PROVE Spin'
  BY <1>0, <1>3, GoToSpins DEF Select, ApplySavedFilter, Places
<1>4. CASE ToggleShowCompleted
  BY <1>0, <1>4, GoToSpins DEF ToggleShowCompleted
<1>5. CASE BoxFires \/ Clear
  BY <1>0, <1>5, SetKeywordSpins DEF BoxFires, Clear
<1>6. ASSUME NEW w \in writes, AnswerLands(w) PROVE Spin'
  BY <1>0, <1>6, RefreshSpins, SpinKept DEF PageTypeOK, Write, AnswerLands
<1>7. CASE \/ FirstAnswer
           \/ \E word \in {"word", ""} : Type(word)
           \/ \E kind \in Kinds, t \in Tasks : Send(kind, t)
           \/ \E w \in writes : ServerWrites(w) \/ ServerReads(w)
           \/ \E t \in Tasks, entry \in Row \cup {Gone} : OtherDeviceWrites(t, entry)
           \/ MessageArrives \/ StreamCut \/ StreamBack \/ UNCHANGED pageVars
  BY <1>7, SpinKept DEF FirstAnswer, Type, Send, ServerWrites, ServerReads, OtherDeviceWrites,
     MessageArrives, StreamCut, StreamBack, pageVars
<1> QED
  BY <1>1, <1>2, <1>3, <1>4, <1>5, <1>6, <1>7 DEF PageNext

\* The spinner of the list turns exactly while the newest request is under way:
\* requests overtaken, aborted, answered late or failed never stop it, and no
\* request leaves it turning.
THEOREM SpinnerTellsTruth == PageSpec => []SpinnerTrue
<1>1. Init => TInv
  BY InitTypes, InitAnswers DEF TInv
<1>2. Init => Spin
  BY DEF Init, Spin, SpinnerTrue, OneNewest, OpenIsNewest
<1>3. Spin => SpinnerTrue
  BY DEF Spin
<1> QED BY <1>1, <1>2, <1>3, StepTypes, StepSpins, PTL DEF PageSpec

-----------------------------------------------------------------------------
(* The list at rest.  What the page is about to read, or knows nobody told   *)
(* it of, keeps an old list from being the last word.                        *)

\* Content of a table of tasks, as a function of the table.
Held(sheet, v) ==
  {[id |-> t, list |-> sheet[t].list, done |-> sheet[t].done] :
     t \in {u \in Tasks : /\ sheet[u] # Gone
                          /\ v.place \in {Search, sheet[u].list}
                          /\ ~(v.hide /\ sheet[u].done)}}

\* Nothing has happened yet to a page that waits for its first answer.
Untouched ==
  loading => /\ selection = Home /\ keyword = FALSE /\ showHidden = FALSE /\ box = "idle"
             /\ timer = NoView /\ writes = {} /\ hub = 0 /\ streamUp = FALSE

\* Every closure that waits belongs to the place the page is at.
AtHome ==
  /\ timer # NoView => timer = Current
  /\ \A w \in writes : w.view = Current
  /\ \A r \in requests : r.newest => r.view = Current

\* What the user asked for is where the page is, or what the search box is about to do.
BoxTrue ==
  /\ keyword = TRUE <=> selection = Search
  /\ box = "idle" => chosen = selection
  /\ box = "word" => chosen = Search
  /\ box = ""     => keyword = TRUE /\ chosen = preSearch

\* A task that was read for its subtask is the task as it is.
ReadIsFresh ==
  \A w \in writes : w.kind = "sub" /\ w.stage = "answered" /\ w.answer # Refused
                      => rows[w.task] # Gone /\ w.answer = Card(w.task)

\* The list will be read again, or a change went untold.
Due == missed = TRUE \/ hub > 0 \/ timer # NoView \/ \E r \in requests : r.answer = NoAnswer

\* A flip the server has not confirmed.
Flip == \E w \in writes : w.kind = "toggle"

\* The newest answer, and without one the list on the screen, is what the server has.
Fresh ==
  ~Due => /\ \A r \in requests : r.newest => r.answer = Held(rows, Current)
          /\ (\A r \in requests : ~r.newest) /\ failed = FALSE /\ ~Flip => shown = Held(rows, Current)

LInv == Untouched /\ AtHome /\ BoxTrue /\ ReadIsFresh /\ Fresh

\* None of the lapses the list does not survive: a closure that outlives its place, a word typed
\* and left, a task read late, a buffer of no message, a setting the first request did not know.
NoLapse == Admitted \subseteq {"cut", "fetch_fails"} /\ HubSize > 0 /\ StoredHide = FALSE

LEMMA HeldIs ==
  ASSUME NEW v
  PROVE  Content(v) = Held(rows, v)
BY DEF Content, Held, Card

LEMMA RefreshDue ==
  ASSUME PageTypeOK, NEW v \in View, RefreshTasks(v)
  PROVE  Due' /\ \A r \in requests' : r.newest => r.view = v
<1> DEFINE new == [view |-> v, answer |-> NoAnswer, newest |-> TRUE]
<1>1. \A r \in requests' : r = new \/ r.newest = FALSE
  BY DEF RefreshTasks, PageTypeOK, Request
<1>2. new \in requests' /\ new.answer = NoAnswer /\ new.view = v
  BY DEF RefreshTasks
<1> HIDE DEF new
<1> QED BY <1>1, <1>2 DEF Due

\* A page that goes elsewhere with nothing under way asks for the list of the new place.
LEMMA GoToHome ==
  ASSUME PageTypeOK, timer = NoView, writes = {}, ~loading,
         NEW where \in Places, NEW word \in BOOLEAN, NEW hide \in BOOLEAN,
         GoTo(where, word, hide)
  PROVE  Untouched' /\ AtHome' /\ ReadIsFresh' /\ Fresh'
BY RefreshDue DEF ViewOf, View, Places, GoTo, Current, Untouched, AtHome, ReadIsFresh, Fresh

LEMMA SetKeywordHome ==
  ASSUME PageTypeOK, timer = NoView, writes = {}, ~loading, NEW word, SetKeyword(word)
  PROVE  Untouched' /\ AtHome' /\ ReadIsFresh' /\ Fresh'
BY GoToHome DEF PageTypeOK, Places, SetKeyword

LEMMA PlaceKeeps ==
  ASSUME NoLapse, PageTypeOK, LInv,
         \/ \E l \in Lists : Select(l) \/ ApplySavedFilter(l)
         \/ ToggleShowCompleted
         \/ BoxFires \/ Clear
  PROVE  LInv'
<1>1. Elsewhere => ~loading /\ timer = NoView /\ writes = {}
  BY DEF NoLapse, Elsewhere
<1>2. MayMove => box = "idle"
  BY DEF NoLapse, MayMove
<1>3. /\ selection \in Places /\ preSearch \in Lists /\ showHidden \in BOOLEAN /\ keyword \in BOOLEAN
      /\ BoxTrue
  BY DEF PageTypeOK, LInv
<1>4. ASSUME NEW l \in Lists, Select(l) PROVE LInv'
  BY <1>4, <1>1, <1>3, GoToHome, <1>2, TokenAssumption DEF Select, Places, MayMove, GoTo, BoxTrue,
     LInv
<1>5. ASSUME NEW l \in Lists, ApplySavedFilter(l) PROVE LInv'
  BY <1>5, <1>3, <1>1, GoToHome, <1>2, TokenAssumption DEF ApplySavedFilter, Places, NoLapse,
     MayMove, GoTo, BoxTrue, LInv
<1>6. CASE ToggleShowCompleted
  BY <1>6, <1>1, <1>3, GoToHome, <1>2 DEF ToggleShowCompleted, MayMove, GoTo, BoxTrue, LInv
<1>7. CASE BoxFires
  BY <1>7, <1>1, SetKeywordHome, <1>3, TokenAssumption DEF BoxFires, SetKeyword, GoTo, BoxTrue,
     PageTypeOK, LInv
<1>8. CASE Clear
  BY <1>3, <1>8, <1>1, SetKeywordHome, TokenAssumption DEF Clear, NoLapse, SetKeyword, GoTo,
     BoxTrue, LInv
<1> QED BY <1>4, <1>5, <1>6, <1>7, <1>8

\* An answer of the server, its landing, and a request that fails.
LEMMA ListAnswerKeeps ==
  ASSUME PageTypeOK, Spin, LInv, NEW r \in requests,
         ServerAnswers(r) \/ ListLands(r) \/ FetchFails(r)
  PROVE  LInv'
<1>1. r \in Request /\ r.view \in View
  BY DEF PageTypeOK, Request
<1>2. /\ UNCHANGED <<rows, loading, selection, keyword, preSearch, showHidden, timer, writes, box,
                     hub, streamUp, chosen>>
  BY DEF ServerAnswers, ListLands, FetchFails
<1>3. Untouched' /\ BoxTrue' /\ ReadIsFresh' /\ Current' = Current
  BY <1>2 DEF LInv, Untouched, BoxTrue, ReadIsFresh, Current, Card
<1>4. CASE ServerAnswers(r)
  <2> DEFINE new == [r EXCEPT !.answer = Content(r.view)]
  <2>1. /\ new.view = r.view /\ new.newest = r.newest /\ new.answer = Held(rows, r.view)
        /\ r.newest = TRUE /\ r.view = Current
    BY <1>1, <1>4, HeldIs DEF ServerAnswers, Request, Spin, OpenIsNewest, LInv, AtHome
  <2>2. requests' = (requests \ {r}) \cup {new} /\ rows' = rows
    BY <1>4 DEF ServerAnswers
  <2>3. \A q \in requests' : q.newest => q = new
    BY <2>1, <2>2 DEF Spin, OneNewest
  <2>4. new \in requests'
    BY <2>2
  <2> HIDE DEF new
  <2>5. AtHome'
    BY <1>2, <1>3, <2>1, <2>3 DEF LInv, AtHome
  <2>6. Fresh'
    BY <1>3, <2>1, <2>2, <2>3, <2>4 DEF Fresh
  <2> QED BY <1>3, <2>5, <2>6 DEF LInv
<1>5. CASE ListLands(r)
  <2>1. requests' = requests \ {r} /\ missed' = missed /\ r.answer # NoAnswer
    BY <1>5 DEF ListLands
  <2>2. AtHome'
    BY <1>2, <1>3, <2>1 DEF LInv, AtHome
  <2>3. Due' <=> Due
    BY <1>2, <2>1 DEF Due
  <2>4. CASE r.newest
    BY <1>5, <2>4, <2>1, <1>2, <1>3, <2>3, <2>2 DEF ListLands, Spin, OneNewest, LInv, Fresh
  <2>5. CASE ~r.newest
    BY <1>5, <2>5, <1>2, <1>3, <2>1, <2>3, <2>2 DEF ListLands, LInv, Fresh, Flip
  <2> QED BY <2>4, <2>5
<1>6. CASE FetchFails(r)
  BY <1>6, <1>2, <1>3 DEF FetchFails, Spin, OpenIsNewest, LInv, AtHome, Fresh, OneNewest
<1> QED BY <1>4, <1>5, <1>6

\* Every change of a row leaves the page something to read, or is one nobody told it of.
LEMMA AnnounceDue ==
  ASSUME NoLapse, PageTypeOK, Announce
  PROVE  hub' > 0 \/ missed' = TRUE
<1>1. hub \in 0 .. HubSize /\ HubSize \in Nat /\ HubSize > 0 /\ streamUp \in BOOLEAN
  BY DEF NoLapse, PageTypeOK
<1>2. CASE streamUp /\ hub < HubSize
  BY <1>1, <1>2 DEF Announce
<1>3. CASE ~streamUp
  <2>1. missed' = (missed \/ ~streamUp)
    BY <1>3 DEF Announce
  <2>2. missed' = TRUE
    BY <1>3, <2>1, Zenon
  <2> QED BY <2>2
<1>4. CASE streamUp /\ ~(hub < HubSize)
  BY <1>1, <1>4 DEF Announce
<1> QED BY <1>2, <1>3, <1>4

\* While the page loads no message reaches it.
LEMMA AnnounceUntouched ==
  ASSUME Untouched, Announce,
         UNCHANGED <<loading, selection, keyword, showHidden, box, timer, writes, streamUp>>
  PROVE  Untouched'
BY DEF Untouched, Announce

LEMMA SendKeeps ==
  ASSUME PageTypeOK, LInv, NEW kind \in Kinds, NEW t \in Tasks, Send(kind, t)
  PROVE  LInv'
<1> DEFINE new == [kind |-> kind, task |-> t, view |-> Current, stage |-> "sent", answer |-> NoAnswer]
<1>1. /\ writes' = writes \cup {new} /\ ~loading
      /\ new.view = Current /\ new.stage = "sent" /\ new.kind = kind
      /\ UNCHANGED <<rows, loading, selection, keyword, preSearch, showHidden, requests, timer, box,
                     hub, streamUp, chosen, missed, failed>>
  BY DEF Send
<1>2. kind # "toggle" => shown' = shown
  BY DEF Send
<1> HIDE DEF new
<1>3. Untouched' /\ BoxTrue' /\ Current' = Current
  BY <1>1 DEF LInv, Untouched, BoxTrue, Current
<1>4. AtHome'
  BY <1>1, <1>3 DEF LInv, AtHome
<1>5. ReadIsFresh'
  BY <1>1 DEF LInv, ReadIsFresh, Card
<1>6. Fresh'
  BY <1>1, <1>2, <1>3 DEF Due, Flip, LInv, Fresh
<1> QED BY <1>3, <1>4, <1>5, <1>6 DEF LInv

LEMMA ServerKeeps ==
  ASSUME NoLapse, PageTypeOK, LInv, NEW w \in writes, ServerWrites(w) \/ ServerReads(w)
  PROVE  LInv'
<1>0. /\ w \in Write /\ w.task \in Tasks /\ w.view = Current /\ rows[w.task] \in Row \cup {Gone}
      /\ ~loading
  BY DEF PageTypeOK, Write, LInv, AtHome, Untouched
<1> DEFINE Ans(st, a) == [w EXCEPT !.stage = st, !.answer = a]
<1>1. \A st, a : /\ Ans(st, a).stage = st /\ Ans(st, a).answer = a /\ Ans(st, a).kind = w.kind
                 /\ Ans(st, a).view = w.view /\ Ans(st, a).task = w.task
  BY <1>0 DEF Write
<1> HIDE DEF Ans
<1>2. UNCHANGED <<loading, selection, keyword, preSearch, showHidden, shown, requests, timer, box,
                  streamUp, chosen, failed>>
  BY DEF ServerWrites, ServerReads
<1>3. BoxTrue' /\ Current' = Current /\ Untouched'
  BY <1>0, <1>2 DEF LInv, BoxTrue, Current, Untouched
<1>4. ASSUME NEW st, NEW a, writes' = (writes \ {w}) \cup {Ans(st, a)}
      PROVE  AtHome' /\ (Flip' <=> Flip)
  BY <1>0, <1>1, <1>2, <1>3, <1>4 DEF LInv, AtHome, Flip
<1>5. ASSUME NEW st, NEW a, writes' = (writes \ {w}) \cup {Ans(st, a)},
             rows' = rows /\ hub' = hub /\ missed' = missed,
             st = "answered" /\ a # Refused /\ w.kind = "sub" => rows[w.task] # Gone /\ a = Card(w.task)
      PROVE  LInv'
  BY <1>1, <1>5, <1>2, <1>3, <1>4 DEF LInv, ReadIsFresh, Card, Fresh, Due
<1>6. CASE ServerWrites(w) /\ (rows[w.task] = Gone) # (w.kind = "add")
  BY <1>6, <1>5 DEF ServerWrites, Ans
<1>7. CASE ServerWrites(w) /\ (rows[w.task] = Gone) = (w.kind = "add")
  <2> DEFINE St == IF w.kind = "sub" THEN "read" ELSE "answered"
             A(entry) == CASE w.kind \in {"toggle", "move"} -> [id |-> w.task, list |-> entry.list, done |-> entry.done]
                         [] w.kind = "sub" -> NoAnswer
                         [] OTHER -> Ok
  <2>1. PICK entry \in Outcomes(w.kind, w.task, w.view.place) :
          /\ rows' = [rows EXCEPT ![w.task] = entry] /\ Announce
          /\ writes' = (writes \ {w}) \cup {Ans(St, A(entry))}
    BY <1>7 DEF ServerWrites, Ans
  <2>2. St = "answered" => w.kind # "sub"
    OBVIOUS
  <2>3. \A x \in writes : x.kind # "sub" \/ x.stage # "answered"
    BY <1>7 DEF ServerWrites, NoReadOut, NoLapse
  <2>4. Due'
    BY <2>1, AnnounceDue DEF Due
  <2> HIDE DEF A, St
  <2>5. ReadIsFresh'
    BY <1>1, <2>1, <2>2, <2>3 DEF ReadIsFresh
  <2>6. Fresh'
    BY <2>4 DEF Fresh
  <2> QED BY <1>3, <1>4, <2>1, <2>5, <2>6 DEF LInv
<1>8. CASE ServerReads(w)
  <2> DEFINE a == IF rows[w.task] = Gone THEN Refused ELSE Card(w.task)
  <2>1. rows' = rows /\ hub' = hub /\ missed' = missed /\ writes' = (writes \ {w}) \cup {Ans("answered", a)}
    BY <1>8 DEF ServerReads, Ans
  <2>2. a # Refused => rows[w.task] # Gone /\ a = Card(w.task)
    OBVIOUS
  <2> HIDE DEF a
  <2> QED BY <1>5, <2>1, <2>2
<1> QED BY <1>6, <1>7, <1>8

\* A task that is on the screen as the server has it stays as it is when its row is patched in.
LEMMA PatchKeeps ==
  ASSUME PageTypeOK, NEW t \in Tasks, NEW entry, entry = Card(t), rows[t] # Gone,
         shown = Held(rows, Current)
  PROVE  Patched(entry) = shown
BY DEF Card, Held, Patched

LEMMA LandKeeps ==
  ASSUME TInv, LInv, NEW w \in writes, AnswerLands(w)
  PROVE  LInv'
<1>0. /\ PageTypeOK /\ w \in Write /\ w.task \in Tasks /\ w.view = Current /\ ~loading
      /\ Current \in View
  BY CurrentType DEF TInv, PageTypeOK, Write, LInv, AtHome, Untouched
<1>1. /\ writes' = writes \ {w} /\ w.stage = "answered"
      /\ UNCHANGED <<rows, loading, selection, keyword, preSearch, showHidden, box, hub, streamUp,
                     chosen, missed, failed>>
  BY DEF AnswerLands
<1>2. BoxTrue' /\ Current' = Current /\ Untouched' /\ ReadIsFresh'
  BY <1>0, <1>1 DEF LInv, BoxTrue, Current, Untouched, ReadIsFresh, Card
<1>3. CASE w.answer = Refused /\ w.kind = "toggle"
  BY <1>0, <1>3, RefreshDue, <1>1, <1>2 DEF AnswerLands, LInv, AtHome, Fresh
<1>4. CASE w.answer = Refused /\ w.kind # "toggle"
  BY <1>4, <1>1, <1>2 DEF AnswerLands, LInv, AtHome, Due, Flip, Fresh
<1>5. CASE w.answer # Refused /\ w.kind # "sub"
  BY <1>0, <1>5, <1>1, <1>2, TokenAssumption DEF AnswerLands, Reconcile, LInv, AtHome, Fresh, Due
<1>6. CASE w.answer # Refused /\ w.kind = "sub"
  BY <1>6, <1>1, <1>2, <1>0, PatchKeeps DEF AnswerLands, LInv, AtHome, Due, Flip, ReadIsFresh,
     Fresh
<1> QED BY <1>3, <1>4, <1>5, <1>6

LEMMA StepKeeps == NoLapse /\ TInv /\ Spin /\ LInv /\ [PageNext]_pageVars => LInv'
<1> SUFFICES ASSUME NoLapse, TInv, Spin, LInv, [PageNext]_pageVars PROVE LInv'
  OBVIOUS
<1>0. PageTypeOK /\ Untouched /\ AtHome /\ BoxTrue /\ ReadIsFresh /\ Fresh /\ Current \in View
  BY CurrentType DEF TInv, LInv
<1>1. CASE FirstAnswer
  BY <1>0, <1>1 DEF FirstAnswer, NoLapse, Untouched, AtHome, BoxTrue, ReadIsFresh, Card, Current,
     Fresh, Due, Flip, LInv
<1>2. ASSUME NEW r \in requests, ServerAnswers(r) \/ ListLands(r) \/ FetchFails(r) PROVE LInv'
  BY <1>0, <1>2, ListAnswerKeeps
<1>3. CASE TimerFires
  BY <1>0, <1>3, RefreshDue DEF TimerFires, AtHome, Untouched, BoxTrue, ReadIsFresh, Card,
     Current, Fresh, LInv
<1>4. CASE \/ \E l \in Lists : Select(l) \/ ApplySavedFilter(l)
           \/ ToggleShowCompleted \/ BoxFires \/ Clear
  BY <1>0, <1>4, PlaceKeeps
<1>5. ASSUME NEW word \in {"word", ""}, Type(word) PROVE LInv'
  <2>1. /\ box' = word /\ ~loading
        /\ chosen' = IF word = "word" THEN Search ELSE IF keyword THEN preSearch ELSE selection
        /\ word = "word" \/ keyword
        /\ UNCHANGED <<rows, loading, selection, keyword, preSearch, showHidden, shown,
                       requests, timer, writes, hub, streamUp, missed, failed>>
    BY <1>5 DEF Type, NoLapse, Elsewhere
  <2>2. keyword \in BOOLEAN
    BY <1>0 DEF PageTypeOK
  <2>3. BoxTrue'
    BY <1>0, <1>5, <2>1, <2>2 DEF BoxTrue
  <2>4. Untouched' /\ AtHome' /\ ReadIsFresh' /\ Current' = Current
    BY <1>0, <2>1 DEF Untouched, AtHome, ReadIsFresh, Card, Current
  <2>5. Fresh'
    BY <1>0, <2>1, <2>4 DEF Fresh, Due, Flip
  <2> QED BY <2>3, <2>4, <2>5 DEF LInv
<1>6. ASSUME NEW kind \in Kinds, NEW t \in Tasks, Send(kind, t) PROVE LInv'
  BY <1>0, <1>6, SendKeeps
<1>7. ASSUME NEW w \in writes, ServerWrites(w) \/ ServerReads(w) \/ AnswerLands(w) PROVE LInv'
  BY <1>0, <1>7, ServerKeeps, LandKeeps
<1>8. ASSUME NEW t \in Tasks, NEW entry \in Row \cup {Gone}, OtherDeviceWrites(t, entry) PROVE LInv'
  BY <1>8, <1>0, AnnounceUntouched, AnnounceDue DEF OtherDeviceWrites, AtHome, BoxTrue, Current,
     NoLapse, NoReadOut, ReadIsFresh, Due, Fresh, LInv
<1>9. CASE MessageArrives
  <2>1. /\ timer' = Current /\ hub > 0
        /\ UNCHANGED <<rows, loading, selection, keyword, preSearch, showHidden, shown, requests,
                       writes, box, streamUp, chosen, missed, failed>>
    BY <1>9 DEF MessageArrives, Reconcile
  <2>2. ~loading
    BY <1>0, <2>1 DEF Untouched
  <2>3. Untouched' /\ AtHome' /\ BoxTrue' /\ ReadIsFresh'
    BY <1>0, <2>1, <2>2 DEF Untouched, AtHome, BoxTrue, ReadIsFresh, Card, Current
  <2>4. Fresh'
    BY <1>0, <2>1, TokenAssumption DEF Fresh, Due
  <2> QED BY <2>3, <2>4 DEF LInv
<1>10. CASE StreamCut
  <2>1. /\ missed' = (missed \/ hub > 0) /\ hub' = 0 /\ streamUp' = FALSE
        /\ UNCHANGED <<rows, loading, selection, keyword, preSearch, showHidden, shown, requests,
                       timer, writes, box, chosen, failed>>
    BY <1>10 DEF StreamCut
  <2>2. missed = TRUE \/ hub > 0 => missed' = TRUE
    <3>1. missed' = (missed \/ hub > 0)
      BY <2>1
    <3> QED BY <3>1, Zenon
  <2>3. Untouched' /\ AtHome' /\ BoxTrue' /\ ReadIsFresh' /\ Current' = Current
    BY <1>0, <2>1 DEF Untouched, AtHome, BoxTrue, ReadIsFresh, Card, Current
  <2>4. (Due => Due') /\ (Flip' <=> Flip)
    BY <2>1, <2>2 DEF Due, Flip
  <2>5. Fresh'
    BY <1>0, <2>1, <2>3, <2>4 DEF Fresh
  <2> QED BY <2>3, <2>5 DEF LInv
<1>11. CASE StreamBack \/ UNCHANGED pageVars
  <2>1. /\ streamUp' = streamUp \/ ~loading
        /\ UNCHANGED <<rows, loading, selection, keyword, preSearch, showHidden, shown, requests,
                       timer, writes, box, hub, chosen, missed, failed>>
    BY <1>11 DEF StreamBack, pageVars
  <2>2. Untouched' /\ AtHome' /\ BoxTrue' /\ ReadIsFresh' /\ Current' = Current
    BY <1>0, <2>1 DEF Untouched, AtHome, BoxTrue, ReadIsFresh, Card, Current
  <2>3. Fresh'
    BY <1>0, <2>1, <2>2 DEF Fresh, Due, Flip
  <2> QED BY <2>2, <2>3 DEF LInv
<1> QED
  BY <1>1, <1>2, <1>3, <1>4, <1>5, <1>6, <1>7, <1>8, <1>9, <1>10, <1>11 DEF PageNext

LEMMA InitKeeps == Init => LInv
<1> SUFFICES ASSUME Init PROVE LInv
  OBVIOUS
<1> DEFINE first == [view |-> ViewOf(Home, FALSE, FALSE), answer |-> NoAnswer, newest |-> TRUE]
<1>0. first.view = ViewOf(Home, FALSE, FALSE) /\ first.answer = NoAnswer
  OBVIOUS
<1>1. /\ Current = ViewOf(Home, FALSE, FALSE)
      /\ requests = {first} /\ writes = {} /\ timer = NoView
  BY DEF Init, Current
<1> HIDE DEF first
<1>2. Due
  BY <1>0, <1>1 DEF Due
<1>3. Untouched /\ BoxTrue
  BY TokenAssumption DEF Init, Untouched, BoxTrue
<1> QED BY <1>0, <1>1, <1>2, <1>3 DEF LInv, AtHome, ReadIsFresh, Fresh

LEMMA RestAgrees == PageTypeOK /\ LInv => ListAgrees
<1> SUFFICES ASSUME PageTypeOK, LInv, Quiet, ~missed, ~failed
             PROVE  shown = Content(ViewOf(chosen, FALSE, showHidden))
  BY DEF ListAgrees
<1>1. ViewOf(chosen, FALSE, showHidden) = Current
  BY DEF Quiet, LInv, BoxTrue, ViewOf, Current, PageTypeOK
<1>2. ~Due /\ ~Flip /\ failed = FALSE
  BY DEF Quiet, Due, Flip, PageTypeOK
<1>3. shown = Held(rows, Current)
  BY <1>2 DEF LInv, Fresh, Quiet
<1>4. Content(Current) = Held(rows, Current)
  BY DEF Content, Held, Card
<1> QED BY <1>1, <1>3, <1>4

\* Once everything has come to rest the list on the screen is the one the server has for the
\* place the user asked for, for any number of tasks, lists, writes, messages, cut streams and
\* failed requests (after a failed last request and a change nobody told of it may be old).
THEOREM ListAgreesAtRest == NoLapse => (PageSpec => []ListAgrees)
<1> SUFFICES ASSUME NoLapse PROVE PageSpec => []ListAgrees
  OBVIOUS
<1>1. Init => TInv /\ Spin /\ LInv
  BY InitTypes, InitAnswers, InitKeeps DEF TInv, Init, Spin, SpinnerTrue, OneNewest, OpenIsNewest
<1>2. TInv /\ LInv => ListAgrees
  BY RestAgrees DEF TInv
<1>3. TInv /\ Spin /\ LInv /\ [PageNext]_pageVars => LInv'
  BY StepKeeps
<1> QED BY <1>1, <1>2, <1>3, StepTypes, StepSpins, PTL DEF PageSpec


-----------------------------------------------------------------------------
(* Links between tasks: following them from a task never leads back to it.  *)

Adding == [stage : {"begun"}, adds : Links!Link, rows : SUBSET Links!Link, at : Nat]

\* A transaction that may still write has read what there is.
ReadsTrue ==
  \A c \in Clients : tx[c] # Links!NoTx =>
    tx[c].at <= commits /\ (tx[c].at = commits => tx[c].rows = links)

LinkInv ==
  /\ links \subseteq Links!Link /\ commits \in Nat
  /\ tx \in [Clients -> Adding \cup {Links!NoTx}]
  /\ ReadsTrue
  /\ \A t \in LinkTasks : t \notin Links!Chain(links, t)
  /\ \A l \in links : l.from # l.to /\ links \cap Links!Twins(l) = {l}

LEMMA BlockersAre ==
  ASSUME NEW rs \in SUBSET Links!Link, NEW t, NEW w
  PROVE  /\ w \in Links!BlockedBy(rs, t) => w \in LinkTasks
         /\ w \in Links!BlockedBy(rs, t) <=> \E l \in rs : l.kind = "blocked_by" /\ l.from = t /\ l.to = w
BY DEF Links!BlockedBy, Links!Link

\* What a task waits for is closed itself.
LEMMA ChainIsClosed ==
  ASSUME NEW rs \in SUBSET Links!Link, NEW t
  PROVE  Links!Chain(rs, t) \subseteq LinkTasks /\ Links!Closed(rs, t, Links!Chain(rs, t))
<1>1. Links!Chain(rs, t) \subseteq LinkTasks
  BY DEF Links!Chain
<1>2. Links!BlockedBy(rs, t) \subseteq Links!Chain(rs, t)
  BY BlockersAre DEF Links!Chain, Links!Closed
<1>3. ASSUME NEW v \in Links!Chain(rs, t), NEW w \in Links!BlockedBy(rs, v)
      PROVE  w \in Links!Chain(rs, t)
  BY BlockersAre DEF Links!Chain, Links!Closed
<1> QED BY <1>1, <1>2, <1>3 DEF Links!Closed

\* A closed set holds the chain.
LEMMA ChainIsLeast ==
  ASSUME NEW rs, NEW t, NEW S \in SUBSET LinkTasks, Links!Closed(rs, t, S)
  PROVE  Links!Chain(rs, t) \subseteq S
BY DEF Links!Chain

\* With fewer links, no chain is longer.
LEMMA FewerLinks ==
  ASSUME NEW rs \in SUBSET Links!Link, NEW qs \in SUBSET rs, NEW t
  PROVE  Links!Chain(qs, t) \subseteq Links!Chain(rs, t)
BY ChainIsClosed, ChainIsLeast DEF Links!BlockedBy, Links!Closed

\* A link to a task that does not lead back makes no circle.
LEMMA NoneLeadsBack ==
  ASSUME NEW rs \in SUBSET Links!Link, NEW l \in Links!Link, Links!Allowed(rs, l),
         \A t \in LinkTasks : t \notin Links!Chain(rs, t)
  PROVE  \A t \in LinkTasks : t \notin Links!Chain(rs \cup {l}, t)
<1> SUFFICES ASSUME NEW t \in LinkTasks
             PROVE  t \notin Links!Chain(rs \cup {l}, t)
  OBVIOUS
<1> DEFINE more  == rs \cup {l}
           first == l.from
           last  == l.to
           Beyond(v) == Links!Chain(rs, v)
<1>1. more \in SUBSET Links!Link /\ first \in LinkTasks /\ last \in LinkTasks
  BY DEF Links!Link
<1>2. \A v, w : w \in Links!BlockedBy(more, v) =>
        w \in Links!BlockedBy(rs, v) \/ (l.kind = "blocked_by" /\ v = first /\ w = last)
  BY DEF Links!BlockedBy
<1>3. \A v : Beyond(v) \subseteq LinkTasks /\ Links!Closed(rs, v, Beyond(v))
  BY ChainIsClosed
<1>4. CASE l.kind # "blocked_by"
  BY <1>2, <1>3, <1>4, ChainIsLeast DEF Links!Closed
<1>5. CASE l.kind = "blocked_by"
  <2>1. first # last /\ first \notin Beyond(last)
    BY <1>5 DEF Links!Allowed
  <2>2. CASE t = last \/ t \in Beyond(last)
    <3>1. Beyond(t) \subseteq Beyond(last)
      <4>1. CASE t = last
        BY <4>1
      <4>2. CASE t \in Beyond(last)
        BY <4>2, <1>3, ChainIsLeast DEF Links!Closed
      <4> QED BY <2>2, <4>1, <4>2
    <3>2. t # first /\ first \notin Beyond(t)
      BY <2>1, <2>2, <3>1
    <3>3. Links!Closed(more, t, Beyond(t))
      BY <1>2, <1>3, <3>2 DEF Links!Closed
    <3> QED BY <1>3, <3>3, ChainIsLeast
  <2>3. CASE t # last /\ t \notin Beyond(last)
    <3> DEFINE S == Beyond(t) \cup {last} \cup Beyond(last)
    <3>1. S \subseteq LinkTasks
      BY <1>1, <1>3
    <3>2. \A v : Links!BlockedBy(more, v) \subseteq Links!BlockedBy(rs, v) \cup {last}
      BY <1>2
    <3>3. Links!Closed(more, t, S)
      BY <1>3, <3>2 DEF Links!Closed
    <3>4. Links!Chain(more, t) \subseteq S
      BY <3>1, <3>3, ChainIsLeast
    <3> QED BY <2>3, <3>4
  <2> QED BY <2>2, <2>3
<1> QED BY <1>4, <1>5

\* Of a pair of twins only one is there.
LEMMA TwinsApart ==
  ASSUME NEW rs \in SUBSET Links!Link, NEW l \in Links!Link, Links!Allowed(rs, l),
         \A k \in rs : k.from # k.to /\ rs \cap Links!Twins(k) = {k}
  PROVE  \A k \in rs \cup {l} : k.from # k.to /\ (rs \cup {l}) \cap Links!Twins(k) = {k}
<1> DEFINE Turned(k) == [k EXCEPT !.from = k.to, !.to = k.from]
<1>1. \A k \in Links!Link : Turned(k) \in Links!Link /\ Turned(k).from = k.to /\ Turned(k).to = k.from /\ Turned(k).kind = k.kind
  BY DEF Links!Link
<1>2. \A k, i \in Links!Link : k.from = i.from /\ k.to = i.to /\ k.kind = i.kind => k = i
  BY DEF Links!Link
<1>3. \A k \in Links!Link : \A i : i \in Links!Twins(k) <=> i = k \/ (k.kind = "related" /\ i = Turned(k))
  BY DEF Links!Twins
<1>4. ASSUME NEW k \in Links!Link, NEW i \in Links!Link, i \in Links!Twins(k)
      PROVE  k \in Links!Twins(i)
  <2>1. CASE i = k
    BY <2>1, <1>3
  <2>2. CASE k.kind = "related" /\ i = Turned(k)
    <3>1. i.kind = "related" /\ i.from = k.to /\ i.to = k.from
      BY <2>2, <1>1
    <3>2. Turned(i) \in Links!Link /\ Turned(i).from = k.from /\ Turned(i).to = k.to /\ Turned(i).kind = k.kind
      BY <3>1, <2>2, <1>1
    <3>3. Turned(i) = k
      BY <3>2, <1>2
    <3> QED BY <3>1, <3>3, <1>3
  <2> QED BY <1>3, <1>4, <2>1, <2>2
<1>5. l.from # l.to /\ rs \cap Links!Twins(l) = {} /\ l \in Links!Twins(l)
  BY <1>3 DEF Links!Allowed
<1>6. (rs \cup {l}) \cap Links!Twins(l) = {l}
  BY <1>5
<1>7. ASSUME NEW k \in rs
      PROVE  (rs \cup {l}) \cap Links!Twins(k) = {k}
  BY <1>4, <1>5
<1> QED BY <1>5, <1>6, <1>7

\* Without some of the links all is as good.
LEMMA LinksGo ==
  ASSUME LinkInv, NEW qs \in SUBSET links, links' = links \ qs, commits' = commits + 1, UNCHANGED tx
  PROVE  LinkInv'
<1>1. links' \subseteq Links!Link /\ commits' \in Nat /\ tx' \in [Clients -> Adding \cup {Links!NoTx}]
  BY DEF LinkInv
<1>2. ASSUME NEW c \in Clients, tx[c] # Links!NoTx
      PROVE  tx[c].at < commits + 1
  BY <1>2 DEF LinkInv, ReadsTrue, Adding
<1>3. ReadsTrue'
  <2> SUFFICES ASSUME NEW c \in Clients, tx[c] # Links!NoTx
               PROVE  tx[c].at <= commits + 1 /\ tx[c].at # commits + 1
    BY DEF ReadsTrue
  <2>1. tx[c].at \in Nat /\ commits \in Nat
    BY DEF LinkInv, Adding
  <2> QED BY <1>2, <2>1
<1>4. \A t \in LinkTasks : t \notin Links!Chain(links', t)
  BY FewerLinks DEF LinkInv
<1>5. \A l \in links' : l.from # l.to /\ links' \cap Links!Twins(l) = {l}
  BY DEF LinkInv
<1> QED BY <1>1, <1>3, <1>4, <1>5 DEF LinkInv

LEMMA LinksKeep ==
  ASSUME LinkInv, Links!LinkNext
  PROVE  LinkInv'
<1>1. ASSUME NEW c \in Clients, NEW l \in Links!Link, Links!Begin(c, l)
      PROVE  LinkInv'
  <2> DEFINE n == [stage |-> "begun", adds |-> l, rows |-> links, at |-> commits]
  <2>1. tx' = [tx EXCEPT ![c] = n] /\ UNCHANGED <<links, commits>>
    BY <1>1 DEF Links!Begin
  <2>2. n \in Adding /\ n.at = commits /\ n.rows = links
    BY DEF LinkInv, Adding
  <2>3. tx' \in [Clients -> Adding \cup {Links!NoTx}]
    BY <2>1, <2>2 DEF LinkInv
  <2>4. \A b \in Clients : tx'[b] = IF b = c THEN n ELSE tx[b]
    BY <2>1 DEF LinkInv
  <2>5. commits \in Nat /\ commits <= commits
    BY DEF LinkInv
  <2>6. ReadsTrue'
    BY <2>1, <2>2, <2>4, <2>5 DEF LinkInv, ReadsTrue
  <2> QED BY <2>1, <2>3, <2>6 DEF LinkInv
<1>2. ASSUME NEW c \in Clients, Links!Ends(c)
      PROVE  /\ tx' \in [Clients -> Adding \cup {Links!NoTx}]
             /\ \A b \in Clients : tx'[b] = IF b = c THEN Links!NoTx ELSE tx[b]
  BY <1>2 DEF Links!Ends, LinkInv
<1>3. ASSUME NEW c \in Clients, Links!Refuse(c) \/ Links!Fail(c)
      PROVE  LinkInv'
  BY <1>3, <1>2 DEF Links!Refuse, Links!Fail, LinkInv, ReadsTrue
<1>4. ASSUME NEW c \in Clients, Links!Insert(c)
      PROVE  LinkInv'
  <2> DEFINE l == tx[c].adds
  <2>1. /\ tx[c] # Links!NoTx /\ tx[c].at = commits /\ Links!Allowed(tx[c].rows, l)
        /\ commits' = commits + 1 /\ links' = links \cup {l} /\ Links!Ends(c)
    BY <1>4 DEF Links!Insert, Links!Stale
  <2>2. l \in Links!Link /\ tx[c].rows = links
    BY <2>1 DEF LinkInv, ReadsTrue, Adding
  <2>3. Links!Allowed(links, l)
    BY <2>1, <2>2
  <2>4. \A t \in LinkTasks : t \notin Links!Chain(links', t)
    BY <2>1, <2>2, <2>3, NoneLeadsBack DEF LinkInv
  <2>5. \A k \in links' : k.from # k.to /\ links' \cap Links!Twins(k) = {k}
    BY <2>1, <2>2, <2>3, TwinsApart DEF LinkInv
  <2>6. ASSUME NEW b \in Clients, tx'[b] # Links!NoTx
        PROVE  tx'[b].at <= commits + 1 /\ tx'[b].at # commits + 1
    BY <2>6, <2>1, <1>2 DEF LinkInv, ReadsTrue, Adding
  <2>7. ReadsTrue'
    BY <2>1, <2>6 DEF ReadsTrue
  <2>8. links' \subseteq Links!Link /\ commits' \in Nat
    BY <2>1, <2>2 DEF LinkInv
  <2> QED BY <1>2, <2>1, <2>4, <2>5, <2>7, <2>8 DEF LinkInv
<1>5. ASSUME NEW qs \in SUBSET links, Links!Delete(qs)
      PROVE  LinkInv'
  BY <1>5, LinksGo DEF Links!Delete
<1>6. ASSUME NEW l \in links, Links!Delete({l})
      PROVE  LinkInv'
  BY <1>5, <1>6
<1>7. ASSUME NEW t \in LinkTasks, Links!Delete({l \in links : t \in {l.from, l.to}})
      PROVE  LinkInv'
  BY <1>5, <1>7
<1> QED BY <1>1, <1>3, <1>4, <1>6, <1>7 DEF Links!LinkNext

LEMMA LinksHold ==
  ASSUME LinkInv
  PROVE  Links!NoCircle
<1>1. \A l \in links : Links!Cardinality(links \cap Links!Twins(l)) = 1
  <2> SUFFICES ASSUME NEW l \in links
               PROVE  Links!Cardinality(links \cap Links!Twins(l)) = 1
    OBVIOUS
  <2>1. links \cap Links!Twins(l) = {l}
    BY DEF LinkInv
  <2>2. Links!Cardinality({l}) = Cardinality({l})
    BY Zenon DEF Links!Cardinality, Cardinality
  <2> QED BY <2>1, <2>2, FS_Singleton
<1>2. \A t \in LinkTasks : t \notin Links!Chain(links, t)
  BY DEF LinkInv
<1> QED BY <1>1, <1>2, Zenon DEF Links!NoCircle

-----------------------------------------------------------------------------
(* The tree of folders: where each belongs, what the server holds and what  *)
(* the page shows of it.                                                    *)

Spots == Folders \cup {Tree!Top}

OrgOK(o) ==
  /\ o = [live |-> o.live, parent |-> o.parent, rank |-> o.rank, folded |-> o.folded,
          home |-> o.home, flags |-> o.flags]
  /\ o.live \subseteq Folders /\ o.parent \in [Folders -> Spots]
  /\ o.home \in [TreeLists -> Spots] /\ o.flags \in [TreeLists -> SUBSET Tree!Flags]

Moves(j) == j.kind \in {"nest", "home", "delete"}
Shows(j) == j.kind \in {"fold", "sort", "flag"}

JobOK(j) ==
  /\ j = [kind |-> j.kind, id |-> j.id, to |-> j.to, line |-> j.line, prev |-> j.prev,
          flag |-> j.flag, mine |-> j.mine, stage |-> j.stage, seen |-> j.seen]
  /\ Moves(j) \/ Shows(j)
  /\ j.stage \in {"sent", "checked", "ok", "refused"} /\ j.mine \in BOOLEAN
  /\ j.kind \notin {"nest", "delete"} => j.mine /\ j.stage # "checked"
  /\ j.id \in (IF j.kind \in {"home", "flag"} THEN TreeLists ELSE Folders)
  /\ j.kind = "nest" => j.to \in Folders
  /\ j.kind = "home" => j.to \in Spots
  /\ j.kind # "flag" => j.flag = "starred"
  /\ j.kind = "flag" => j.flag \in Tree!Flags /\ j.prev \subseteq Tree!Flags

\* Requests that would get in each other's way.
Clash(i, j) ==
  \/ i.id = j.id /\ (i.kind = j.kind \/ (Moves(i) /\ Moves(j)))
  \/ i.kind = "sort" /\ j.kind = "sort"

JobsOK(js) == /\ \A j \in js : JobOK(j)
              /\ \A i, j \in js : Clash(i, j) => i = j

TreeTypes ==
  /\ OrgOK(org) /\ OrgOK(boot) /\ JobsOK(jobs)
  /\ \A b \in boots : b = [no |-> b.no, answer |-> b.answer]
  /\ untold \in BOOLEAN /\ asked \in [Folders \cup TreeLists -> Spots]

\* A bootstrap that was answered brings what there is; nothing it lacks is on its way.
AnswersTrue ==
  \A b \in boots : b.answer # NoAnswer =>
    b.answer = org /\ \A j \in jobs : Shows(j) => j.stage # "sent"

\* All folders lead to the top, and what the server has looked at is still so.
Checked(j) ==
  \/ j.kind = "nest" /\ j.id \notin Tree!Above(org, j.to)
  \/ j.kind = "delete" /\ j.id \in org.live /\ j.seen = org.parent[j.id]

TreeStands ==
  /\ \A f \in org.live : Tree!Top \in Tree!Above(org, f) /\ org.parent[f] \in org.live \cup {Tree!Top}
  /\ \A l \in TreeLists : org.home[l] \in org.live \cup {Tree!Top}
  /\ \A i, j \in jobs : i.stage = "checked" /\ j.stage = "checked" => i = j
  /\ \A j \in jobs : j.stage = "checked" => Checked(j)

\* What is not on its way is where it was asked to be, the rest will be, unless the folder is gone.
Pending(j) == j.kind \in {"nest", "home"} /\ j.stage \in {"sent", "checked"}
Place(o, x) == IF x \in Folders THEN o.parent[x] ELSE o.home[x]

AsAskedFor ==
  /\ \A x \in org.live \cup TreeLists :
       (\A j \in jobs : Pending(j) => j.id # x) => Place(org, x) = asked[x]
  /\ \A j \in jobs :
       Pending(j) /\ j.id \in org.live \cup TreeLists /\ j.to \in org.live \cup {Tree!Top}
         => asked[j.id] = j.to

\* The flags of a list are those of the server, but for the one that is on its way.
FlagsTrue ==
  /\ \A l \in TreeLists :
       (\A j \in jobs : j.kind = "flag" /\ j.id = l => j.stage = "ok") => boot.flags[l] = org.flags[l]
  /\ \A j \in jobs : j.kind = "flag" /\ j.stage # "ok" => org.flags[j.id] = j.prev
  /\ \A j \in jobs : j.kind = "flag" /\ j.stage = "sent" =>
       boot.flags[j.id] = Tree!SetFlag(j.prev, j.flag, j.to)

\* The request will be followed by a bootstrap when it lands.
Refreshes(j) ==
  /\ j.mine
  /\ \/ j.kind \in {"fold", "sort"} /\ j.stage = "refused"
     \/ j.kind \in {"home", "delete"} /\ j.stage = "ok"
     \/ j.kind = "flag" /\ j.stage = "ok"
     \/ j.kind = "nest" /\ j.stage \in {"ok", "refused"}

BootDue == boots # {} \/ untold \/ \E j \in jobs : Refreshes(j)

\* The page shows what the server holds, and what is about to be done to it.
ShownTrue ==
  /\ boot.live = org.live /\ boot.parent = org.parent /\ boot.home = org.home
  /\ \A f \in Folders :
       (\A j \in jobs : j.kind = "fold" /\ j.id = f => j.stage # "sent")
         => (f \in boot.folded <=> f \in org.folded)
  /\ \A j \in jobs : j.kind = "fold" /\ j.stage = "sent" => (j.id \in boot.folded <=> j.to = 1)
  /\ (\A j \in jobs : j.kind = "sort" => j.stage # "sent") => boot.rank = org.rank
  /\ \A j \in jobs : j.kind = "sort" /\ j.stage = "sent" => boot.rank = Tree!Sorted(org, j.line).rank

TreeInv ==
  /\ TreeTypes /\ AnswersTrue /\ TreeStands /\ AsAskedFor /\ FlagsTrue
  /\ ~BootDue => ShownTrue

LEMMA TopIsNone ==
  /\ Tree!Top \notin Folders /\ Tree!Top \in Spots
  /\ \A f \in Folders : f \in Spots /\ f # Tree!Top
  /\ Folders \cap TreeLists = {}
BY TreeAssumption DEF Spots

\* Going up from a folder one stays above it.
LEMMA AboveIsClosed ==
  ASSUME NEW o, OrgOK(o), NEW f \in Spots
  PROVE  f \in Tree!Above(o, f) /\ Tree!Above(o, f) \subseteq Spots /\ Tree!Closed(o, Tree!Above(o, f))
<1>1. f \in Tree!Above(o, f) /\ Tree!Above(o, f) \subseteq Spots
  BY DEF Tree!Above, Spots
<1>2. ASSUME NEW v \in Tree!Above(o, f) \ {Tree!Top}
      PROVE  o.parent[v] \in Tree!Above(o, f)
  <2>1. o.parent[v] \in Spots
    BY <1>1 DEF OrgOK, Spots
  <2>2. ASSUME NEW S \in SUBSET Spots, f \in S, Tree!Closed(o, S)
        PROVE  o.parent[v] \in S
    BY <2>2 DEF Tree!Above, Spots, Tree!Closed
  <2> QED BY <2>1, <2>2 DEF Tree!Above, Spots
<1> QED BY <1>1, <1>2 DEF Tree!Closed

LEMMA AboveIsLeast ==
  ASSUME NEW o, NEW f, NEW S \in SUBSET Spots, f \in S, Tree!Closed(o, S)
  PROVE  Tree!Above(o, f) \subseteq S
BY DEF Tree!Above, Spots

\* To lead to the top is to be in no closed set without it.
LEMMA LeadsToTop ==
  ASSUME NEW o, NEW f, \A S \in SUBSET Spots : f \in S /\ Tree!Closed(o, S) => Tree!Top \in S
  PROVE  Tree!Top \in Tree!Above(o, f)
BY TopIsNone DEF Tree!Above, Spots

\* A folder put into one that is not below it leaves all of them in the tree.
LEMMA MovedStands ==
  ASSUME NEW o, OrgOK(o), NEW n, NEW f \in Folders, NEW g \in Folders,
         \A v \in Folders : n.parent[v] = IF v = f THEN g ELSE o.parent[v],
         f \notin Tree!Above(o, g), Tree!Top \in Tree!Above(o, g),
         NEW x, Tree!Top \in Tree!Above(o, x)
  PROVE  Tree!Top \in Tree!Above(n, x)
<1> SUFFICES ASSUME NEW S \in SUBSET Spots, x \in S, Tree!Closed(n, S)
             PROVE  Tree!Top \in S
  BY LeadsToTop
<1>1. \A v \in Folders : n.parent[v] = IF v = f THEN g ELSE o.parent[v]
  BY DEF OrgOK
<1>2. \A v \in S \ {Tree!Top} : v \in Folders /\ n.parent[v] \in S
  BY DEF Tree!Closed, Spots
<1>3. CASE f \notin S
  BY <1>1, <1>2, <1>3, AboveIsLeast DEF Tree!Closed
<1>4. CASE f \in S
  <2> DEFINE U == S \cap Tree!Above(o, g)
  <2>1. g \in Spots /\ f # Tree!Top
    BY TopIsNone
  <2>2. g \in Tree!Above(o, g) /\ Tree!Closed(o, Tree!Above(o, g))
    BY <2>1, AboveIsClosed
  <2>3. g \in S
    BY <1>1, <1>2, <1>4, <2>1
  <2>4. ASSUME NEW v \in U \ {Tree!Top}
        PROVE  o.parent[v] \in U
    BY <1>2, <1>1, <2>2 DEF Tree!Closed
  <2>5. U \in SUBSET Spots /\ g \in U /\ Tree!Closed(o, U)
    BY <2>2, <2>3, <2>4 DEF Tree!Closed
  <2>6. Tree!Above(o, g) \subseteq U
    BY <2>5, AboveIsLeast
  <2> QED BY <2>6
<1> QED BY <1>3, <1>4

\* So does one that goes and leaves what is in it to the one above.
LEMMA EmptiedStands ==
  ASSUME NEW o, OrgOK(o), NEW n, NEW f \in Folders,
         n.parent = [g \in Folders |-> IF g # f /\ o.parent[g] = f THEN o.parent[f] ELSE o.parent[g]],
         NEW x, x # f, Tree!Top \in Tree!Above(o, x)
  PROVE  Tree!Top \in Tree!Above(n, x)
<1> SUFFICES ASSUME NEW S \in SUBSET Spots, x \in S, Tree!Closed(n, S)
             PROVE  Tree!Top \in S
  BY LeadsToTop
<1>1. \A v \in Folders : n.parent[v] = IF v # f /\ o.parent[v] = f THEN o.parent[f] ELSE o.parent[v]
  OBVIOUS
<1>2. \A v \in S \ {Tree!Top} : v \in Folders /\ n.parent[v] \in S
  BY DEF Tree!Closed, Spots
<1>3. f # Tree!Top /\ f \in Spots
  BY TopIsNone
<1>4. CASE \E v \in S \ {Tree!Top} : v # f /\ o.parent[v] = f
  <2> DEFINE U == S \cup {f}
  <2>1. o.parent[f] \in S
    BY <1>1, <1>2, <1>4
  <2>2. \A v \in U \ {Tree!Top} : o.parent[v] \in U
    BY <1>1, <1>2, <2>1
  <2>3. U \in SUBSET Spots /\ x \in U /\ Tree!Closed(o, U)
    BY <1>3, <2>2 DEF Tree!Closed
  <2>4. Tree!Top \in U
    BY <2>3, AboveIsLeast
  <2> QED BY <2>4, <1>3
<1>5. CASE ~ \E v \in S \ {Tree!Top} : v # f /\ o.parent[v] = f
  BY <1>1, <1>2, <1>5, AboveIsLeast DEF Tree!Closed
<1> QED BY <1>4, <1>5

\* No folder of the tree is in itself.
LEMMA NotInItself ==
  ASSUME NEW o, NEW f \in Folders, Tree!Top \in Tree!Above(o, f)
  PROVE  o.parent[f] # f
<1> SUFFICES ASSUME o.parent[f] = f PROVE FALSE
  OBVIOUS
<1>1. {f} \in SUBSET Spots /\ Tree!Closed(o, {f})
  BY TopIsNone DEF Tree!Closed
<1>2. Tree!Top \in {f}
  BY <1>1, AboveIsLeast
<1> QED BY <1>2, TopIsNone

LEMMA OrgWith ==
  ASSUME NEW o, OrgOK(o)
  PROVE  /\ \A p \in [Folders -> Spots] :
              LET n == [o EXCEPT !.parent = p]
              IN  /\ OrgOK(n) /\ n.parent = p /\ n.live = o.live /\ n.home = o.home
                  /\ n.folded = o.folded /\ n.rank = o.rank /\ n.flags = o.flags
         /\ \A p \in [TreeLists -> Spots] :
              LET n == [o EXCEPT !.home = p]
              IN  /\ OrgOK(n) /\ n.home = p /\ n.live = o.live /\ n.parent = o.parent
                  /\ n.folded = o.folded /\ n.rank = o.rank /\ n.flags = o.flags
         /\ \A p \in [TreeLists -> SUBSET Tree!Flags] :
              LET n == [o EXCEPT !.flags = p]
              IN  /\ OrgOK(n) /\ n.flags = p /\ n.live = o.live /\ n.parent = o.parent
                  /\ n.folded = o.folded /\ n.rank = o.rank /\ n.home = o.home
         /\ \A p :
              LET n == [o EXCEPT !.folded = p]
              IN  /\ OrgOK(n) /\ n.folded = p /\ n.live = o.live /\ n.parent = o.parent
                  /\ n.home = o.home /\ n.rank = o.rank /\ n.flags = o.flags
         /\ \A p :
              LET n == [o EXCEPT !.rank = p]
              IN  /\ OrgOK(n) /\ n.rank = p /\ n.live = o.live /\ n.parent = o.parent
                  /\ n.home = o.home /\ n.folded = o.folded /\ n.flags = o.flags
BY DEF OrgOK

LEMMA LiveWith ==
  ASSUME NEW o, OrgOK(o), NEW p \in SUBSET Folders
  PROVE  LET n == [o EXCEPT !.live = p]
         IN  OrgOK(n) /\ n.live = p /\ n.flags = o.flags
BY DEF OrgOK

LEMMA Refolded ==
  ASSUME NEW o, OrgOK(o), NEW f, NEW goal
  PROVE  LET n == [o EXCEPT !.folded = IF goal = 1 THEN @ \cup {f} ELSE @ \ {f}]
         IN  /\ OrgOK(n) /\ n.live = o.live /\ n.parent = o.parent /\ n.home = o.home
             /\ n.rank = o.rank /\ n.flags = o.flags
             /\ (f \in n.folded <=> goal = 1)
             /\ \A k : k # f => (k \in n.folded <=> k \in o.folded)
<1> DEFINE p == IF goal = 1 THEN o.folded \cup {f} ELSE o.folded \ {f}
<1>1. (f \in p <=> goal = 1) /\ \A k : k # f => (k \in p <=> k \in o.folded)
  OBVIOUS
<1> HIDE DEF p
<1> DEFINE n == [o EXCEPT !.folded = p]
<1>2. /\ OrgOK(n) /\ n.folded = p /\ n.live = o.live /\ n.parent = o.parent /\ n.home = o.home
      /\ n.rank = o.rank /\ n.flags = o.flags
  BY OrgWith
<1> HIDE DEF n
<1>3. /\ OrgOK(n) /\ n.live = o.live /\ n.parent = o.parent /\ n.home = o.home
      /\ n.rank = o.rank /\ n.flags = o.flags
      /\ (f \in n.folded <=> goal = 1)
      /\ \A k : k # f => (k \in n.folded <=> k \in o.folded)
  BY <1>1, <1>2
<1> QED BY <1>3 DEF n, p

LEMMA Reparented ==
  ASSUME NEW o, OrgOK(o), NEW f \in Folders, NEW g \in Spots
  PROVE  LET n == [o EXCEPT !.parent[f] = g]
         IN  /\ OrgOK(n) /\ n.live = o.live /\ n.home = o.home /\ n.flags = o.flags
             /\ \A k \in Folders : n.parent[k] = IF k = f THEN g ELSE o.parent[k]
<1> DEFINE p == [o.parent EXCEPT ![f] = g]
<1>1. o.parent \in [Folders -> Spots]
  BY DEF OrgOK
<1>2. p \in [Folders -> Spots] /\ \A k \in Folders : p[k] = IF k = f THEN g ELSE o.parent[k]
  BY <1>1
<1> HIDE DEF p
<1> DEFINE n == [o EXCEPT !.parent = p]
<1>3. OrgOK(n) /\ n.parent = p /\ n.live = o.live /\ n.home = o.home /\ n.flags = o.flags
  BY <1>2, OrgWith
<1> HIDE DEF n
<1>4. /\ OrgOK(n) /\ n.live = o.live /\ n.home = o.home /\ n.flags = o.flags
      /\ \A k \in Folders : n.parent[k] = IF k = f THEN g ELSE o.parent[k]
  BY <1>2, <1>3
<1> QED BY <1>4 DEF n, p

LEMMA Reflagged ==
  ASSUME NEW o, OrgOK(o), NEW l \in TreeLists, NEW flag \in Tree!Flags, NEW goal
  PROVE  LET n == [o EXCEPT !.flags[l] = Tree!SetFlag(@, flag, goal)]
         IN  /\ OrgOK(n) /\ n.live = o.live /\ n.parent = o.parent /\ n.home = o.home
             /\ n.rank = o.rank /\ n.folded = o.folded
             /\ \A k \in TreeLists : n.flags[k] = IF k = l THEN Tree!SetFlag(o.flags[l], flag, goal)
                                                  ELSE o.flags[k]
<1> DEFINE p == [o.flags EXCEPT ![l] = Tree!SetFlag(@, flag, goal)]
<1>1. o.flags \in [TreeLists -> SUBSET Tree!Flags]
  BY DEF OrgOK
<1>2. \A k \in TreeLists : p[k] = IF k = l THEN Tree!SetFlag(o.flags[l], flag, goal) ELSE o.flags[k]
  BY <1>1
<1>3. Tree!SetFlag(o.flags[l], flag, goal) \subseteq Tree!Flags
  BY <1>1 DEF Tree!SetFlag
<1>4. p \in [TreeLists -> SUBSET Tree!Flags]
  BY <1>1, <1>3
<1> HIDE DEF p
<1> DEFINE n == [o EXCEPT !.flags = p]
<1>5. /\ OrgOK(n) /\ n.flags = p /\ n.live = o.live /\ n.parent = o.parent /\ n.home = o.home
      /\ n.rank = o.rank /\ n.folded = o.folded
  BY <1>4, OrgWith
<1> HIDE DEF n
<1>6. /\ OrgOK(n) /\ n.live = o.live /\ n.parent = o.parent /\ n.home = o.home
      /\ n.rank = o.rank /\ n.folded = o.folded
      /\ \A k \in TreeLists : n.flags[k] = IF k = l THEN Tree!SetFlag(o.flags[l], flag, goal)
                                           ELSE o.flags[k]
  BY <1>2, <1>5
<1> QED BY <1>6 DEF n, p

LEMMA JobWith ==
  ASSUME NEW j, JobOK(j), NEW s \in {"sent", "checked", "ok", "refused"}
  PROVE  LET i == [j EXCEPT !.stage = s]
         IN  /\ i.kind = j.kind /\ i.id = j.id /\ i.to = j.to /\ i.line = j.line /\ i.prev = j.prev
             /\ i.flag = j.flag /\ i.mine = j.mine /\ i.stage = s /\ i.seen = j.seen
             /\ (s = "checked" => j.kind \in {"nest", "delete"}) => JobOK(i)
BY DEF JobOK, Moves, Shows

LEMMA JobAdded ==
  ASSUME NEW js, JobsOK(js), NEW n, JobOK(n), \A j \in js : ~Clash(j, n)
  PROVE  JobsOK(js \cup {n})
BY DEF Clash, JobsOK

LEMMA JobTurned ==
  ASSUME NEW js, JobsOK(js), NEW j \in js, NEW i, JobOK(i), i.kind = j.kind, i.id = j.id
  PROVE  JobsOK((js \ {j}) \cup {i}) /\ \A k \in js \ {j} : ~Clash(k, i)
BY JobAdded DEF JobsOK, Clash, Moves

\* The request that is sent.
New(kind, id, goal, line, flag, mine) ==
  [kind |-> kind, id |-> id, to |-> goal, line |-> line, flag |-> flag, mine |-> mine,
   prev |-> IF kind = "flag" THEN boot.flags[id] ELSE {}, stage |-> "sent", seen |-> Tree!Top]

LEMMA NewIs ==
  ASSUME NEW kind, NEW id, NEW goal, NEW line, NEW flag, NEW mine,
         Tree!Send(kind, id, goal, line, flag, mine)
  PROVE  LET n == New(kind, id, goal, line, flag, mine)
         IN  /\ jobs' = jobs \cup {n}
             /\ n.kind = kind /\ n.id = id /\ n.to = goal /\ n.line = line /\ n.flag = flag
             /\ n.mine = mine /\ n.stage = "sent"
             /\ n.prev = IF kind = "flag" THEN boot.flags[id] ELSE {}
             /\ n = [kind |-> n.kind, id |-> n.id, to |-> n.to, line |-> n.line, prev |-> n.prev,
                     flag |-> n.flag, mine |-> n.mine, stage |-> n.stage, seen |-> n.seen]
BY DEF Tree!Send, New

\* Moving or deleting what is not on its way.
LEMMA MoveIsSent ==
  ASSUME TreeTypes, NEW kind \in {"nest", "home", "delete"}, NEW id, NEW goal, NEW mine \in BOOLEAN,
         Tree!Settled(id), Tree!Send(kind, id, goal, <<>>, "starred", mine),
         kind = "home" => id \in TreeLists /\ goal \in Spots /\ mine = TRUE,
         kind # "home" => id \in Folders, kind = "nest" => goal \in Folders
  PROVE  LET n == New(kind, id, goal, <<>>, "starred", mine)
         IN  JobsOK(jobs') /\ \A j \in jobs : j.id = id => Shows(j)
<1> DEFINE n == New(kind, id, goal, <<>>, "starred", mine)
<1>1. \A j \in jobs : j.id = id => Shows(j)
  BY DEF Tree!Settled, Shows
<1>2. JobOK(n)
  BY NewIs DEF JobOK, Moves
<1>3. n.kind = kind /\ n.id = id /\ jobs' = jobs \cup {n}
  BY NewIs
<1>4. \A j \in jobs : ~Clash(j, n)
  BY <1>1, <1>3 DEF Clash, Shows, Moves
<1> QED BY <1>1, <1>2, <1>3, <1>4, JobAdded DEF TreeTypes

\* Asking for a folder or list to be elsewhere.
LEMMA AskingKeeps ==
  ASSUME TreeInv, NEW kind \in {"nest", "home"}, NEW id, NEW goal, NEW mine \in BOOLEAN,
         Tree!Settled(id), Tree!Send(kind, id, goal, <<>>, "starred", mine),
         kind = "home" => id \in TreeLists /\ goal \in Spots /\ mine = TRUE,
         kind = "nest" => id \in Folders /\ goal \in Folders,
         asked' = [asked EXCEPT ![id] = goal], UNCHANGED <<org, boot, boots, untold>>
  PROVE  TreeInv'
<1> DEFINE n == New(kind, id, goal, <<>>, "starred", mine)
<1>1. TreeTypes
  BY DEF TreeInv
<1>2. JobsOK(jobs') /\ \A j \in jobs : j.id = id => Shows(j)
  BY <1>1, MoveIsSent
<1>3. jobs' = jobs \cup {n} /\ n.kind = kind /\ n.id = id /\ n.to = goal /\ n.stage = "sent"
  BY NewIs
<1>4. id \in Folders \cup TreeLists /\ goal \in Spots
  BY TopIsNone
<1>5. /\ asked' \in [Folders \cup TreeLists -> Spots]
      /\ \A x \in Folders \cup TreeLists : asked'[x] = IF x = id THEN goal ELSE asked[x]
  BY <1>1, <1>4 DEF TreeTypes
<1>6. TreeTypes'
  BY <1>1, <1>2, <1>5 DEF TreeTypes
<1>7. AnswersTrue'
  BY <1>3 DEF TreeInv, AnswersTrue, Shows
<1>8. TreeStands'
  BY <1>3 DEF TreeInv, TreeStands, Checked
<1>9. AsAskedFor'
  <2>1. org.live \subseteq Folders
    BY <1>1 DEF TreeTypes, OrgOK
  <2>2. ASSUME NEW x \in org.live \cup TreeLists, \A j \in jobs' : Pending(j) => j.id # x
        PROVE  Place(org, x) = asked'[x]
    BY <1>3, <2>2, <1>5, <2>1 DEF Pending, TreeInv, AsAskedFor
  <2>3. ASSUME NEW j \in jobs', Pending(j), j.id \in org.live \cup TreeLists,
               j.to \in org.live \cup {Tree!Top}
        PROVE  asked'[j.id] = j.to
    <3>1. CASE j = n
      BY <3>1, <1>3, <1>4, <1>5
    <3>2. CASE j \in jobs
      BY <1>2, <2>3, <3>2, <1>5, <2>1 DEF Pending, Shows, TreeInv, AsAskedFor
    <3> QED BY <1>3, <2>3, <3>1, <3>2
  <2> QED BY <2>2, <2>3 DEF AsAskedFor, Place, Pending
<1>10. FlagsTrue'
  BY <1>3 DEF TreeInv, FlagsTrue
<1>11. ~BootDue' => ShownTrue'
  <2> SUFFICES ASSUME ~BootDue' PROVE ShownTrue'
    OBVIOUS
  <2>1. ~BootDue
    BY <1>3 DEF BootDue, Refreshes
  <2> QED BY <1>3, <2>1 DEF TreeInv, ShownTrue
<1> QED BY <1>6, <1>7, <1>8, <1>9, <1>10, <1>11 DEF TreeInv

\* Asking for a folder to be deleted.
LEMMA DeletingKeeps ==
  ASSUME TreeInv, NEW id \in Folders, NEW mine \in BOOLEAN,
         Tree!Settled(id), Tree!Send("delete", id, Tree!Top, <<>>, "starred", mine),
         UNCHANGED <<org, boot, boots, untold, asked>>
  PROVE  TreeInv'
<1> DEFINE n == New("delete", id, Tree!Top, <<>>, "starred", mine)
<1>1. TreeTypes
  BY DEF TreeInv
<1>2. JobsOK(jobs')
  BY <1>1, MoveIsSent
<1>3. jobs' = jobs \cup {n} /\ n.kind = "delete" /\ n.stage = "sent"
  BY NewIs
<1>6. TreeTypes'
  BY <1>1, <1>2 DEF TreeTypes
<1>7. AnswersTrue'
  BY <1>3 DEF TreeInv, AnswersTrue, Shows
<1>8. TreeStands'
  BY <1>3 DEF TreeInv, TreeStands, Checked
<1>9. AsAskedFor'
  BY <1>3 DEF TreeInv, AsAskedFor, Place, Pending
<1>10. FlagsTrue'
  BY <1>3 DEF TreeInv, FlagsTrue
<1>11. ~BootDue' => ShownTrue'
  <2> SUFFICES ASSUME ~BootDue' PROVE ShownTrue'
    OBVIOUS
  <2>1. ~BootDue
    BY <1>3 DEF BootDue, Refreshes
  <2> QED BY <1>3, <2>1 DEF TreeInv, ShownTrue
<1> QED BY <1>6, <1>7, <1>8, <1>9, <1>10, <1>11 DEF TreeInv

LEMMA DropIntoKeeps ==
  ASSUME TreeInv, NEW f \in Folders, NEW g \in Folders, Tree!DropInto(f, g)
  PROVE  TreeInv'
BY AskingKeeps DEF Tree!DropInto

LEMMA MoveListKeeps ==
  ASSUME TreeInv, NEW l \in TreeLists, NEW goal \in Spots, Tree!MoveList(l, goal)
  PROVE  TreeInv'
BY AskingKeeps DEF Tree!MoveList

LEMMA DeleteKeeps ==
  ASSUME TreeInv, NEW f \in Folders, Tree!Delete(f)
  PROVE  TreeInv'
BY DeletingKeeps DEF Tree!Delete

LEMMA OtherDeviceKeeps ==
  ASSUME TreeInv, NEW f \in Folders, NEW g \in Folders, Tree!OtherDevice(f, g)
  PROVE  TreeInv'
BY DeletingKeeps, AskingKeeps DEF Tree!OtherDevice

\* The dialog sends nothing for a folder that stays at the top.
LEMMA SaveDialogKeeps ==
  ASSUME TreeInv, NEW f \in Folders, NEW goal \in Spots, Tree!SaveDialog(f, goal)
  PROVE  TreeInv'
<1>1. /\ Tree!Settled(f) /\ (goal # Tree!Top \/ boot.parent[f] = Tree!Top)
      /\ IF goal # Tree!Top THEN Tree!Send("nest", f, goal, <<>>, "starred", TRUE) ELSE UNCHANGED jobs
      /\ asked' = [asked EXCEPT ![f] = goal] /\ UNCHANGED <<org, boot, boots, untold>>
  BY DEF Tree!SaveDialog
<1>2. CASE goal # Tree!Top
  BY <1>2, <1>1, AskingKeeps DEF Spots
<1>3. CASE goal = Tree!Top
  <2>1. UNCHANGED jobs
    BY <1>1, <1>3
  <2>2. org.parent[f] = Tree!Top /\ \A j \in jobs : j.id = f => Shows(j)
    BY <1>1, <1>3 DEF Tree!Settled, Shows
  <2>3. TreeTypes /\ org.live \subseteq Folders
    BY DEF TreeInv, TreeTypes, OrgOK
  <2>4. /\ asked' \in [Folders \cup TreeLists -> Spots]
        /\ \A x \in Folders \cup TreeLists : asked'[x] = IF x = f THEN goal ELSE asked[x]
    BY <1>1, <2>3 DEF TreeTypes
  <2>5. TreeTypes'
    BY <1>1, <2>1, <2>3, <2>4 DEF TreeTypes
  <2>6. AsAskedFor'
    <3>1. ASSUME NEW x \in org.live \cup TreeLists, \A j \in jobs : Pending(j) => j.id # x
          PROVE  Place(org, x) = asked'[x]
      BY <2>2, <2>4, <1>3, <3>1, <2>3 DEF Place, TreeInv, AsAskedFor
    <3>2. ASSUME NEW j \in jobs, Pending(j), j.id \in org.live \cup TreeLists,
                 j.to \in org.live \cup {Tree!Top}
          PROVE  asked'[j.id] = j.to
      BY <2>2, <3>2, <2>3, <2>4 DEF Pending, Shows, TreeInv, AsAskedFor
    <3> QED BY <1>1, <2>1, <3>1, <3>2 DEF AsAskedFor, Place, Pending
  <2>7. AnswersTrue' /\ TreeStands' /\ FlagsTrue'
    BY <1>1, <2>1 DEF TreeInv, AnswersTrue, TreeStands, Checked, FlagsTrue
  <2>8. ~BootDue' => ShownTrue'
    BY <1>1, <2>1 DEF TreeInv, BootDue, ShownTrue
  <2> QED BY <2>5, <2>6, <2>7, <2>8 DEF TreeInv
<1> QED BY <1>2, <1>3

\* What is seen at once: the server learns of it, nothing moves.
LEMMA ShowingKeeps ==
  ASSUME TreeInv, Tree!Calm, NEW n, JobOK(n), Shows(n), n.stage = "sent", jobs' = jobs \cup {n},
         \A j \in jobs : ~Clash(j, n), OrgOK(boot'), UNCHANGED <<org, boots, untold, asked>>
  PROVE  /\ TreeTypes' /\ AnswersTrue' /\ TreeStands' /\ AsAskedFor'
         /\ ~BootDue' => ~BootDue /\ ShownTrue
<1>1. TreeTypes'
  BY JobAdded DEF TreeInv, TreeTypes
<1>2. AnswersTrue'
  BY DEF Tree!Calm, AnswersTrue
<1>3. TreeStands'
  BY DEF TreeInv, TreeStands, Checked
<1>4. AsAskedFor'
  BY DEF TreeInv, AsAskedFor, Place, Pending, Shows
<1>5. ~BootDue' => ~BootDue
  BY DEF BootDue, Refreshes
<1> QED BY <1>1, <1>2, <1>3, <1>4, <1>5 DEF TreeInv

LEMMA FoldKeeps ==
  ASSUME TreeInv, NEW f \in Folders, Tree!Fold(f)
  PROVE  TreeInv'
<1> DEFINE goal == IF f \notin boot.folded THEN 1 ELSE 0
           more == IF f \notin boot.folded THEN boot.folded \cup {f} ELSE boot.folded \ {f}
           n    == New("fold", f, goal, <<>>, "starred", TRUE)
<1>1. /\ Tree!Calm /\ Tree!Send("fold", f, goal, <<>>, "starred", TRUE)
      /\ boot' = [boot EXCEPT !.folded = more] /\ UNCHANGED <<org, boots, untold, asked>>
  BY DEF Tree!Fold
<1>9. (f \in more <=> goal = 1) /\ \A k : k # f => (k \in more <=> k \in boot.folded)
  OBVIOUS
<1> HIDE DEF goal, more
<1>2. /\ OrgOK(boot') /\ boot'.folded = more /\ boot'.live = boot.live /\ boot'.parent = boot.parent
      /\ boot'.home = boot.home /\ boot'.rank = boot.rank /\ boot'.flags = boot.flags
  <2>1. OrgOK(boot)
    BY DEF TreeInv, TreeTypes
  <2> DEFINE m == [boot EXCEPT !.folded = more]
  <2>2. /\ OrgOK(m) /\ m.folded = more /\ m.live = boot.live /\ m.parent = boot.parent
        /\ m.home = boot.home /\ m.rank = boot.rank /\ m.flags = boot.flags
    BY <2>1, OrgWith
  <2>3. boot' = m
    BY <1>1
  <2> HIDE DEF m
  <2> QED BY <2>2, <2>3
<1>3. /\ jobs' = jobs \cup {n} /\ n.kind = "fold" /\ n.id = f /\ n.to = goal /\ n.stage = "sent"
      /\ n.flag = "starred" /\ Shows(n) /\ JobOK(n)
  <2>1. jobs' = jobs \cup {n}
    BY <1>1 DEF Tree!Send, New
  <2>2. /\ n.kind = "fold" /\ n.id = f /\ n.to = goal /\ n.stage = "sent"
        /\ n.flag = "starred" /\ n.mine = TRUE
    BY DEF New
  <2>3. n = [kind |-> n.kind, id |-> n.id, to |-> n.to, line |-> n.line, prev |-> n.prev,
             flag |-> n.flag, mine |-> n.mine, stage |-> n.stage, seen |-> n.seen]
    BY DEF New
  <2> HIDE DEF n
  <2> QED BY <2>1, <2>2, <2>3 DEF JobOK, Shows
<1>4. \A j \in jobs : j.kind = "fold" => j.id # f
  BY <1>1 DEF Tree!Send, TreeInv, TreeTypes, JobsOK, JobOK
<1>5. \A j \in jobs : ~Clash(j, n)
  BY <1>3, <1>4 DEF Clash, Moves
<1>6. /\ TreeTypes' /\ AnswersTrue' /\ TreeStands' /\ AsAskedFor'
      /\ ~BootDue' => ~BootDue /\ ShownTrue
  BY <1>1, <1>2, <1>3, <1>5, ShowingKeeps
<1>7. FlagsTrue'
  BY <1>1, <1>2, <1>3 DEF TreeInv, FlagsTrue
<1>8. ~BootDue' => ShownTrue'
  <2> SUFFICES ASSUME ShownTrue PROVE ShownTrue'
    BY <1>6
  <2>1. ASSUME NEW k \in Folders, \A j \in jobs' : j.kind = "fold" /\ j.id = k => j.stage # "sent"
        PROVE  k \in boot'.folded <=> k \in org.folded
    BY <2>1, <1>3, <1>2, <1>9 DEF ShownTrue
  <2>2. ASSUME NEW j \in jobs', j.kind = "fold", j.stage = "sent"
        PROVE  j.id \in boot'.folded <=> j.to = 1
    <3>1. CASE j = n
      BY <3>1, <1>2, <1>3, <1>9
    <3>2. CASE j \in jobs
      BY <2>2, <3>2, <1>4, <1>2, <1>9 DEF ShownTrue
    <3> QED BY <1>3, <2>2, <3>1, <3>2
  <2>3. (\A j \in jobs' : j.kind = "sort" => j.stage # "sent") => boot'.rank = org.rank
    BY <1>2, <1>3 DEF ShownTrue
  <2>4. \A j \in jobs' : j.kind = "sort" /\ j.stage = "sent" => boot'.rank = Tree!Sorted(org, j.line).rank
    BY <1>2, <1>3 DEF ShownTrue
  <2> QED BY <1>1, <1>2, <2>1, <2>2, <2>3, <2>4 DEF ShownTrue
<1> QED BY <1>6, <1>7, <1>8 DEF TreeInv

LEMMA SortedIs ==
  ASSUME NEW o, OrgOK(o), NEW line
  PROVE  LET n == Tree!Sorted(o, line)
         IN  /\ OrgOK(n) /\ n.live = o.live /\ n.parent = o.parent /\ n.home = o.home
             /\ n.folded = o.folded /\ n.flags = o.flags
             /\ n.rank = [f \in Folders |-> IF f \in Tree!Listed(line) THEN Tree!PlaceIn(line, f)
                                            ELSE o.rank[f]]
BY OrgWith DEF Tree!Sorted

LEMMA SortedSame ==
  ASSUME NEW o, OrgOK(o), NEW n, OrgOK(n), n.rank = o.rank, NEW line
  PROVE  Tree!Sorted(n, line).rank = Tree!Sorted(o, line).rank
<1>1. /\ Tree!Sorted(o, line).rank = [k \in Folders |-> IF k \in Tree!Listed(line) THEN Tree!PlaceIn(line, k) ELSE o.rank[k]]
      /\ Tree!Sorted(n, line).rank = [k \in Folders |-> IF k \in Tree!Listed(line) THEN Tree!PlaceIn(line, k) ELSE n.rank[k]]
  BY SortedIs, Zenon
<1> QED BY <1>1

LEMMA SortKeeps ==
  ASSUME TreeInv, NEW f \in Folders, NEW g \in Folders, Tree!Sort(f, g)
  PROVE  TreeInv'
<1> DEFINE line == Tree!Resorted(boot, f, g)
           n    == New("sort", f, Tree!Top, line, "starred", TRUE)
<1>1. /\ Tree!Calm /\ Tree!Send("sort", f, Tree!Top, line, "starred", TRUE)
      /\ boot' = Tree!Sorted(boot, line) /\ UNCHANGED <<org, boots, untold, asked>>
  BY DEF Tree!Sort
<1> HIDE DEF line
<1>2. /\ OrgOK(boot') /\ boot'.folded = boot.folded /\ boot'.live = boot.live /\ boot'.parent = boot.parent
      /\ boot'.home = boot.home /\ boot'.flags = boot.flags
  BY <1>1, SortedIs DEF TreeInv, TreeTypes
<1>3. /\ jobs' = jobs \cup {n} /\ n.kind = "sort" /\ n.line = line /\ n.stage = "sent"
      /\ Shows(n) /\ JobOK(n)
  <2>1. jobs' = jobs \cup {n}
    BY <1>1 DEF Tree!Send, New
  <2>2. /\ n.kind = "sort" /\ n.id = f /\ n.line = line /\ n.stage = "sent"
        /\ n.flag = "starred" /\ n.mine = TRUE
    BY DEF New
  <2>3. n = [kind |-> n.kind, id |-> n.id, to |-> n.to, line |-> n.line, prev |-> n.prev,
             flag |-> n.flag, mine |-> n.mine, stage |-> n.stage, seen |-> n.seen]
    BY DEF New
  <2> HIDE DEF n
  <2> QED BY <2>1, <2>2, <2>3 DEF JobOK, Shows
<1>4. \A j \in jobs : j.kind # "sort"
  BY <1>1 DEF Tree!Send
<1>5. \A j \in jobs : ~Clash(j, n)
  BY <1>3, <1>4 DEF Clash, Moves
<1>6. /\ TreeTypes' /\ AnswersTrue' /\ TreeStands' /\ AsAskedFor'
      /\ ~BootDue' => ~BootDue /\ ShownTrue
  BY <1>1, <1>2, <1>3, <1>5, ShowingKeeps
<1>7. FlagsTrue'
  BY <1>1, <1>2, <1>3 DEF TreeInv, FlagsTrue
<1>8. ~BootDue' => ShownTrue'
  <2> SUFFICES ASSUME ShownTrue PROVE ShownTrue'
    BY <1>6
  <2>1. boot.rank = org.rank
    BY <1>4 DEF ShownTrue
  <2>2. boot'.rank = Tree!Sorted(org, line).rank
    <3>1. OrgOK(boot) /\ OrgOK(org)
      BY DEF TreeInv, TreeTypes
    <3> QED BY <1>1, <2>1, <3>1, SortedSame, Zenon
  <2>3. \A j \in jobs' : j.kind = "sort" => j = n
    BY <1>3, <1>4
  <2>4. \A j \in jobs' : j.kind = "sort" /\ j.stage = "sent" => boot'.rank = Tree!Sorted(org, j.line).rank
    BY <1>3, <2>2, <2>3
  <2>5. ~ \A j \in jobs' : j.kind = "sort" => j.stage # "sent"
    BY <1>3
  <2>6. \A k \in Folders :
          (\A j \in jobs' : j.kind = "fold" /\ j.id = k => j.stage # "sent")
            => (k \in boot'.folded <=> k \in org.folded)
    BY <1>2, <1>3 DEF ShownTrue
  <2>7. \A j \in jobs' : j.kind = "fold" /\ j.stage = "sent" => (j.id \in boot'.folded <=> j.to = 1)
    BY <1>2, <1>3 DEF ShownTrue
  <2> QED BY <1>1, <1>2, <2>4, <2>5, <2>6, <2>7, Zenon DEF ShownTrue
<1> QED BY <1>6, <1>7, <1>8 DEF TreeInv

LEMMA FlagKeeps ==
  ASSUME TreeInv, NEW l \in TreeLists, NEW flag \in Tree!Flags, Tree!Flag(l, flag)
  PROVE  TreeInv'
<1> DEFINE goal == IF flag \in boot.flags[l] THEN 0 ELSE 1
           next == Tree!SetFlag(boot.flags[l], flag, goal)
           n    == New("flag", l, goal, <<>>, flag, TRUE)
<1>1. /\ Tree!Calm /\ Tree!Send("flag", l, goal, <<>>, flag, TRUE)
      /\ boot' = [boot EXCEPT !.flags[l] = next] /\ UNCHANGED <<org, boots, untold, asked>>
  BY DEF Tree!Flag
<1>2. OrgOK(boot) /\ boot.flags \in [TreeLists -> SUBSET Tree!Flags] /\ next \subseteq Tree!Flags
  BY DEF TreeInv, TreeTypes, OrgOK, Tree!SetFlag
<1>3. /\ OrgOK(boot') /\ boot'.flags = [boot.flags EXCEPT ![l] = next] /\ boot'.live = boot.live
      /\ boot'.parent = boot.parent /\ boot'.home = boot.home /\ boot'.rank = boot.rank
      /\ boot'.folded = boot.folded
  <2>1. [boot.flags EXCEPT ![l] = next] \in [TreeLists -> SUBSET Tree!Flags]
    BY <1>2
  <2> HIDE DEF next
  <2>2. boot' = [boot EXCEPT !.flags = [boot.flags EXCEPT ![l] = next]]
    BY <1>1
  <2> QED BY <1>2, <2>1, <2>2, OrgWith
<1>4. /\ jobs' = jobs \cup {n} /\ n.kind = "flag" /\ n.id = l /\ n.to = goal /\ n.stage = "sent"
      /\ n.flag = flag /\ n.prev = boot.flags[l] /\ Shows(n) /\ JobOK(n)
  <2> HIDE DEF goal
  <2>1. jobs' = jobs \cup {n}
    BY <1>1 DEF Tree!Send, New
  <2>2. /\ n.kind = "flag" /\ n.id = l /\ n.to = goal /\ n.stage = "sent"
        /\ n.flag = flag /\ n.mine = TRUE /\ n.prev = boot.flags[l]
    BY DEF New
  <2>3. n = [kind |-> n.kind, id |-> n.id, to |-> n.to, line |-> n.line, prev |-> n.prev,
             flag |-> n.flag, mine |-> n.mine, stage |-> n.stage, seen |-> n.seen]
    BY DEF New
  <2> HIDE DEF n
  <2> QED BY <1>2, <2>1, <2>2, <2>3 DEF JobOK, Shows
<1>5. \A j \in jobs : j.id # l
  BY <1>1 DEF Tree!Send
<1>6. \A j \in jobs : ~Clash(j, n)
  BY <1>4, <1>5 DEF Clash, Moves
<1>7. /\ TreeTypes' /\ AnswersTrue' /\ TreeStands' /\ AsAskedFor'
      /\ ~BootDue' => ~BootDue /\ ShownTrue
  BY <1>1, <1>3, <1>4, <1>6, ShowingKeeps
<1>8. FlagsTrue'
  <2>1. boot.flags[l] = org.flags[l]
    BY <1>5 DEF TreeInv, FlagsTrue
  <2>2. \A k \in TreeLists : boot'.flags[k] = IF k = l THEN next ELSE boot.flags[k]
    BY <1>2, <1>3
  <2>3. ASSUME NEW k \in TreeLists, \A j \in jobs' : j.kind = "flag" /\ j.id = k => j.stage = "ok"
        PROVE  boot'.flags[k] = org.flags[k]
    BY <1>4, <2>3, <2>2 DEF TreeInv, FlagsTrue
  <2>4. ASSUME NEW j \in jobs', j.kind = "flag", j.stage # "ok"
        PROVE  org.flags[j.id] = j.prev
    BY <1>4, <2>1, <2>4 DEF TreeInv, FlagsTrue
  <2>5. ASSUME NEW j \in jobs', j.kind = "flag", j.stage = "sent"
        PROVE  boot'.flags[j.id] = Tree!SetFlag(j.prev, j.flag, j.to)
    <3>1. CASE j = n
      BY <1>4, <2>2, <3>1
    <3>2. CASE j \in jobs
      BY <1>5, <2>5, <3>2, <2>2 DEF TreeInv, TreeTypes, JobsOK, JobOK, FlagsTrue
    <3> QED BY <1>4, <2>5, <3>1, <3>2
  <2> QED BY <1>1, <2>3, <2>4, <2>5 DEF FlagsTrue
<1>9. ~BootDue' => ShownTrue'
  <2> SUFFICES ASSUME ShownTrue PROVE ShownTrue'
    BY <1>7
  <2> QED BY <1>1, <1>3, <1>4 DEF ShownTrue
<1> QED BY <1>7, <1>8, <1>9 DEF TreeInv

\* A request that is refused, by the server or on its way.
LEMMA RefusedKeeps ==
  ASSUME TreeInv, NEW j \in jobs, j.stage \in {"sent", "checked"}, Tree!Refuse(j),
         UNCHANGED <<boot, boots>>, untold' \in BOOLEAN, untold => untold'
  PROVE  TreeInv'
<1> DEFINE i == [j EXCEPT !.stage = "refused"]
<1>1. TreeTypes /\ JobOK(j)
  BY DEF TreeInv, TreeTypes, JobsOK
<1>2. /\ i.kind = j.kind /\ i.id = j.id /\ i.to = j.to /\ i.line = j.line /\ i.prev = j.prev
      /\ i.flag = j.flag /\ i.mine = j.mine /\ i.stage = "refused" /\ JobOK(i)
  BY <1>1, JobWith
<1>3. jobs' = (jobs \ {j}) \cup {i} /\ UNCHANGED org
  BY DEF Tree!Refuse, Tree!Becomes
<1>4. asked' = IF j.kind \in {"nest", "home"} THEN [asked EXCEPT ![j.id] = Place(org, j.id)] ELSE asked
  BY <1>1, TopIsNone DEF JobOK, Tree!Refuse, Place
<1> HIDE DEF i
<1>5. JobsOK(jobs') /\ \A k \in jobs \ {j} : ~Clash(k, i)
  BY <1>1, <1>2, <1>3, JobTurned DEF TreeTypes
<1>6. j.id \in Folders \cup TreeLists /\ Place(org, j.id) \in Spots
  BY <1>1 DEF JobOK, TreeTypes, OrgOK, Place
<1>7. /\ asked' \in [Folders \cup TreeLists -> Spots]
      /\ \A x \in Folders \cup TreeLists :
           asked'[x] = IF x = j.id /\ j.kind \in {"nest", "home"} THEN Place(org, x) ELSE asked[x]
  BY <1>1, <1>4, <1>6 DEF TreeTypes
<1>8. TreeTypes'
  BY <1>1, <1>3, <1>5, <1>7 DEF TreeTypes
<1>9. AnswersTrue'
  BY <1>2, <1>3 DEF TreeInv, AnswersTrue, Shows
<1>10. TreeStands'
  BY <1>2, <1>3 DEF TreeInv, TreeStands, Checked
<1>11. AsAskedFor'
  <2>1. org.live \subseteq Folders
    BY <1>1 DEF TreeTypes, OrgOK
  <2>2. ASSUME NEW x \in org.live \cup TreeLists, \A k \in jobs' : Pending(k) => k.id # x
        PROVE  Place(org, x) = asked'[x]
    <3>1. CASE x = j.id /\ j.kind \in {"nest", "home"}
      BY <3>1, <1>7, <2>1
    <3>2. CASE ~(x = j.id /\ j.kind \in {"nest", "home"})
      BY <1>3, <2>2, <3>2, <1>7, <2>1 DEF Pending, TreeInv, AsAskedFor
    <3> QED BY <3>1, <3>2
  <2>3. ASSUME NEW k \in jobs', Pending(k), k.id \in org.live \cup TreeLists,
               k.to \in org.live \cup {Tree!Top}
        PROVE  asked'[k.id] = k.to
    BY <1>2, <1>3, <2>3, <1>5, <1>7, <2>1 DEF Pending, Clash, Moves, TreeInv, AsAskedFor
  <2> QED BY <1>3, <2>2, <2>3 DEF AsAskedFor, Place, Pending
<1>12. FlagsTrue'
  BY <1>2, <1>3 DEF TreeInv, FlagsTrue
<1>13. ~BootDue' => ShownTrue'
  <2> SUFFICES ASSUME ~BootDue' PROVE ShownTrue'
    OBVIOUS
  <2>1. ~Refreshes(i) /\ ~BootDue
    BY <1>3 DEF BootDue, Refreshes
  <2>2. j.kind \notin {"fold", "sort"}
    BY <1>1, <1>2, <2>1 DEF Refreshes, JobOK
  <2>3. ShownTrue
    BY <2>1 DEF TreeInv
  <2>4. \A k : (k \in jobs /\ k.kind \in {"fold", "sort"}) <=> (k \in jobs' /\ k.kind \in {"fold", "sort"})
    BY <1>2, <1>3, <2>2
  <2>5. \A f \in Folders :
          (\A k \in jobs' : k.kind = "fold" /\ k.id = f => k.stage # "sent")
            => (f \in boot.folded <=> f \in org.folded)
    BY <2>3, <2>4 DEF ShownTrue
  <2>6. \A k \in jobs' : k.kind = "fold" /\ k.stage = "sent" => (k.id \in boot.folded <=> k.to = 1)
    BY <2>3, <2>4 DEF ShownTrue
  <2>7. (\A k \in jobs' : k.kind = "sort" => k.stage # "sent") => boot.rank = org.rank
    BY <2>3, <2>4 DEF ShownTrue
  <2>8. \A k \in jobs' : k.kind = "sort" /\ k.stage = "sent" => boot.rank = Tree!Sorted(org, k.line).rank
    BY <2>3, <2>4 DEF ShownTrue
  <2> QED BY <1>3, <2>3, <2>5, <2>6, <2>7, <2>8 DEF ShownTrue
<1> QED BY <1>8, <1>9, <1>10, <1>11, <1>12, <1>13 DEF TreeInv

LEMMA JobChecked ==
  ASSUME NEW j, JobOK(j), j.kind \in {"nest", "delete"}, NEW past
  PROVE  LET i == [j EXCEPT !.stage = "checked", !.seen = past]
         IN  /\ i.kind = j.kind /\ i.id = j.id /\ i.to = j.to /\ i.line = j.line /\ i.prev = j.prev
             /\ i.flag = j.flag /\ i.mine = j.mine /\ i.stage = "checked" /\ i.seen = past /\ JobOK(i)
<1> DEFINE i == [j EXCEPT !.stage = "checked", !.seen = past]
<1>1. i = [kind |-> j.kind, id |-> j.id, to |-> j.to, line |-> j.line, prev |-> j.prev,
           flag |-> j.flag, mine |-> j.mine, stage |-> "checked", seen |-> past]
  <2> DEFINE m == [j EXCEPT !.stage = "checked"]
  <2>1. m = [kind |-> j.kind, id |-> j.id, to |-> j.to, line |-> j.line, prev |-> j.prev,
             flag |-> j.flag, mine |-> j.mine, stage |-> "checked", seen |-> j.seen]
    BY DEF JobOK
  <2>2. i = [m EXCEPT !.seen = past]
    OBVIOUS
  <2> HIDE DEF m
  <2> QED BY <2>1, <2>2
<1> HIDE DEF i
<1>2. /\ i.kind = j.kind /\ i.id = j.id /\ i.to = j.to /\ i.line = j.line /\ i.prev = j.prev
      /\ i.flag = j.flag /\ i.mine = j.mine /\ i.stage = "checked" /\ i.seen = past
  BY <1>1
<1>3. JobOK(i)
  BY <1>1, <1>2 DEF JobOK, Moves, Shows
<1> QED BY <1>2, <1>3 DEF i

\* Looking at the tree before the write that relies on it.
LEMMA CheckKeeps ==
  ASSUME TreeInv, NEW j \in jobs, Tree!Check(j)
  PROVE  TreeInv'
<1> DEFINE past == IF j.kind = "delete" THEN org.parent[j.id] ELSE Tree!Top
           i    == [j EXCEPT !.stage = "checked", !.seen = past]
           Bad  == \/ j.kind = "nest" /\ j.id \in Tree!Above(org, j.to)
                   \/ j.kind = "delete" /\ j.id \notin org.live
<1>1. TreeTypes /\ JobOK(j) /\ untold \in BOOLEAN
  BY DEF TreeInv, TreeTypes, JobsOK
<1>2. /\ j.stage = "sent" /\ j.kind \in {"nest", "delete"} /\ Tree!MayServe(j)
      /\ UNCHANGED <<boot, boots, untold>>
      /\ IF Bad THEN Tree!Refuse(j)
         ELSE jobs' = (jobs \ {j}) \cup {i} /\ UNCHANGED <<org, asked>>
  BY DEF Tree!Check, Tree!Becomes
<1>3. CASE Bad
  BY <1>1, <1>2, <1>3, RefusedKeeps
<1>4. CASE ~Bad
  <2>1. jobs' = (jobs \ {j}) \cup {i} /\ UNCHANGED <<org, asked, boot, boots, untold>>
    BY <1>2, <1>4
  <2>2. /\ i.kind = j.kind /\ i.id = j.id /\ i.to = j.to /\ i.line = j.line /\ i.prev = j.prev
        /\ i.flag = j.flag /\ i.mine = j.mine /\ i.stage = "checked" /\ i.seen = past /\ JobOK(i)
    <3> HIDE DEF past
    <3> QED BY <1>1, <1>2, JobChecked
  <2>3. Checked(i)
    BY <1>2, <1>4, <2>2 DEF Checked
  <2> HIDE DEF i
  <2>4. JobsOK(jobs') /\ \A k \in jobs \ {j} : ~Clash(k, i)
    BY <1>1, <2>1, <2>2, JobTurned DEF TreeTypes
  <2>5. TreeTypes'
    BY <1>1, <2>1, <2>4 DEF TreeTypes
  <2>6. \A k \in jobs \ {j} : k.stage # "checked"
    BY <1>2 DEF Tree!MayServe
  <2>7. TreeStands'
    BY <2>1, <2>3, <2>6 DEF TreeInv, TreeStands, Checked
  <2>8. \A k : Shows(k) => (k \in jobs <=> k \in jobs')
    BY <1>2, <2>1, <2>2 DEF Shows
  <2>9. AnswersTrue'
    BY <2>1, <2>8 DEF TreeInv, AnswersTrue, Shows
  <2>10. FlagsTrue'
    BY <2>1, <2>8 DEF TreeInv, FlagsTrue, Shows
  <2>11. AsAskedFor'
    <3>1. Pending(i) <=> Pending(j)
      BY <1>2, <2>2 DEF Pending
    <3>2. ASSUME NEW x \in org.live \cup TreeLists, \A k \in jobs' : Pending(k) => k.id # x
          PROVE  Place(org, x) = asked[x]
      BY <2>1, <2>2, <3>1, <3>2 DEF TreeInv, AsAskedFor
    <3>3. ASSUME NEW k \in jobs', Pending(k), k.id \in org.live \cup TreeLists,
                 k.to \in org.live \cup {Tree!Top}
          PROVE  asked[k.id] = k.to
      BY <2>1, <2>2, <3>1, <3>3 DEF TreeInv, AsAskedFor
    <3> QED BY <2>1, <3>2, <3>3 DEF AsAskedFor, Place, Pending
  <2>12. ~BootDue' => ShownTrue'
    <3>1. ~Refreshes(j)
      BY <1>2 DEF Refreshes
    <3>2. BootDue => BootDue'
      BY <2>1, <3>1 DEF BootDue, Refreshes
    <3>3. ShownTrue => ShownTrue'
      <4> SUFFICES ASSUME ShownTrue PROVE ShownTrue'
        OBVIOUS
      <4>1. \A k : k.kind \in {"fold", "sort"} => (k \in jobs <=> k \in jobs')
        BY <2>8 DEF Shows
      <4> QED BY <2>1, <4>1 DEF ShownTrue
    <3> QED BY <3>2, <3>3 DEF TreeInv
  <2> QED BY <2>5, <2>7, <2>9, <2>10, <2>11, <2>12 DEF TreeInv
<1> QED BY <1>3, <1>4

LEMMA FailsKeeps ==
  ASSUME TreeInv, NEW j \in jobs, Tree!Fails(j)
  PROVE  TreeInv'
BY RefusedKeeps DEF Tree!Fails, TreeInv, TreeTypes

\* A request the server has done.
AsServed(j) == [j EXCEPT !.stage = "ok"]

IsServed(j) ==
  /\ Tree!Calm /\ Tree!MayServe(j) /\ j.stage \in {"sent", "checked"}
  /\ j.kind \in {"nest", "delete"} => j.stage = "checked"
  /\ jobs' = (jobs \ {j}) \cup {AsServed(j)}
  /\ UNCHANGED <<boot, boots>> /\ untold' = (untold \/ ~j.mine)

LEMMA ServedIs ==
  ASSUME TreeInv, NEW j \in jobs, IsServed(j)
  PROVE  LET i == AsServed(j)
         IN  /\ JobOK(j) /\ JobOK(i) /\ i.kind = j.kind /\ i.id = j.id /\ i.to = j.to /\ i.line = j.line
             /\ i.prev = j.prev /\ i.flag = j.flag /\ i.mine = j.mine /\ i.stage = "ok"
             /\ JobsOK(jobs') /\ \A k \in jobs \ {j} : ~Clash(k, j)
             /\ \A k \in jobs' : k.stage # "checked"
<1>1. JobOK(j) /\ JobsOK(jobs)
  BY DEF TreeInv, TreeTypes, JobsOK
<1>2. /\ AsServed(j).kind = j.kind /\ AsServed(j).id = j.id /\ AsServed(j).to = j.to /\ AsServed(j).line = j.line
      /\ AsServed(j).prev = j.prev /\ AsServed(j).flag = j.flag /\ AsServed(j).mine = j.mine
      /\ AsServed(j).stage = "ok" /\ JobOK(AsServed(j))
  BY <1>1, JobWith DEF AsServed
<1>3. JobsOK(jobs')
  BY <1>1, <1>2, JobTurned DEF IsServed
<1>4. \A k \in jobs \ {j} : ~Clash(k, j)
  BY <1>1 DEF JobsOK
<1>5. \A k \in jobs' : k.stage # "checked"
  BY <1>2 DEF IsServed, Tree!MayServe
<1> QED BY <1>1, <1>2, <1>3, <1>4, <1>5

LEMMA ServedTypes ==
  ASSUME TreeInv, NEW j \in jobs, IsServed(j), OrgOK(org'), asked' \in [Folders \cup TreeLists -> Spots]
  PROVE  TreeTypes' /\ AnswersTrue'
BY ServedIs DEF IsServed, TreeInv, TreeTypes, Tree!Calm, AnswersTrue

\* Where folders and lists are is shown by a bootstrap that follows.
LEMMA ServedMove ==
  ASSUME TreeInv, NEW j \in jobs, IsServed(j), Moves(j), org'.flags = org.flags
  PROVE  FlagsTrue' /\ BootDue'
<1> DEFINE i == AsServed(j)
<1>1. /\ i.kind = j.kind /\ i.id = j.id /\ i.mine = j.mine /\ i.stage = "ok"
      /\ jobs' = (jobs \ {j}) \cup {i} /\ boot' = boot /\ j.kind # "flag" /\ JobOK(j)
  BY ServedIs DEF IsServed, Moves
<1> HIDE DEF i
<1>2. FlagsTrue'
  BY <1>1 DEF TreeInv, FlagsTrue
<1>3. BootDue'
  <2>1. CASE j.mine
    BY <1>1, <2>1 DEF Refreshes, Moves, BootDue
  <2>2. CASE ~j.mine
    BY <2>2 DEF IsServed, BootDue
  <2> QED BY <2>1, <2>2
<1> QED BY <1>2, <1>3

LEMMA ServeNest ==
  ASSUME TreeInv, NEW j \in jobs, IsServed(j), j.kind = "nest", j.id \in org.live,
         j.to \in org.live, asked' = asked, OrgOK(org'), org'.live = org.live,
         org'.home = org.home, org'.flags = org.flags,
         \A x \in Folders : org'.parent[x] = IF x = j.id THEN j.to ELSE org.parent[x]
  PROVE  TreeInv'
<1> DEFINE f == j.id
           g == j.to
           i == AsServed(j)
<1>1. TreeTypes /\ OrgOK(org) /\ org.live \subseteq Folders /\ org.parent \in [Folders -> Spots]
  BY DEF TreeInv, TreeTypes, OrgOK
<1>2. OrgOK(org') /\ org'.live = org.live /\ org'.home = org.home /\ org'.flags = org.flags
  OBVIOUS
<1>3. \A x \in Folders : org'.parent[x] = IF x = f THEN g ELSE org.parent[x]
  OBVIOUS
<1>4. /\ i.kind = "nest" /\ i.id = f /\ i.stage = "ok" /\ jobs' = (jobs \ {j}) \cup {i}
      /\ \A k \in jobs \ {j} : ~Clash(k, j)
      /\ \A k \in jobs' : k.stage # "checked"
  BY ServedIs DEF IsServed
<1> HIDE DEF i
<1>5. TreeTypes' /\ AnswersTrue'
  BY <1>1, <1>2, ServedTypes DEF TreeTypes
<1>6. FlagsTrue' /\ BootDue'
  BY <1>2, ServedMove DEF Moves
<1>7. TreeStands'
  <2>1. f \notin Tree!Above(org, g)
    BY DEF TreeInv, TreeStands, Checked, IsServed
  <2>2. \A x \in org.live : Tree!Top \in Tree!Above(org, x) /\ org.parent[x] \in org.live \cup {Tree!Top}
    BY DEF TreeInv, TreeStands
  <2>3. \A x \in org.live : Tree!Top \in Tree!Above(org', x)
    <3> SUFFICES ASSUME NEW x \in org.live PROVE Tree!Top \in Tree!Above(org', x)
      OBVIOUS
    <3>1. f \in Folders /\ g \in Folders /\ Tree!Top \in Tree!Above(org, g) /\ Tree!Top \in Tree!Above(org, x)
      BY <1>1, <2>2
    <3>2. OrgOK(org) /\ f \notin Tree!Above(org, g)
      BY <1>1, <2>1
    <3> HIDE DEF f, g
    <3> QED BY <1>3, <3>1, <3>2, MovedStands
  <2>4. \A x \in org.live : org'.parent[x] \in org.live \cup {Tree!Top}
    BY <1>1, <1>3, <2>2
  <2>5. \A l \in TreeLists : org'.home[l] \in org.live \cup {Tree!Top}
    BY <1>2 DEF TreeInv, TreeStands
  <2> QED BY <1>2, <1>4, <2>3, <2>4, <2>5 DEF TreeStands
<1>8. AsAskedFor'
  <2>1. ASSUME NEW x \in org.live \cup TreeLists, \A k \in jobs' : Pending(k) => k.id # x
        PROVE  Place(org', x) = asked[x]
    <3>1. CASE x = f
      BY <1>1, <1>3, <3>1 DEF TreeInv, AsAskedFor, Pending, IsServed, Place
    <3>2. CASE x # f
      BY <1>4, <2>1, <3>2, <1>2, <1>3 DEF TreeInv, AsAskedFor, Place
    <3> QED BY <3>1, <3>2
  <2>2. ASSUME NEW k \in jobs', Pending(k), k.id \in org.live \cup TreeLists,
               k.to \in org.live \cup {Tree!Top}
        PROVE  asked[k.id] = k.to
    BY <1>4, <2>2 DEF TreeInv, AsAskedFor, Pending
  <2> QED BY <1>2, <2>1, <2>2 DEF AsAskedFor, Place, Pending
<1> QED BY <1>5, <1>6, <1>7, <1>8 DEF TreeInv

LEMMA ServeHome ==
  ASSUME TreeInv, NEW j \in jobs, IsServed(j), j.kind = "home",
         j.to \in org.live \cup {Tree!Top}, org' = [org EXCEPT !.home[j.id] = j.to], asked' = asked
  PROVE  TreeInv'
<1> DEFINE l == j.id
           i == AsServed(j)
<1>1. /\ TreeTypes /\ OrgOK(org) /\ org.live \subseteq Folders /\ org.home \in [TreeLists -> Spots]
      /\ JobOK(j)
  BY DEF TreeInv, TreeTypes, OrgOK, JobsOK
<1>2. l \in TreeLists /\ j.to \in Spots /\ l \notin Folders
  BY <1>1, TopIsNone DEF JobOK
<1>3. /\ OrgOK(org') /\ org'.home = [org.home EXCEPT ![l] = j.to] /\ org'.live = org.live
      /\ org'.parent = org.parent /\ org'.flags = org.flags
  BY <1>1, <1>2, OrgWith
<1>4. \A x \in TreeLists : org'.home[x] = IF x = l THEN j.to ELSE org.home[x]
  BY <1>1, <1>3
<1>5. /\ i.kind = "home" /\ i.id = l /\ i.stage = "ok" /\ jobs' = (jobs \ {j}) \cup {i}
      /\ \A k \in jobs' : k.stage # "checked"
  BY ServedIs DEF IsServed
<1> HIDE DEF i
<1>6. TreeTypes' /\ AnswersTrue'
  BY <1>1, <1>3, ServedTypes DEF TreeTypes
<1>7. FlagsTrue' /\ BootDue'
  BY <1>3, ServedMove DEF Moves
<1>8. TreeStands'
  BY <1>3, <1>4, <1>5 DEF Tree!Above, Tree!Closed, TreeInv, TreeStands
<1>9. AsAskedFor'
  <2>1. ASSUME NEW x \in org.live \cup TreeLists, \A k \in jobs' : Pending(k) => k.id # x
        PROVE  Place(org', x) = asked[x]
    <3>1. CASE x = l
      BY <1>2, <1>4, <3>1 DEF TreeInv, AsAskedFor, Pending, IsServed, Place
    <3>2. CASE x # l
      BY <1>5, <2>1, <3>2, <1>1, <1>3, <1>4 DEF TreeInv, AsAskedFor, Place
    <3> QED BY <3>1, <3>2
  <2>2. ASSUME NEW k \in jobs', Pending(k), k.id \in org.live \cup TreeLists,
               k.to \in org.live \cup {Tree!Top}
        PROVE  asked[k.id] = k.to
    BY <1>5, <2>2 DEF TreeInv, AsAskedFor, Pending
  <2> QED BY <1>3, <2>1, <2>2 DEF AsAskedFor, Place, Pending
<1> QED BY <1>6, <1>7, <1>8, <1>9 DEF TreeInv

LEMMA EmptiedIs ==
  ASSUME TreeTypes, NEW f \in Folders, NEW goal \in Spots
  PROVE  LET n == Tree!Emptied(f, goal)
         IN  /\ OrgOK(n) /\ n.live = org.live \ {f} /\ n.flags = org.flags
             /\ n.parent = [g \in Folders |-> IF g # f /\ org.parent[g] = f THEN goal ELSE org.parent[g]]
             /\ n.home = [l \in TreeLists |-> IF org.home[l] = f THEN Tree!Top ELSE org.home[l]]
<1> DEFINE n  == Tree!Emptied(f, goal)
           up == [g \in Folders |-> IF g # f /\ org.parent[g] = f THEN goal ELSE org.parent[g]]
           hm == [l \in TreeLists |-> IF org.home[l] = f THEN Tree!Top ELSE org.home[l]]
           a1 == [org EXCEPT !.live = org.live \ {f}]
           a2 == [a1 EXCEPT !.parent = up]
<1>1. OrgOK(org)
  BY DEF TreeTypes
<1>2. up \in [Folders -> Spots] /\ hm \in [TreeLists -> Spots]
  BY <1>1, TopIsNone DEF OrgOK
<1>3. n = [a2 EXCEPT !.home = hm]
  BY <1>1 DEF Tree!Emptied, OrgOK
<1> HIDE DEF up, hm, n
<1>4. OrgOK(a1) /\ a1.live = org.live \ {f} /\ a1.flags = org.flags
  BY <1>1, LiveWith DEF OrgOK
<1> HIDE DEF a1
<1>5. OrgOK(a2) /\ a2.live = org.live \ {f} /\ a2.flags = org.flags /\ a2.parent = up
  BY <1>2, <1>4, OrgWith
<1> HIDE DEF a2
<1>6. OrgOK(n) /\ n.live = org.live \ {f} /\ n.flags = org.flags /\ n.parent = up /\ n.home = hm
  BY <1>2, <1>3, <1>5, OrgWith
<1> QED BY <1>6 DEF up, hm, n

LEMMA ServeDelete ==
  ASSUME TreeInv, NEW j \in jobs, IsServed(j), j.kind = "delete",
         j.seen # Tree!Top => \A l \in TreeLists : org.home[l] # j.id,
         org' = Tree!Emptied(j.id, j.seen), asked' = Tree!Lifted(j.id, j.seen)
  PROVE  TreeInv'
<1> DEFINE f  == j.id
           up == j.seen
           i  == AsServed(j)
<1>1. TreeTypes /\ OrgOK(org) /\ org.live \subseteq Folders
  BY DEF TreeInv, TreeTypes, OrgOK
<1>2. f \in org.live /\ f \in Folders /\ up = org.parent[f] /\ up \in Spots
  BY <1>1 DEF TreeInv, TreeStands, Checked, IsServed, OrgOK
<1>3. /\ i.kind = "delete" /\ i.id = f /\ i.stage = "ok" /\ jobs' = (jobs \ {j}) \cup {i}
      /\ \A k \in jobs' : k.stage # "checked"
  BY ServedIs DEF IsServed
<1> HIDE DEF i
<1>4. /\ OrgOK(org') /\ org'.live = org.live \ {f} /\ org'.flags = org.flags
      /\ org'.parent = [g \in Folders |-> IF g # f /\ org.parent[g] = f THEN up ELSE org.parent[g]]
      /\ org'.home = [l \in TreeLists |-> IF org.home[l] = f THEN Tree!Top ELSE org.home[l]]
  BY <1>1, <1>2, EmptiedIs
<1>5. asked' = [x \in Folders \cup TreeLists |-> IF x # f /\ asked[x] = f THEN up ELSE asked[x]]
  BY DEF Tree!Lifted
<1>6. asked' \in [Folders \cup TreeLists -> Spots]
  BY <1>1, <1>2, <1>5 DEF TreeTypes
<1> HIDE DEF f, up
<1>7. TreeTypes' /\ AnswersTrue'
  BY <1>4, <1>6, ServedTypes
<1>8. FlagsTrue' /\ BootDue'
  BY <1>4, ServedMove DEF Moves
<1>9. \A x \in org.live : Tree!Top \in Tree!Above(org, x) /\ org.parent[x] \in org.live \cup {Tree!Top}
  BY DEF TreeInv, TreeStands
<1>10. up # f /\ up \in org.live \cup {Tree!Top} /\ f # Tree!Top
  BY <1>2, <1>9, NotInItself, TopIsNone
<1>11. TreeStands'
  <2>1. ASSUME NEW x \in org'.live
        PROVE  Tree!Top \in Tree!Above(org', x)
    BY <1>4, <1>9, <1>2, <1>1, EmptiedStands
  <2>2. \A x \in org'.live : org'.parent[x] \in org'.live \cup {Tree!Top}
    BY <1>1, <1>4, <1>9, <1>10
  <2>3. \A l \in TreeLists : org'.home[l] \in org'.live \cup {Tree!Top}
    BY <1>4 DEF TreeInv, TreeStands
  <2> QED BY <1>3, <2>1, <2>2, <2>3 DEF TreeStands
<1>12. \A x \in Folders \cup TreeLists : asked'[x] = IF x # f /\ asked[x] = f THEN up ELSE asked[x]
  BY <1>5
<1>13. AsAskedFor'
  <2>1. ASSUME NEW x \in org'.live \cup TreeLists, \A k \in jobs' : Pending(k) => k.id # x
        PROVE  Place(org', x) = asked'[x]
    <3>1. x # f /\ x \in org.live \cup TreeLists
      BY <1>2, <1>4, TopIsNone
    <3>2. \A k \in jobs : Pending(k) => k.id # x
      BY <1>3, <2>1 DEF Pending
    <3>3. Place(org, x) = asked[x]
      BY <3>1, <3>2 DEF TreeInv, AsAskedFor
    <3>4. CASE x \in Folders
      BY <1>4, <1>12, <3>1, <3>3, <3>4 DEF Place
    <3>5. CASE x \in TreeLists /\ x \notin Folders
      BY <3>3, <3>5, <1>4, <1>12, <3>1 DEF Place, f, up
    <3> QED BY <1>1, <3>1, <3>4, <3>5
  <2>2. ASSUME NEW k \in jobs', Pending(k), k.id \in org'.live \cup TreeLists,
               k.to \in org'.live \cup {Tree!Top}
        PROVE  asked'[k.id] = k.to
    BY <1>3, <1>4, <1>10, <2>2, <1>1, <1>12 DEF Pending, TreeInv, AsAskedFor
  <2> QED BY <2>1, <2>2 DEF AsAskedFor, Place, Pending
<1> QED BY <1>7, <1>8, <1>11, <1>13 DEF TreeInv

\* What is on the page already reaches the server.
LEMMA ServedShow ==
  ASSUME TreeInv, NEW j \in jobs, IsServed(j), Shows(j), OrgOK(org'), asked' = asked,
         org'.live = org.live, org'.parent = org.parent, org'.home = org.home
  PROVE  /\ TreeTypes' /\ AnswersTrue' /\ TreeStands' /\ AsAskedFor'
         /\ ~BootDue' => ~BootDue /\ ShownTrue
<1> DEFINE i == AsServed(j)
<1>1. /\ i.kind = j.kind /\ i.id = j.id /\ i.stage = "ok" /\ i.mine = j.mine
      /\ jobs' = (jobs \ {j}) \cup {i} /\ JobOK(j)
      /\ \A k \in jobs' : k.stage # "checked"
  BY ServedIs DEF IsServed
<1> HIDE DEF i
<1>2. TreeTypes' /\ AnswersTrue'
  BY ServedTypes DEF TreeInv, TreeTypes
<1>3. TreeStands'
  BY <1>1 DEF Tree!Above, Tree!Closed, TreeInv, TreeStands
<1>4. AsAskedFor'
  BY <1>1 DEF Pending, Shows, Place, TreeInv, AsAskedFor
<1>5. ~BootDue' => ~BootDue
  BY <1>1 DEF IsServed, JobOK, Shows, Refreshes, BootDue
<1> QED BY <1>2, <1>3, <1>4, <1>5 DEF TreeInv

LEMMA ServeFold ==
  ASSUME TreeInv, NEW j \in jobs, IsServed(j), j.kind = "fold", asked' = asked,
         OrgOK(org'), org'.live = org.live, org'.parent = org.parent, org'.home = org.home,
         org'.rank = org.rank, org'.flags = org.flags, j.id \in org'.folded <=> j.to = 1,
         \A k : k # j.id => (k \in org'.folded <=> k \in org.folded)
  PROVE  TreeInv'
<1> DEFINE i == AsServed(j)
<1>1. Shows(j) /\ JobOK(j) /\ j.stage = "sent" /\ OrgOK(org)
  BY ServedIs DEF IsServed, JobOK, Shows, TreeInv, TreeTypes
<1>4. /\ i.kind = "fold" /\ i.id = j.id /\ i.to = j.to /\ i.stage = "ok" /\ jobs' = (jobs \ {j}) \cup {i}
      /\ \A k \in jobs \ {j} : ~Clash(k, j)
      /\ boot' = boot
  BY ServedIs DEF IsServed
<1> HIDE DEF i
<1>5. /\ TreeTypes' /\ AnswersTrue' /\ TreeStands' /\ AsAskedFor'
      /\ ~BootDue' => ~BootDue /\ ShownTrue
  BY <1>1, ServedShow
<1>6. FlagsTrue'
  BY <1>4 DEF TreeInv, FlagsTrue
<1>7. ~BootDue' => ShownTrue'
  <2> SUFFICES ASSUME ShownTrue PROVE ShownTrue'
    BY <1>5
  <2>1. \A k \in jobs : k.kind = "fold" /\ k.id = j.id => k = j
    BY <1>4 DEF Clash
  <2>2. ASSUME NEW f \in Folders, \A k \in jobs' : k.kind = "fold" /\ k.id = f => k.stage # "sent"
        PROVE  f \in boot.folded <=> f \in org'.folded
    <3>1. CASE f = j.id
      BY <1>1, <3>1 DEF ShownTrue
    <3>2. CASE f # j.id
      BY <1>4, <2>2, <3>2 DEF ShownTrue
    <3> QED BY <3>1, <3>2
  <2>3. \A k \in jobs' : k.kind = "fold" /\ k.stage = "sent" => (k.id \in boot.folded <=> k.to = 1)
    BY <1>4 DEF ShownTrue
  <2>4. \A k : k.kind = "sort" => (k \in jobs' <=> k \in jobs)
    BY <1>4
  <2>5. (\A k \in jobs' : k.kind = "sort" => k.stage # "sent") => boot.rank = org'.rank
    BY <2>4 DEF ShownTrue
  <2>6. ASSUME NEW k \in jobs', k.kind = "sort", k.stage = "sent"
        PROVE  boot.rank = Tree!Sorted(org', k.line).rank
    BY <2>4, <2>6, <1>1, SortedSame DEF ShownTrue
  <2> QED BY <1>4, <2>2, <2>3, <2>5, <2>6 DEF ShownTrue
<1> QED BY <1>5, <1>6, <1>7 DEF TreeInv

LEMMA ServeSort ==
  ASSUME TreeInv, NEW j \in jobs, IsServed(j), j.kind = "sort", asked' = asked,
         org' = Tree!Sorted(org, j.line)
  PROVE  TreeInv'
<1> DEFINE i == AsServed(j)
<1>1. Shows(j) /\ JobOK(j) /\ j.stage = "sent" /\ OrgOK(org)
  BY ServedIs DEF IsServed, JobOK, Shows, TreeInv, TreeTypes
<1>2. /\ OrgOK(org') /\ org'.folded = org.folded /\ org'.live = org.live /\ org'.parent = org.parent
      /\ org'.home = org.home /\ org'.flags = org.flags
  BY <1>1, SortedIs
<1>3. /\ i.kind = "sort" /\ i.stage = "ok" /\ jobs' = (jobs \ {j}) \cup {i}
      /\ \A k \in jobs \ {j} : ~Clash(k, j)
      /\ boot' = boot
  BY ServedIs DEF IsServed
<1> HIDE DEF i
<1>4. /\ TreeTypes' /\ AnswersTrue' /\ TreeStands' /\ AsAskedFor'
      /\ ~BootDue' => ~BootDue /\ ShownTrue
  BY <1>1, <1>2, ServedShow
<1>5. FlagsTrue'
  BY <1>2, <1>3 DEF TreeInv, FlagsTrue
<1>6. ~BootDue' => ShownTrue'
  <2> SUFFICES ASSUME ShownTrue PROVE ShownTrue'
    BY <1>4
  <2>1. boot.rank = org'.rank
    BY <1>1 DEF ShownTrue
  <2>2. \A k \in jobs' : k.kind = "sort" => k = i
    BY <1>3 DEF Clash
  <2>3. \A k \in jobs' : k.kind = "sort" /\ k.stage = "sent" => boot.rank = Tree!Sorted(org', k.line).rank
    BY <1>3, <2>2
  <2>4. \A k : k.kind = "fold" => (k \in jobs' <=> k \in jobs)
    BY <1>1, <1>3
  <2>5. \A f \in Folders :
          (\A k \in jobs' : k.kind = "fold" /\ k.id = f => k.stage # "sent")
            => (f \in boot.folded <=> f \in org.folded)
    BY <2>4 DEF ShownTrue
  <2>6. \A k \in jobs' : k.kind = "fold" /\ k.stage = "sent" => (k.id \in boot.folded <=> k.to = 1)
    BY <2>4 DEF ShownTrue
  <2> QED BY <1>2, <1>3, <2>1, <2>3, <2>5, <2>6 DEF ShownTrue
<1> QED BY <1>4, <1>5, <1>6 DEF TreeInv

LEMMA ServeFlag ==
  ASSUME TreeInv, NEW j \in jobs, IsServed(j), j.kind = "flag", asked' = asked,
         OrgOK(org'), org'.live = org.live, org'.parent = org.parent, org'.home = org.home,
         org'.rank = org.rank, org'.folded = org.folded,
         \A k \in TreeLists : org'.flags[k] = IF k = j.id THEN Tree!SetFlag(org.flags[j.id], j.flag, j.to)
                                              ELSE org.flags[k]
  PROVE  TreeInv'
<1> DEFINE i    == AsServed(j)
           l    == j.id
           next == Tree!SetFlag(org.flags[l], j.flag, j.to)
<1>1. Shows(j) /\ JobOK(j) /\ j.stage = "sent" /\ OrgOK(org)
  BY ServedIs DEF IsServed, JobOK, Shows, TreeInv, TreeTypes
<1>5. /\ i.kind = "flag" /\ i.id = l /\ i.stage = "ok" /\ jobs' = (jobs \ {j}) \cup {i}
      /\ \A k \in jobs \ {j} : ~Clash(k, j)
      /\ boot' = boot
  BY ServedIs DEF IsServed
<1> HIDE DEF i
<1>6. /\ TreeTypes' /\ AnswersTrue' /\ TreeStands' /\ AsAskedFor'
      /\ ~BootDue' => ~BootDue /\ ShownTrue
  BY <1>1, ServedShow
<1>7. FlagsTrue'
  <2>1. boot.flags[l] = next
    BY <1>1 DEF TreeInv, FlagsTrue, next
  <2>2. \A k \in TreeLists : org'.flags[k] = IF k = l THEN next ELSE org.flags[k]
    OBVIOUS
  <2> HIDE DEF next
  <2>3. \A k \in jobs \ {j} : k.kind = "flag" => k.id # l
    BY <1>5 DEF Clash
  <2>4. ASSUME NEW k \in TreeLists, \A q \in jobs' : q.kind = "flag" /\ q.id = k => q.stage = "ok"
        PROVE  boot.flags[k] = org'.flags[k]
    <3>1. CASE k = l
      BY <2>1, <2>2, <3>1
    <3>2. CASE k # l
      BY <1>5, <2>4, <3>2, <2>2 DEF TreeInv, FlagsTrue
    <3> QED BY <3>1, <3>2
  <2>5. ASSUME NEW k \in jobs', k.kind = "flag", k.stage # "ok"
        PROVE  org'.flags[k.id] = k.prev /\ (k.stage = "sent" => boot.flags[k.id] = Tree!SetFlag(k.prev, k.flag, k.to))
    BY <1>5, <2>3, <2>5, <2>2 DEF TreeInv, TreeTypes, JobsOK, JobOK, FlagsTrue
  <2> QED BY <1>5, <2>4, <2>5 DEF FlagsTrue
<1>8. ~BootDue' => ShownTrue'
  <2> SUFFICES ASSUME ShownTrue PROVE ShownTrue'
    BY <1>6
  <2>1. \A k : k.kind \in {"fold", "sort"} => (k \in jobs' <=> k \in jobs)
    BY <1>5
  <2>2. \A f \in Folders :
          (\A k \in jobs' : k.kind = "fold" /\ k.id = f => k.stage # "sent")
            => (f \in boot.folded <=> f \in org.folded)
    BY <2>1 DEF ShownTrue
  <2>3. \A k \in jobs' : k.kind = "fold" /\ k.stage = "sent" => (k.id \in boot.folded <=> k.to = 1)
    BY <2>1 DEF ShownTrue
  <2>4. (\A k \in jobs' : k.kind = "sort" => k.stage # "sent") => boot.rank = org.rank
    BY <2>1 DEF ShownTrue
  <2>5. ASSUME NEW k \in jobs', k.kind = "sort", k.stage = "sent"
        PROVE  boot.rank = Tree!Sorted(org', k.line).rank
    BY <2>1, <2>5, <1>1, SortedSame DEF ShownTrue
  <2> QED BY <1>5, <2>2, <2>3, <2>4, <2>5 DEF ShownTrue
<1> QED BY <1>6, <1>7, <1>8 DEF TreeInv

LEMMA ServeKeeps ==
  ASSUME TreeInv, NEW j \in jobs, Tree!Serve(j)
  PROVE  TreeInv'
<1> DEFINE took == jobs' = (jobs \ {j}) \cup {AsServed(j)}
<1>1. JobOK(j) /\ untold \in BOOLEAN
  BY DEF TreeInv, TreeTypes, JobsOK
<1>2. /\ Tree!Calm /\ Tree!MayServe(j) /\ j.stage \in {"sent", "checked"}
      /\ (j.kind \in {"nest", "delete"} => j.stage = "checked")
      /\ (j.kind = "delete" /\ j.seen # Tree!Top => \A l \in TreeLists : org.home[l] # j.id)
      /\ UNCHANGED <<boot, boots>> /\ untold' = (untold \/ ~j.mine)
  BY DEF Tree!Serve
<1>3. took => IsServed(j)
  BY <1>2 DEF IsServed
<1>4. \/ /\ j.kind = "nest" /\ j.id \in org.live /\ j.to \in org.live \cup {Tree!Top} /\ took
         /\ org' = [org EXCEPT !.parent[j.id] = j.to] /\ asked' = asked
      \/ /\ j.kind = "home" /\ j.to \in org.live \cup {Tree!Top} /\ took
         /\ org' = [org EXCEPT !.home[j.id] = j.to] /\ asked' = asked
      \/ /\ j.kind = "delete" /\ took
         /\ org' = Tree!Emptied(j.id, j.seen) /\ asked' = Tree!Lifted(j.id, j.seen)
      \/ /\ j.kind = "fold" /\ took /\ asked' = asked
         /\ org' = [org EXCEPT !.folded = IF j.to = 1 THEN @ \cup {j.id} ELSE @ \ {j.id}]
      \/ j.kind = "sort" /\ took /\ org' = Tree!Sorted(org, j.line) /\ asked' = asked
      \/ /\ j.kind = "flag" /\ took /\ asked' = asked
         /\ org' = [org EXCEPT !.flags[j.id] = Tree!SetFlag(@, j.flag, j.to)]
      \/ Tree!Refuse(j)
  BY <1>1 DEF Tree!Serve, Tree!Becomes, Tree!Exists, AsServed, JobOK
<1> HIDE DEF took
<1>5. CASE Tree!Refuse(j)
  BY <1>1, <1>2, <1>5, RefusedKeeps
<1>6. j.kind = "nest" /\ j.to \in org.live \cup {Tree!Top} => j.to \in org.live
  BY <1>1, TopIsNone DEF JobOK
<1>7. OrgOK(org)
  BY DEF TreeInv, TreeTypes
<1>8. CASE /\ j.kind = "fold" /\ took /\ asked' = asked
           /\ org' = [org EXCEPT !.folded = IF j.to = 1 THEN @ \cup {j.id} ELSE @ \ {j.id}]
  <2> DEFINE m == [org EXCEPT !.folded = IF j.to = 1 THEN @ \cup {j.id} ELSE @ \ {j.id}]
  <2>1. /\ OrgOK(m) /\ m.live = org.live /\ m.parent = org.parent /\ m.home = org.home
        /\ m.rank = org.rank /\ m.flags = org.flags /\ (j.id \in m.folded <=> j.to = 1)
        /\ \A k : k # j.id => (k \in m.folded <=> k \in org.folded)
    BY <1>7, Refolded
  <2>2. org' = m /\ IsServed(j) /\ j.kind = "fold" /\ asked' = asked
    BY <1>3, <1>8
  <2> HIDE DEF m
  <2> QED BY <2>1, <2>2, ServeFold
<1>9. CASE /\ j.kind = "flag" /\ took /\ asked' = asked
           /\ org' = [org EXCEPT !.flags[j.id] = Tree!SetFlag(@, j.flag, j.to)]
  <2>1. j.id \in TreeLists /\ j.flag \in Tree!Flags
    BY <1>1, <1>9 DEF JobOK
  <2> DEFINE m == [org EXCEPT !.flags[j.id] = Tree!SetFlag(@, j.flag, j.to)]
  <2>2. /\ OrgOK(m) /\ m.live = org.live /\ m.parent = org.parent /\ m.home = org.home
        /\ m.rank = org.rank /\ m.folded = org.folded
        /\ \A k \in TreeLists : m.flags[k] = IF k = j.id THEN Tree!SetFlag(org.flags[j.id], j.flag, j.to)
                                             ELSE org.flags[k]
    BY <1>7, <2>1, Reflagged
  <2>3. org' = m /\ IsServed(j) /\ j.kind = "flag" /\ asked' = asked
    BY <1>3, <1>9
  <2> HIDE DEF m
  <2> QED BY <2>2, <2>3, ServeFlag
<1>10. CASE j.kind = "sort" /\ took /\ org' = Tree!Sorted(org, j.line) /\ asked' = asked
  BY <1>3, <1>10, ServeSort
<1>11. CASE /\ j.kind = "nest" /\ j.id \in org.live /\ j.to \in org.live \cup {Tree!Top} /\ took
            /\ org' = [org EXCEPT !.parent[j.id] = j.to] /\ asked' = asked
  <2>1. j.id \in Folders /\ j.to \in Spots
    BY <1>1, <1>11 DEF JobOK, Spots
  <2> DEFINE m == [org EXCEPT !.parent[j.id] = j.to]
  <2>2. /\ OrgOK(m) /\ m.live = org.live /\ m.home = org.home /\ m.flags = org.flags
        /\ \A k \in Folders : m.parent[k] = IF k = j.id THEN j.to ELSE org.parent[k]
    BY <1>7, <2>1, Reparented
  <2>3. /\ org' = m /\ IsServed(j) /\ j.kind = "nest" /\ asked' = asked
        /\ j.id \in org.live /\ j.to \in org.live
    BY <1>3, <1>6, <1>11
  <2> HIDE DEF m
  <2> QED BY <2>2, <2>3, ServeNest
<1> QED BY <1>2, <1>3, <1>4, <1>5, <1>8, <1>9, <1>10, <1>11, ServeHome, ServeDelete

\* A bootstrap that is asked for.
LEMMA RefreshIs ==
  ASSUME Tree!RefreshBoot
  PROVE  \E b : /\ boots' = boots \cup {b} /\ b.answer = NoAnswer
               /\ b = [no |-> b.no, answer |-> b.answer]
<1> DEFINE free == CHOOSE n \in 0 .. Tree!Cardinality(boots) : \A b \in boots : b.no # n
<1>1. boots' = boots \cup {[no |-> free, answer |-> NoAnswer]}
  BY DEF Tree!RefreshBoot
<1> HIDE DEF free
<1> DEFINE b == [no |-> free, answer |-> NoAnswer]
<1>2. b.answer = NoAnswer /\ b = [no |-> b.no, answer |-> b.answer]
  OBVIOUS
<1> HIDE DEF b
<1>3. boots' = boots \cup {b}
  BY <1>1 DEF b
<1> QED BY <1>2, <1>3

\* The answer to a request arrives.
LEMMA LandsKeeps ==
  ASSUME TreeInv, NEW j \in jobs, Tree!Lands(j)
  PROVE  TreeInv'
<1> DEFINE undone == j.kind = "flag" /\ j.stage = "refused"
<1>1. /\ j.stage \in {"ok", "refused"} /\ jobs' = jobs \ {j} /\ UNCHANGED <<org, untold, asked>>
      /\ boot' = IF undone THEN [boot EXCEPT !.flags[j.id] = j.prev] ELSE boot
      /\ Tree!RefreshBoot \/ UNCHANGED boots
      /\ Refreshes(j) => Tree!RefreshBoot
  BY DEF Tree!Lands, Refreshes
<1>2. JobOK(j) /\ TreeTypes /\ OrgOK(boot)
  BY DEF TreeInv, TreeTypes, JobsOK
<1>3. /\ OrgOK(boot') /\ boot'.live = boot.live /\ boot'.parent = boot.parent /\ boot'.home = boot.home
      /\ boot'.rank = boot.rank /\ boot'.folded = boot.folded
      /\ \A l \in TreeLists : boot'.flags[l] = IF undone /\ l = j.id THEN j.prev ELSE boot.flags[l]
  <2>1. CASE undone
    <3> DEFINE p == [boot.flags EXCEPT ![j.id] = j.prev]
               n == [boot EXCEPT !.flags = p]
    <3>1. /\ p \in [TreeLists -> SUBSET Tree!Flags]
          /\ \A l \in TreeLists : p[l] = IF l = j.id THEN j.prev ELSE boot.flags[l]
      BY <1>2, <2>1 DEF OrgOK, JobOK
    <3>2. boot' = n
      BY <1>1, <2>1
    <3> HIDE DEF p
    <3>3. /\ OrgOK(n) /\ n.flags = p /\ n.live = boot.live /\ n.parent = boot.parent /\ n.home = boot.home
          /\ n.rank = boot.rank /\ n.folded = boot.folded
      BY <1>2, <3>1, OrgWith
    <3> HIDE DEF n
    <3> QED BY <2>1, <3>1, <3>2, <3>3
  <2>2. CASE ~undone
    BY <1>1, <2>2, <1>2
  <2> QED BY <2>1, <2>2
<1> HIDE DEF undone
<1>4. /\ \A b \in boots' : b \in boots \/ (b.answer = NoAnswer /\ b = [no |-> b.no, answer |-> b.answer])
      /\ (boots' = boots /\ ~Refreshes(j)) \/ boots' # {}
  <2>1. CASE Tree!RefreshBoot
    <3>1. PICK b : /\ boots' = boots \cup {b} /\ b.answer = NoAnswer
                   /\ b = [no |-> b.no, answer |-> b.answer]
      BY <2>1, RefreshIs
    <3> QED BY <3>1
  <2>2. CASE UNCHANGED boots /\ ~Tree!RefreshBoot
    BY <1>1, <2>2
  <2> QED BY <1>1, <2>1, <2>2
<1>5. TreeTypes'
  BY <1>1, <1>2, <1>4, <1>3 DEF TreeTypes, JobsOK
<1>6. AnswersTrue'
  BY <1>1, <1>4 DEF TreeInv, AnswersTrue, Shows
<1>7. TreeStands'
  BY <1>1 DEF TreeInv, TreeStands, Checked
<1>8. AsAskedFor'
  BY <1>1 DEF Pending, TreeInv, AsAskedFor, Place
<1>9. FlagsTrue'
  <2>1. \A k \in jobs \ {j} : j.kind = "flag" /\ k.kind = "flag" => k.id # j.id
    BY <1>2 DEF TreeTypes, JobsOK, Clash
  <2>2. undone => org.flags[j.id] = j.prev
    BY DEF TreeInv, FlagsTrue, undone
  <2>3. undone => j.kind = "flag"
    BY DEF undone
  <2>4. ASSUME NEW l \in TreeLists, \A k \in jobs' : k.kind = "flag" /\ k.id = l => k.stage = "ok"
        PROVE  boot'.flags[l] = org.flags[l]
    <3>1. CASE undone /\ l = j.id
      BY <1>3, <2>2, <3>1
    <3>2. CASE ~(undone /\ l = j.id)
      BY <1>1, <2>4, <3>2, <1>3 DEF undone, TreeInv, FlagsTrue
    <3> QED BY <3>1, <3>2
  <2>5. ASSUME NEW k \in jobs', k.kind = "flag", k.stage # "ok"
        PROVE  org.flags[k.id] = k.prev /\ (k.stage = "sent" => boot'.flags[k.id] = Tree!SetFlag(k.prev, k.flag, k.to))
    BY <1>1, <1>2, <2>5, <2>1, <2>3, <1>3 DEF TreeTypes, JobsOK, JobOK, TreeInv, FlagsTrue
  <2> QED BY <1>1, <2>4, <2>5 DEF FlagsTrue
<1>10. ~BootDue' => ShownTrue'
  <2> SUFFICES ASSUME ~BootDue' PROVE ShownTrue'
    OBVIOUS
  <2>1. boots' = {} /\ boots = {} /\ ~Refreshes(j) /\ ~untold
    BY <1>1, <1>4 DEF BootDue
  <2>2. ~BootDue
    BY <1>1, <2>1 DEF BootDue, Refreshes
  <2>3. ShownTrue
    BY <2>2 DEF TreeInv
  <2>4. \A k : k.kind \in {"fold", "sort"} /\ k.stage = "sent" => (k \in jobs' <=> k \in jobs)
    BY <1>1
  <2>5. ASSUME NEW f \in Folders, \A k \in jobs' : k.kind = "fold" /\ k.id = f => k.stage # "sent"
        PROVE  f \in boot'.folded <=> f \in org.folded
    BY <1>3, <2>3, <2>4, <2>5 DEF ShownTrue
  <2>6. ASSUME NEW k \in jobs', k.kind = "fold", k.stage = "sent"
        PROVE  k.id \in boot'.folded <=> k.to = 1
    BY <1>3, <2>3, <2>4, <2>6 DEF ShownTrue
  <2>7. (\A k \in jobs' : k.kind = "sort" => k.stage # "sent") => boot'.rank = org.rank
    BY <1>3, <2>3, <2>4 DEF ShownTrue
  <2>8. ASSUME NEW k \in jobs', k.kind = "sort", k.stage = "sent"
        PROVE  boot'.rank = Tree!Sorted(org, k.line).rank
    BY <1>3, <2>3, <2>4, <2>8 DEF ShownTrue
  <2>9. boot'.live = org.live /\ boot'.parent = org.parent /\ boot'.home = org.home
    BY <1>3, <2>3 DEF ShownTrue
  <2> QED BY <1>1, <2>5, <2>6, <2>7, <2>8, <2>9 DEF ShownTrue
<1> QED BY <1>5, <1>6, <1>7, <1>8, <1>9, <1>10 DEF TreeInv

LEMMA BootStartsKeeps ==
  ASSUME TreeInv, Tree!BootStarts
  PROVE  TreeInv'
<1>1. boots = {} /\ Tree!RefreshBoot /\ UNCHANGED <<org, boot, jobs, untold, asked>>
  BY DEF Tree!BootStarts
<1>2. PICK b : /\ boots' = boots \cup {b} /\ b.answer = NoAnswer
               /\ b = [no |-> b.no, answer |-> b.answer]
  BY <1>1, RefreshIs
<1>3. TreeTypes'
  BY <1>1, <1>2 DEF TreeInv, TreeTypes
<1>4. AnswersTrue'
  BY <1>1, <1>2 DEF AnswersTrue
<1>5. TreeStands' /\ AsAskedFor' /\ FlagsTrue'
  BY <1>1 DEF TreeInv, TreeStands, Checked, AsAskedFor, Place, Pending, FlagsTrue
<1>6. BootDue'
  BY <1>2 DEF BootDue
<1> QED BY <1>3, <1>4, <1>5, <1>6 DEF TreeInv

\* What a bootstrap is answered is what there is, with nothing on its way that it lacks.
LEMMA BootAnsweredKeeps ==
  ASSUME TreeInv, NEW b \in boots, Tree!BootAnswered(b)
  PROVE  TreeInv'
<1>1. /\ b.answer = NoAnswer /\ \A j \in jobs : Shows(j) => j.stage # "sent"
      /\ boots' = (boots \ {b}) \cup {[b EXCEPT !.answer = org]}
      /\ untold' = FALSE /\ UNCHANGED <<org, boot, jobs, asked>>
  BY DEF Tree!BootAnswered, Shows
<1>2. b = [no |-> b.no, answer |-> b.answer]
  BY DEF TreeInv, TreeTypes
<1> DEFINE c == [b EXCEPT !.answer = org]
<1>3. c.answer = org /\ c = [no |-> c.no, answer |-> c.answer]
  BY <1>2
<1>4. boots' = (boots \ {b}) \cup {c}
  BY <1>1
<1> HIDE DEF c
<1>5. TreeTypes'
  BY <1>3, <1>4, <1>1 DEF TreeInv, TreeTypes
<1>6. AnswersTrue'
  BY <1>1, <1>3, <1>4 DEF TreeInv, AnswersTrue, Shows
<1>7. TreeStands' /\ AsAskedFor' /\ FlagsTrue'
  BY <1>1 DEF TreeInv, TreeStands, Checked, AsAskedFor, Place, Pending, FlagsTrue
<1>8. BootDue'
  BY <1>4 DEF BootDue
<1> QED BY <1>5, <1>6, <1>7, <1>8 DEF TreeInv

LEMMA BootLandsKeeps ==
  ASSUME TreeInv, NEW b \in boots, Tree!BootLands(b)
  PROVE  TreeInv'
BY DEF Tree!BootLands, TreeInv, AnswersTrue, TreeTypes, Shows, TreeStands, Checked, AsAskedFor,
   Place, Pending, FlagsTrue, ShownTrue

LEMMA TreeKeeps ==
  ASSUME TreeInv, Tree!TreeNext
  PROVE  TreeInv'
<1>1. CASE \E f, g \in Folders : Tree!DropInto(f, g) \/ Tree!Sort(f, g) \/ Tree!OtherDevice(f, g)
  BY <1>1, DropIntoKeeps, SortKeeps, OtherDeviceKeeps
<1>2. CASE \E f \in Folders, goal \in Spots : Tree!SaveDialog(f, goal)
  BY <1>2, SaveDialogKeeps
<1>3. CASE \E l \in TreeLists, goal \in Spots : Tree!MoveList(l, goal)
  BY <1>3, MoveListKeeps
<1>4. CASE \E f \in Folders : Tree!Delete(f) \/ Tree!Fold(f)
  BY <1>4, DeleteKeeps, FoldKeeps
<1>5. CASE \E l \in TreeLists, flag \in Tree!Flags : Tree!Flag(l, flag)
  BY <1>5, FlagKeeps
<1>6. CASE \E j \in jobs : Tree!Check(j) \/ Tree!Serve(j) \/ Tree!Fails(j) \/ Tree!Lands(j)
  BY <1>6, CheckKeeps, ServeKeeps, FailsKeeps, LandsKeeps
<1>7. CASE Tree!BootStarts
  BY <1>7, BootStartsKeeps
<1>8. CASE \E b \in boots : Tree!BootAnswered(b) \/ Tree!BootLands(b)
  BY <1>8, BootAnsweredKeeps, BootLandsKeeps
<1> QED BY <1>1, <1>2, <1>3, <1>4, <1>5, <1>6, <1>7, <1>8, Zenon DEF Tree!TreeNext, Spots

LEMMA TreeHolds ==
  ASSUME TreeInv
  PROVE  Tree!NoneVanishes /\ Tree!SidebarAgrees /\ Tree!WhereAsked
<1>1. Tree!NoneVanishes
  BY DEF TreeInv, TreeStands, Tree!NoneVanishes, Tree!Visible
<1>2. Tree!SidebarAgrees
  <2> SUFFICES ASSUME jobs = {}, boots = {}, ~untold PROVE Tree!SameTree(boot, org)
    BY DEF Tree!SidebarAgrees
  <2>1. ShownTrue
    BY DEF TreeInv, BootDue
  <2>2. boot.flags = org.flags
    BY DEF TreeInv, TreeTypes, OrgOK, FlagsTrue
  <2>3. boot.rank = org.rank /\ boot.live = org.live /\ boot.parent = org.parent /\ boot.home = org.home
    BY <2>1 DEF ShownTrue
  <2>4. boot.folded \cap boot.live = org.folded \cap org.live
    BY <2>1, <2>3 DEF TreeInv, TreeTypes, OrgOK, ShownTrue
  <2> QED BY <2>2, <2>3, <2>4, Zenon DEF Tree!SameTree, Tree!Before
<1>3. Tree!WhereAsked
  <2> SUFFICES ASSUME jobs = {}
               PROVE  /\ \A f \in org.live : org.parent[f] = asked[f]
                      /\ \A l \in TreeLists : org.home[l] = asked[l]
    BY DEF Tree!WhereAsked
  <2>1. \A x \in org.live \cup TreeLists : Place(org, x) = asked[x]
    BY DEF TreeInv, AsAskedFor
  <2>2. org.live \subseteq Folders /\ Folders \cap TreeLists = {}
    BY TreeAssumption DEF TreeInv, TreeTypes, OrgOK
  <2> QED BY <2>1, <2>2 DEF Place
<1> QED BY <1>1, <1>2, <1>3

LEMMA TreeStarts ==
  ASSUME Tree!Init
  PROVE  TreeInv
<1>1. /\ org = TreeStart /\ boot = TreeStart /\ jobs = {} /\ boots = {} /\ untold = FALSE
      /\ asked = [x \in Folders \cup TreeLists |-> IF x \in Folders THEN TreeStart.parent[x]
                                                  ELSE TreeStart.home[x]]
  BY DEF Tree!Init
<1>2. TreeStart \in Tree!Org
  BY TreeAssumption
<1>3. OrgOK(TreeStart)
  BY <1>2 DEF Tree!Org, OrgOK, Spots
<1>4. asked \in [Folders \cup TreeLists -> Spots]
  BY <1>1, <1>3 DEF OrgOK
<1>5. TreeTypes /\ AnswersTrue
  BY <1>1, <1>3, <1>4 DEF TreeTypes, JobsOK, AnswersTrue
<1>6. TreeStands
  BY <1>1, TreeAssumption DEF TreeStands, Tree!Visible
<1>7. AsAskedFor
  BY <1>3, <1>1 DEF OrgOK, AsAskedFor, Place
<1>8. FlagsTrue /\ ShownTrue
  BY <1>1 DEF FlagsTrue, ShownTrue
<1> QED BY <1>5, <1>6, <1>7, <1>8 DEF TreeInv

\* No folder ever vanishes from the sidebar; at rest the page shows the tree of the server, in
\* which every folder and list is where its user put it last; and no chain of links ever
\* comes back to where it started.
THEOREM TreesStayWhole == PartsSpec => []TreesWhole
<1> DEFINE Inv == (part = "tree" => TreeInv) /\ (part = "links" => LinkInv)
<1>1. PartsInit => Inv
  <2> SUFFICES ASSUME PartsInit PROVE TreeInv /\ LinkInv
    OBVIOUS
  <2>1. TreeInv
    BY TreeStarts DEF PartsInit
  <2>2. links = {} /\ commits = 0 /\ tx = [c \in Clients |-> Links!NoTx]
    BY DEF PartsInit, Links!Init
  <2>3. \A t : Links!Closed({}, t, {})
    BY DEF Links!Closed, Links!BlockedBy
  <2>4. \A t \in LinkTasks : t \notin Links!Chain(links, t)
    BY <2>2, <2>3, ChainIsLeast
  <2> QED BY <2>1, <2>2, <2>4 DEF LinkInv, ReadsTrue
<1>2. Inv /\ [PartsNext]_partVars => Inv'
  <2>1. ASSUME Inv, [PartsNext]_partVars, part' = "tree" PROVE TreeInv'
    <3>1. part = "tree" /\ (Tree!TreeNext \/ UNCHANGED treeVars)
      BY <2>1 DEF PartsNext, partVars
    <3>2. CASE UNCHANGED treeVars
      BY <2>1, <3>1, <3>2 DEF treeVars, TreeInv, TreeTypes, AnswersTrue, TreeStands, Checked, AsAskedFor,
         Place, Pending, FlagsTrue, BootDue, ShownTrue
    <3> QED BY <2>1, <3>1, <3>2, TreeKeeps
  <2>2. ASSUME Inv, [PartsNext]_partVars, part' = "links" PROVE LinkInv'
    BY <2>2, LinksKeep DEF PartsNext, partVars, linkVars, LinkInv, ReadsTrue
  <2> QED BY <2>1, <2>2
<1>3. Inv => TreesWhole
  BY TreeHolds, LinksHold DEF TreesWhole
<1> QED BY <1>1, <1>2, <1>3, PTL DEF PartsSpec
=============================================================================
