------------------------ MODULE TaskCompletionProofs ------------------------
(***************************************************************************)
(* What holds of TaskCompletion for every number of requests, tasks and    *)
(* occurrences: the types, that one completion creates one next task and   *)
(* is announced once, and that a client id names one task.                 *)
(*                                                                         *)
(* For the second and the third, a completion is a ticket.  The update of  *)
(* the row hands it to one request (TicketsApart), the request keeps it    *)
(* until it has created the next task (Unspent) and announced it (Untold), *)
(* and no row and no entry of the history has the ticket of a completion   *)
(* that has not happened (Counters).                                       *)
(*                                                                         *)
(* Where one request follows the other and nothing restarts, the chain of  *)
(* a repeating task goes on, each completion is told, and as it was, and   *)
(* an edit replaces what its page has seen.                                *)
(***************************************************************************)
EXTENDS TaskCompletion, TLAPS

Completed(t) == t.what = "completed"

\* Where a request may have yet to create the next task.
Spawning == {"reread", "spawn", "insert"}

\* A request has a ticket from the update of the status to the announcement, and it
\* is that of a completion where the next task is created.
HolderOK ==
  \A r \in Reqs :
    /\ ticket[r] # NoTicket => pc[r] \in Spawning \union {"tell"}
    /\ pc[r] = "spawn" \/ (pc[r] = "insert" /\ call[r].kind # "create") => Completed(ticket[r])
    /\ pc[r] = "reread" /\ call[r].want = "done" => ticket[r] = NoTicket \/ Completed(ticket[r])

Happened(t) == Completed(t) => t.id \in DOMAIN times /\ t.nr <= times[t.id].completed

Counters ==
  /\ \A r \in Reqs : Happened(ticket[r])
  /\ \A i \in DOMAIN tasks : Happened(tasks[i].from)
  /\ \A n \in DOMAIN log : Happened(log[n].of)

TicketsApart ==
  \A r, q \in Reqs : r # q /\ Completed(ticket[r]) => ticket[r] # ticket[q]

Unspent ==
  \A r \in Reqs : pc[r] \in Spawning /\ Completed(ticket[r]) =>
    \A i \in DOMAIN tasks : tasks[i].from # ticket[r]

Untold ==
  \A r \in Reqs : Completed(ticket[r]) => \A n \in DOMAIN log : log[n].of # ticket[r]

\* A row that a create of the user made has no ticket, any other that of a completion.
FromOK == \A i \in DOMAIN tasks : tasks[i].from = NoTicket \/ Completed(tasks[i].from)

TicketsOK == /\ Counters /\ TicketsApart /\ Unspent /\ Untold /\ FromOK
             /\ OneNextPerCompletion /\ CompletionToldOnce

IInv == TypeOK /\ HolderOK /\ TicketsOK

-----------------------------------------------------------------------------
(* Sequences.                                                              *)

\* Replacing one entry of a sequence by a value of the same set.
LEMMA OverwriteSeq ==
  ASSUME NEW S, NEW s \in Seq(S), NEW i \in DOMAIN s, NEW x \in S
  PROVE  /\ [s EXCEPT ![i] = x] \in Seq(S)
         /\ DOMAIN [s EXCEPT ![i] = x] = DOMAIN s
         /\ \A j \in DOMAIN s : [s EXCEPT ![i] = x][j] = IF j = i THEN x ELSE s[j]
  OBVIOUS

\* An entry of a sequence.
LEMMA ElementOfSeq ==
  ASSUME NEW S, NEW s \in Seq(S), NEW i \in DOMAIN s
  PROVE  s[i] \in S
  OBVIOUS

\* Appending a value of the same set.
LEMMA AppendSeq ==
  ASSUME NEW S, NEW s \in Seq(S), NEW x \in S
  PROVE  /\ Append(s, x) \in Seq(S)
         /\ \E n \in Nat \ {0} : n = Len(s) + 1 /\ n \notin DOMAIN s
              /\ DOMAIN Append(s, x) = DOMAIN s \union {n}
              /\ Append(s, x)[n] = x
              /\ \A j \in DOMAIN s : Append(s, x)[j] = s[j]
  <1>1. PICK n \in Nat : n = Len(s) + 1
    OBVIOUS
  <1>2. n # 0 /\ n \notin DOMAIN s /\ DOMAIN Append(s, x) = DOMAIN s \union {n}
    BY <1>1
  <1>3. Append(s, x)[n] = x /\ \A j \in DOMAIN s : Append(s, x)[j] = s[j]
    BY <1>1
  <1> QED BY <1>1, <1>2, <1>3

-----------------------------------------------------------------------------
(* Types: what a step does to the request that takes it.                   *)

\* A request that is answered leaves the others as they are.
LEMMA AnswerKeepsRequests ==
  ASSUME RequestsOK, NEW r \in Reqs, Answer(r), DOMAIN tasks \subseteq DOMAIN tasks',
         stale' \subseteq Reqs
  PROVE  RequestsOK'
  <1>1. NoCall \in Calls /\ NoRow \in Rows /\ NoTicket \in Tickets
    BY DEF NoCall, Calls, AllKinds, NoRow, Rows, Statuses, NoTicket, Tickets
  <1>2. pc' \in [Reqs -> Statements] /\ call' \in [Reqs -> Calls] /\ cur' \in [Reqs -> Rows]
        /\ ticket' \in [Reqs -> Tickets] /\ DOMAIN ids' = Reqs
    BY <1>1 DEF RequestsOK, Answer, Statements
  <1>3. \A q \in Reqs : IF q = r
          THEN pc'[q] = "idle" /\ ids'[q] = {}
          ELSE pc'[q] = pc[q] /\ call'[q] = call[q] /\ cur'[q] = cur[q] /\ ids'[q] = ids[q]
    BY DEF RequestsOK, Answer
  <1> QED BY <1>2, <1>3 DEF RequestsOK, Id

\* A request that goes on to its next statement does so too.
LEMMA GotoKeepsRequests ==
  ASSUME RequestsOK, NEW r \in Reqs, NEW next \in Statements \ {"lookup", "begin"},
         Goto(r, next), pc[r] # "idle", UNCHANGED call,
         cur' \in [Reqs -> Rows], \A q \in Reqs \ {r} : cur'[q] = cur[q],
         ticket' \in [Reqs -> Tickets],
         DOMAIN ids' = Reqs, \A q \in Reqs \ {r} : ids'[q] = ids[q],
         ids'[r] \subseteq DOMAIN tasks',
         DOMAIN tasks \subseteq DOMAIN tasks', stale' \subseteq Reqs,
         next = "insert" /\ call[r].kind # "create" => cur'[r].left > 0,
         next = "advance" => cur'[r].left > 0
  PROVE  RequestsOK'
  <1>1. pc' \in [Reqs -> Statements] /\ call' \in [Reqs -> Calls]
    BY DEF RequestsOK, Goto
  <1>2. \A q \in Reqs : pc'[q] = IF q = r THEN next ELSE pc[q]
    BY DEF RequestsOK, Goto
  <1>3. \A q \in Reqs : pc'[q] # "idle" => Id(q)' \in DOMAIN tasks'
    BY <1>2 DEF RequestsOK, Id
  <1>4. \A q \in Reqs : ids'[q] \subseteq DOMAIN tasks'
    BY DEF RequestsOK
  <1> QED BY <1>1, <1>2, <1>3, <1>4 DEF RequestsOK

\* A request in flight stands at a row.
LEMMA RowOfRequest ==
  ASSUME TypeOK, NEW r \in Reqs, pc[r] # "idle"
  PROVE  Id(r) \in DOMAIN tasks /\ tasks[Id(r)] \in Rows /\ call[r] \in Calls
         /\ times[Id(r)] \in [completed : Nat, reopened : Nat]
         /\ tasks[Id(r)].left \in Nat
  <1>1. Id(r) \in DOMAIN tasks /\ call[r] \in Calls
    BY DEF TypeOK, RequestsOK
  <1>2. tasks[Id(r)] \in Rows
    BY <1>1, ElementOfSeq DEF TypeOK, TableOK
  <1>3. times[Id(r)] \in [completed : Nat, reopened : Nat]
    BY <1>1, ElementOfSeq DEF TypeOK, TableOK, TimesOK
  <1> QED BY <1>1, <1>2, <1>3 DEF Rows

\* Overwriting a row keeps the table and its ids.
LEMMA RowOverwritten ==
  ASSUME tasks \in Seq(Rows), NEW i \in DOMAIN tasks, NEW row \in Rows,
         tasks' = [tasks EXCEPT ![i] = row]
  PROVE  /\ tasks' \in Seq(Rows) /\ DOMAIN tasks' = DOMAIN tasks
         /\ \A j \in DOMAIN tasks : tasks'[j] = IF j = i THEN row ELSE tasks[j]
  BY OverwriteSeq

\* The counters after a write of the status: those of the row are not lower, and a
\* completion counts one more if there was one.
LEMMA CountedIs ==
  ASSUME times \in Seq([completed : Nat, reopened : Nat]), NEW i \in DOMAIN times, NEW s
  PROVE  /\ Counted(i, s) \in Seq([completed : Nat, reopened : Nat])
         /\ DOMAIN Counted(i, s) = DOMAIN times
         /\ Counted(i, s)[i].completed \in Nat /\ Counted(i, s)[i].reopened \in Nat
         /\ \A j \in DOMAIN times : Counted(i, s)[j].completed >= times[j].completed
         /\ s = "done" /\ tasks[i].status # "done" =>
              Counted(i, s)[i].completed = times[i].completed + 1
  <1> DEFINE new == [completed |-> times[i].completed
                       + IF s = "done" /\ tasks[i].status # "done" THEN 1 ELSE 0,
                     reopened |-> times[i].reopened
                       + IF s # "done" /\ tasks[i].status = "done" THEN 1 ELSE 0]
  <1>1. times[i] \in [completed : Nat, reopened : Nat]
    BY ElementOfSeq
  <1>2. new \in [completed : Nat, reopened : Nat] /\ new.completed >= times[i].completed
        /\ (s = "done" /\ tasks[i].status # "done" => new.completed = times[i].completed + 1)
    BY <1>1
  <1>3. Counted(i, s) = [times EXCEPT ![i] = new]
    BY DEF Counted
  <1>4. \A j \in DOMAIN times : times[j].completed \in Nat
    <2> TAKE j \in DOMAIN times
    <2>1. times[j] \in [completed : Nat, reopened : Nat]
      BY ElementOfSeq
    <2> QED BY <2>1
  <1> HIDE DEF new
  <1>5. /\ Counted(i, s) \in Seq([completed : Nat, reopened : Nat])
        /\ DOMAIN Counted(i, s) = DOMAIN times
        /\ \A j \in DOMAIN times : Counted(i, s)[j] = IF j = i THEN new ELSE times[j]
    BY <1>2, <1>3, OverwriteSeq
  <1>6. \A j \in DOMAIN times : Counted(i, s)[j].completed >= times[j].completed
    <2> TAKE j \in DOMAIN times
    <2>1. times[j].completed \in Nat
      BY <1>4
    <2>2. CASE j = i
      BY <2>2, <1>2, <1>5
    <2>3. CASE j # i
      BY <2>1, <2>3, <1>5
    <2> QED BY <2>2, <2>3
  <1> QED BY <1>2, <1>5, <1>6

\* The status of a row is written: what the table, the counters and the tickets are.
LEMMA StatusWritten ==
  ASSUME TypeOK, NEW r \in Reqs, pc[r] # "idle", NEW s \in Statuses, SetStatus(r, s)
  PROVE  /\ tasks' \in Seq(Rows) /\ TimesOK' /\ DOMAIN tasks' = DOMAIN tasks
         /\ ticket' \in [Reqs -> Tickets] /\ stale' \subseteq Reqs
         /\ \A j \in DOMAIN tasks : tasks'[j].from = tasks[j].from
  <1> DEFINE i == Id(r)
  <1>1. i \in DOMAIN tasks /\ tasks[i] \in Rows /\ times[i] \in [completed : Nat, reopened : Nat]
        /\ tasks \in Seq(Rows) /\ times \in Seq([completed : Nat, reopened : Nat])
        /\ DOMAIN times = DOMAIN tasks
    BY RowOfRequest DEF TypeOK, TableOK, TimesOK
  <1> DEFINE row == [tasks[i] EXCEPT !.status = s]
  <1>2. row \in Rows /\ row.from = tasks[i].from
    BY <1>1 DEF Rows
  <1>3. tasks' = [tasks EXCEPT ![i] = row]
    BY <1>1 DEF SetStatus
  <1>4. tasks' \in Seq(Rows) /\ DOMAIN tasks' = DOMAIN tasks
        /\ \A j \in DOMAIN tasks : tasks'[j].from = tasks[j].from
    <2> HIDE DEF row
    <2> QED BY <1>1, <1>2, <1>3, RowOverwritten
  <1>5. times' = Counted(i, s) /\ Counted(i, s) \in Seq([completed : Nat, reopened : Nat])
        /\ DOMAIN Counted(i, s) = DOMAIN times /\ Counted(i, s)[i].completed \in Nat
        /\ Counted(i, s)[i].reopened \in Nat
    BY <1>1, CountedIs DEF SetStatus
  <1>6. TicketOf(i, s) \in Tickets
    BY <1>1, <1>5 DEF TicketOf, Tickets, Whats, TypeOK, TableOK
  <1>7. ticket' \in [Reqs -> Tickets] /\ stale' \subseteq Reqs
    BY <1>6 DEF SetStatus, TypeOK, RequestsOK, Commits
  <1> QED BY <1>1, <1>4, <1>5, <1>7 DEF TimesOK

\* A write of the contents, of the version and of the rule gives a row.
LEMMA EditedRow ==
  ASSUME NEW row \in Rows, NEW v \in Nat, NEW n \in Nat
  PROVE  /\ [row EXCEPT !.val = v] \in Rows
         /\ Bumped([row EXCEPT !.val = v]) \in Rows
         /\ [row EXCEPT !.left = n, !.val = v] \in Rows
  <1>1. row.version + 1 \in Nat
    BY DEF Rows
  <1> QED BY <1>1 DEF Rows, Bumped

-----------------------------------------------------------------------------
(* Types: the actions.                                                     *)

LEMMA ArriveTypes ==
  ASSUME TypeOK, NEW r \in Reqs, NEW kind \in Kinds, NEW i \in DOMAIN tasks,
         NEW want \in Wants(kind), NEW cid \in IF kind = "create" THEN Cids ELSE {0},
         Arrive(r, kind, i, want, cid)
  PROVE  TypeOK'
  <1>1. kind \in AllKinds /\ cid \in Nat
    BY ConstantsAssumption
  <1>2. want \in Statuses \union {"none"}
    BY <1>1 DEF Wants, Statuses, AllKinds
  <1>3. tasks[i] \in Rows /\ i \in Nat
    BY ElementOfSeq DEF TypeOK, TableOK
  <1> DEFINE c == [kind |-> kind, id |-> i, want |-> want, cid |-> cid,
                   version |-> tasks[i].version, val |-> tasks[i].val]
  <1>4. c \in Calls /\ c.id = i /\ c.kind = kind
    BY <1>1, <1>2, <1>3 DEF Calls, Rows
  <1>5. call' = [call EXCEPT ![r] = c]
    BY DEF Arrive
  <1>6. First(kind) \in Statements \ {"insert", "advance", "begin"}
        /\ (First(kind) = "lookup" => kind = "create")
    BY <1>1 DEF First, Statements, AllKinds
  <1>7. RequestsOK'
    <2> HIDE DEF c
    <2>1. pc' = [pc EXCEPT ![r] = First(kind)] /\ UNCHANGED <<tasks, cur, ids, stale, ticket>>
      BY DEF Arrive, Goto
    <2> HIDE DEF First
    <2>2. pc' \in [Reqs -> Statements] /\ call' \in [Reqs -> Calls]
      BY <1>4, <1>5, <1>6, <2>1 DEF TypeOK, RequestsOK
    <2>3. \A q \in Reqs : IF q = r THEN pc'[q] = First(kind) /\ call'[q] = c
                                   ELSE pc'[q] = pc[q] /\ call'[q] = call[q]
      BY <1>5, <2>1 DEF TypeOK, RequestsOK
    <2> QED BY <1>4, <1>6, <2>1, <2>2, <2>3 DEF TypeOK, RequestsOK, Id
  <1>8. TableOK'
    <2>1. requests' \in 0 .. MaxReqs
      BY ConstantsAssumption DEF Arrive, TypeOK, TableOK
    <2> QED BY <2>1 DEF Arrive, TypeOK, TableOK, TimesOK
  <1> QED BY <1>7, <1>8 DEF TypeOK

LEMMA CompletingTypes ==
  ASSUME TypeOK, NEW r \in Reqs, Completing(r)
  PROVE  TypeOK'
  <1> USE DEF TypeOK, Statements
  <1>0. UNCHANGED <<tasks, times, log, edits, requests, crashes>> => TableOK'
    BY DEF TableOK, TimesOK
  <1>1. CASE CheckEnds(r)
    BY <1>0, <1>1, AnswerKeepsRequests DEF CheckEnds, RequestsOK
  <1>2. CASE CheckGoesOn(r)
    BY <1>0, <1>2, GotoKeepsRequests DEF CheckGoesOn, RequestsOK
  <1>3. CASE ToggleRead(r)
    <2>1. TableOK' /\ stale' \subseteq Reqs /\ tasks' = tasks /\ pc[r] = "read"
      BY <1>0, <1>3 DEF ToggleRead, RequestsOK
    <2>2. CASE Found(r)
      <3> DEFINE next == IF tasks[Id(r)].status = "done" THEN "flip" ELSE "finish"
      <3>1. tasks[Id(r)] \in Rows
        BY <2>1, RowOfRequest
      <3>2. cur' = [cur EXCEPT ![r] = tasks[Id(r)]] /\ Goto(r, next)
            /\ UNCHANGED <<call, ids, ticket>>
        BY <1>3, <2>2 DEF ToggleRead
      <3>3. cur' \in [Reqs -> Rows] /\ \A q \in Reqs \ {r} : cur'[q] = cur[q]
        BY <3>1, <3>2 DEF RequestsOK
      <3>4. RequestsOK'
        BY <2>1, <3>2, <3>3, GotoKeepsRequests DEF RequestsOK
      <3> QED BY <2>1, <3>4
    <2>3. CASE ~Found(r)
      BY <1>3, <2>1, <2>3, AnswerKeepsRequests DEF ToggleRead
    <2> QED BY <2>2, <2>3
  <1>4. CASE FinishWins(r)
    BY <1>4, StatusWritten, GotoKeepsRequests DEF FinishWins, RequestsOK, TableOK, Statuses
  <1>5. CASE FinishLoses(r)
    BY <1>0, <1>5, AnswerKeepsRequests DEF FinishLoses, RequestsOK
  <1>6. CASE Flip(r) /\ Found(r)
    BY <1>6, StatusWritten, GotoKeepsRequests DEF Flip, RequestsOK, TableOK, Statuses
  <1>7. CASE Flip(r) /\ ~Found(r)
    BY <1>0, <1>7, AnswerKeepsRequests DEF Flip, RequestsOK
  <1>8. CASE ReopenRead(r)
    BY <1>0, <1>8, AnswerKeepsRequests, GotoKeepsRequests DEF ReopenRead, RequestsOK
  <1>9. CASE Restart(r) /\ Found(r) /\ tasks[Id(r)].status = "done"
    BY <1>9, StatusWritten, GotoKeepsRequests DEF Restart, RequestsOK, TableOK, Statuses
  <1>10. CASE Restart(r) /\ ~(Found(r) /\ tasks[Id(r)].status = "done")
    BY <1>0, <1>10, AnswerKeepsRequests DEF Restart, RequestsOK
  <1> QED BY <1>1, <1>2, <1>3, <1>4, <1>5, <1>6, <1>7, <1>8, <1>9, <1>10 DEF Completing

LEMMA PatchingTypes ==
  ASSUME TypeOK, NEW r \in Reqs, Patching(r)
  PROVE  TypeOK'
  <1> USE DEF TypeOK, Statements
  <1>0. UNCHANGED <<tasks, times, log, edits, requests, crashes>> => TableOK'
    BY DEF TableOK, TimesOK
  <1>1. CASE Match(r)
    BY <1>0, <1>1, AnswerKeepsRequests, GotoKeepsRequests DEF Match, RequestsOK
  <1>2. CASE Load(r)
    BY <1>0, <1>2, AnswerKeepsRequests, GotoKeepsRequests DEF Load, RequestsOK
  <1>3. CASE PatchWrite(r) /\ ~Found(r)
    BY <1>0, <1>3, AnswerKeepsRequests DEF PatchWrite, RequestsOK
  <1>4. CASE PatchWrite(r) /\ Found(r)
    <2> DEFINE i == Id(r)
               s == call[r].want
               changes == s # "none" /\ s # tasks[i].status
               row == Bumped([tasks[i] EXCEPT !.val = edits + 1])
               new == IF changes THEN [row EXCEPT !.status = s] ELSE row
    <2>1. /\ pc[r] = "write" /\ edits' = edits + 1 /\ tasks' = [tasks EXCEPT ![i] = new]
          /\ times' = IF changes THEN Counted(i, s) ELSE times
          /\ ticket' = IF changes THEN [ticket EXCEPT ![r] = TicketOf(i, s)] ELSE ticket
          /\ Commits(r) /\ Goto(r, "reread")
          /\ UNCHANGED <<call, cur, ids, log, requests, crashes>>
      BY <1>4 DEF PatchWrite
    <2>2. i \in DOMAIN tasks /\ tasks[i] \in Rows /\ call[r] \in Calls
      BY <2>1, RowOfRequest
    <2>3. row \in Rows
      <3>1. edits + 1 \in Nat
        BY DEF TableOK
      <3> QED BY <2>2, <3>1, EditedRow
    <2>4. new \in Rows
      BY <2>2, <2>3 DEF Rows, Calls
    <2>5. tasks' \in Seq(Rows) /\ DOMAIN tasks' = DOMAIN tasks
      <3> HIDE DEF new
      <3> QED BY <2>1, <2>2, <2>4, RowOverwritten DEF TableOK
    <2>6. Counted(i, s) \in Seq([completed : Nat, reopened : Nat])
          /\ DOMAIN Counted(i, s) = DOMAIN times /\ Counted(i, s)[i].completed \in Nat
          /\ Counted(i, s)[i].reopened \in Nat
      BY <2>2, CountedIs DEF TableOK, TimesOK
    <2>7. TicketOf(i, s) \in Tickets
      BY <2>2, <2>6 DEF TicketOf, Tickets, Whats, TableOK
    <2>8. ticket' \in [Reqs -> Tickets] /\ stale' \subseteq Reqs
      BY <2>1, <2>7 DEF RequestsOK, Commits
    <2>9. TableOK'
      <3> HIDE DEF changes
      <3>1. edits' \in Nat
        BY <2>1 DEF TableOK
      <3>2. times' \in Seq([completed : Nat, reopened : Nat]) /\ DOMAIN times' = DOMAIN tasks'
        BY <2>1, <2>5, <2>6 DEF TableOK, TimesOK
      <3> QED BY <2>1, <2>5, <3>1, <3>2 DEF TableOK, TimesOK
    <2>10. RequestsOK'
      BY <2>1, <2>5, <2>8, GotoKeepsRequests DEF RequestsOK
    <2> QED BY <2>9, <2>10
  <1>5. CASE Reread(r) /\ ~Found(r)
    BY <1>0, <1>5, AnswerKeepsRequests DEF Reread, RequestsOK
  <1>6. CASE Reread(r) /\ Found(r)
    <2> DEFINE next == IF ticket[r] # NoTicket /\ call[r].want = "done" THEN "spawn" ELSE "tell"
    <2>1. pc[r] = "reread" /\ cur' = [cur EXCEPT ![r] = tasks[Id(r)]] /\ Goto(r, next)
          /\ UNCHANGED <<call, ids, ticket, tasks, stale, times, log, edits, requests, crashes>>
      BY <1>6 DEF Reread
    <2>2. cur' \in [Reqs -> Rows] /\ \A q \in Reqs \ {r} : cur'[q] = cur[q]
      BY <2>1, RowOfRequest DEF RequestsOK
    <2>3. RequestsOK'
      BY <2>1, <2>2, GotoKeepsRequests DEF RequestsOK
    <2> QED BY <1>0, <2>1, <2>3
  <1> QED BY <1>1, <1>2, <1>3, <1>4, <1>5, <1>6 DEF Patching

LEMMA CreatingTypes ==
  ASSUME TypeOK, NEW r \in Reqs, Creating(r)
  PROVE  TypeOK'
  <1> USE DEF TypeOK, Statements
  <1>0. UNCHANGED <<tasks, times, log, edits, requests, crashes>> => TableOK'
    BY DEF TableOK, TimesOK
  <1>1. CASE SpawnNothing(r)
    BY <1>0, <1>1, GotoKeepsRequests DEF SpawnNothing, RequestsOK
  <1>2. CASE Lookup(r) /\ CidTaken(call[r].cid)
    BY <1>0, <1>2, AnswerKeepsRequests DEF Lookup, RequestsOK
  <1>3. CASE Lookup(r) /\ ~CidTaken(call[r].cid)
    <2>1. pc[r] = "lookup" /\ pc' = [pc EXCEPT ![r] = "begin"]
          /\ UNCHANGED <<tasks, call, cur, ids, stale, ticket>>
      BY <1>3 DEF Lookup, Goto
    <2>2. RequestsOK'
      BY <2>1 DEF RequestsOK, Id
    <2> QED BY <1>0, <1>3, <2>2 DEF Lookup
  <1>4. CASE CreateBegin(r)
    BY <1>0, <1>4, GotoKeepsRequests DEF CreateBegin, RequestsOK
  <1>5. CASE InsertDone(r)
    <2> DEFINE row == IF call[r].kind = "create" THEN NewTask(Occurrences, call[r].cid, NoTicket)
                                                 ELSE NewTask(cur[r].left - 1, 0, ticket[r])
               zero == [completed |-> 0, reopened |-> 0]
    <2>1. pc[r] = "insert" /\ tasks' = Append(tasks, row) /\ times' = Append(times, zero)
          /\ edits' = edits + 1 /\ Commits(r) /\ UNCHANGED <<log, requests, crashes>>
      BY <1>5 DEF InsertDone
    <2>2. call[r] \in Calls /\ cur[r] \in Rows /\ ticket[r] \in Tickets
          /\ (call[r].kind # "create" => cur[r].left > 0)
      BY <2>1 DEF RequestsOK
    <2>3. row \in Rows
      BY <2>2, ConstantsAssumption
      DEF Rows, NewTask, Calls, Statuses, Tickets, NoTicket, TableOK
    <2>4. tasks' \in Seq(Rows) /\ DOMAIN tasks \subseteq DOMAIN tasks' /\ TimesOK'
      <3> HIDE DEF row
      <3> QED BY <2>1, <2>3 DEF TableOK, TimesOK
    <2>5. TableOK'
      BY <2>1, <2>4 DEF TableOK
    <2>6. stale' \subseteq Reqs
      BY <2>1 DEF Commits
    <2>7. RequestsOK'
      BY <1>5, <2>1, <2>4, <2>6, AnswerKeepsRequests, GotoKeepsRequests DEF InsertDone, RequestsOK
    <2> QED BY <2>5, <2>7
  <1>6. CASE InsertFails(r)
    <2>1. stale' \subseteq Reqs /\ pc[r] = "insert" /\ UNCHANGED tasks
      BY <1>6 DEF InsertFails, RequestsOK
    <2>2. RequestsOK'
      BY <1>6, <2>1, AnswerKeepsRequests, GotoKeepsRequests DEF InsertFails, RequestsOK
    <2> QED BY <1>0, <1>6, <2>2 DEF InsertFails
  <1>7. CASE Tell(r)
    <2>1. stale' \subseteq Reqs
      BY <1>7 DEF Tell, Commits
    <2>2. RequestsOK'
      BY <1>7, <2>1, AnswerKeepsRequests DEF Tell
    <2>3. [what |-> Told(r), of |-> ticket[r]] \in [what : Whats, of : Tickets]
      BY DEF Told, Whats, RequestsOK
    <2>4. log' \in Seq([what : Whats, of : Tickets])
      <3> DEFINE entry == [what |-> Told(r), of |-> ticket[r]]
                 Entries == [what : Whats, of : Tickets]
      <3>1. entry \in Entries /\ log \in Seq(Entries)
        BY <2>3 DEF TableOK
      <3>2. log' = Append(log, entry) \/ log' = log
        BY <1>7 DEF Tell
      <3> HIDE DEF entry, Entries
      <3>3. log' \in Seq(Entries)
        BY <3>1, <3>2
      <3> QED BY <3>3 DEF Entries
    <2>5. TableOK'
      BY <1>7, <2>4 DEF Tell, TableOK, TimesOK
    <2> QED BY <2>2, <2>5
  <1> QED BY <1>1, <1>2, <1>3, <1>4, <1>5, <1>6, <1>7 DEF Creating

LEMMA ChangingTypes ==
  ASSUME TypeOK, NEW r \in Reqs, Changing(r)
  PROVE  TypeOK'
  <1> USE DEF TypeOK, Statements
  <1>0. UNCHANGED <<tasks, times, log, edits, requests, crashes>> => TableOK'
    BY DEF TableOK, TimesOK
  <1>1. CASE Move(r) /\ ~Found(r)
    BY <1>0, <1>1, AnswerKeepsRequests DEF Move, RequestsOK
  <1>2. CASE Move(r) /\ Found(r)
    <2> DEFINE row == [tasks[Id(r)] EXCEPT !.val = edits + 1]
    <2>1. pc[r] = "move" /\ tasks' = [tasks EXCEPT ![Id(r)] = row] /\ edits' = edits + 1
          /\ Answer(r) /\ Commits(r) /\ UNCHANGED <<times, log, requests, crashes>>
      BY <1>2 DEF Move
    <2>2. Id(r) \in DOMAIN tasks /\ row \in Rows
      <3>1. edits + 1 \in Nat
        BY DEF TableOK
      <3> QED BY <2>1, <3>1, RowOfRequest, EditedRow
    <2>3. tasks' \in Seq(Rows) /\ DOMAIN tasks' = DOMAIN tasks /\ stale' \subseteq Reqs
      <3> HIDE DEF row
      <3> QED BY <2>1, <2>2, RowOverwritten DEF TableOK, Commits
    <2> QED BY <2>1, <2>3, AnswerKeepsRequests DEF TableOK, TimesOK
  <1>3. CASE SkipRead(r)
    <2>1. pc[r] = "skip" /\ tasks[Id(r)] \in Rows
          /\ UNCHANGED <<tasks, stale, times, log, edits, requests, crashes>>
      BY <1>3, RowOfRequest DEF SkipRead
    <2>2. CASE Found(r) /\ tasks[Id(r)].left > 0
      <3>1. cur' = [cur EXCEPT ![r] = tasks[Id(r)]] /\ Goto(r, "advance")
            /\ UNCHANGED <<call, ids, ticket>>
        BY <1>3, <2>2 DEF SkipRead
      <3>2. cur' \in [Reqs -> Rows] /\ cur'[r].left > 0 /\ \A q \in Reqs \ {r} : cur'[q] = cur[q]
        BY <2>1, <2>2, <3>1 DEF RequestsOK
      <3> QED BY <1>0, <2>1, <3>1, <3>2, GotoKeepsRequests DEF RequestsOK
    <2>3. CASE ~(Found(r) /\ tasks[Id(r)].left > 0)
      BY <1>0, <1>3, <2>1, <2>3, AnswerKeepsRequests DEF SkipRead, RequestsOK
    <2> QED BY <2>2, <2>3
  <1>4. CASE SkipWrite(r) /\ ~Found(r)
    BY <1>0, <1>4, AnswerKeepsRequests DEF SkipWrite, RequestsOK
  <1>5. CASE SkipWrite(r) /\ Found(r)
    <2> DEFINE row == [tasks[Id(r)] EXCEPT !.left = cur[r].left - 1, !.val = edits + 1]
    <2>1. pc[r] = "advance" /\ tasks' = [tasks EXCEPT ![Id(r)] = row] /\ edits' = edits + 1
          /\ Answer(r) /\ Commits(r) /\ UNCHANGED <<times, log, requests, crashes>>
      BY <1>5 DEF SkipWrite
    <2>2. cur[r] \in Rows /\ cur[r].left > 0
      BY <2>1 DEF RequestsOK
    <2>3. Id(r) \in DOMAIN tasks /\ row \in Rows
      <3>1. edits + 1 \in Nat /\ cur[r].left - 1 \in Nat
        BY <2>2 DEF TableOK, Rows
      <3> QED BY <2>1, <3>1, RowOfRequest, EditedRow
    <2>4. tasks' \in Seq(Rows) /\ DOMAIN tasks' = DOMAIN tasks /\ stale' \subseteq Reqs
      <3> HIDE DEF row
      <3> QED BY <2>1, <2>3, RowOverwritten DEF TableOK, Commits
    <2> QED BY <2>1, <2>4, AnswerKeepsRequests DEF TableOK, TimesOK
  <1>6. CASE FindDoomed(r) /\ ~Found(r)
    BY <1>0, <1>6, AnswerKeepsRequests DEF FindDoomed, RequestsOK
  <1>7. CASE FindDoomed(r) /\ Found(r)
    BY <1>0, <1>7, RowOfRequest, GotoKeepsRequests DEF FindDoomed, RequestsOK, Commits
  <1>8. CASE SelectDoomed(r)
    <2>1. pc[r] = "select" /\ stale' \subseteq Reqs
          /\ UNCHANGED <<tasks, times, log, edits, requests, crashes>>
      BY <1>8 DEF SelectDoomed, Commits, RequestsOK
    <2> DEFINE completed == {i \in DOMAIN tasks : tasks[i].live /\ tasks[i].status = "done"}
    <2>2. CASE completed = {}
      BY <1>0, <1>8, <2>1, <2>2, AnswerKeepsRequests DEF SelectDoomed
    <2>3. CASE completed # {}
      BY <1>0, <1>8, <2>1, <2>3, GotoKeepsRequests DEF SelectDoomed, RequestsOK
    <2> QED BY <2>2, <2>3
  <1>9. CASE Erase(r)
    <2>1. PICK i \in ids[r] : /\ tasks' = [tasks EXCEPT ![i].live = FALSE]
                              /\ IF ids[r] = {i} THEN Answer(r)
                                 ELSE /\ ids' = [ids EXCEPT ![r] = @ \ {i}]
                                      /\ UNCHANGED <<pc, call, cur, ticket>>
      BY <1>9 DEF Erase
    <2> DEFINE row == [tasks[i] EXCEPT !.live = FALSE]
    <2>2. i \in DOMAIN tasks /\ tasks[i] \in Rows
      BY <2>1, ElementOfSeq DEF RequestsOK, TableOK
    <2>3. row \in Rows /\ tasks' = [tasks EXCEPT ![i] = row]
      BY <2>1, <2>2 DEF Rows
    <2>4. tasks' \in Seq(Rows) /\ DOMAIN tasks' = DOMAIN tasks /\ stale' \subseteq Reqs
      <3> HIDE DEF row
      <3> QED BY <1>9, <2>2, <2>3, RowOverwritten DEF TableOK, Commits, Erase
    <2>5. RequestsOK'
      <3>1. CASE ids[r] = {i}
        BY <2>1, <2>4, <3>1, AnswerKeepsRequests
      <3>2. CASE ids[r] # {i}
        BY <2>1, <2>4, <3>2 DEF RequestsOK, Id
      <3> QED BY <3>1, <3>2
    <2>6. TableOK'
      BY <1>9, <2>4 DEF Erase, TableOK, TimesOK
    <2> QED BY <2>5, <2>6
  <1> QED BY <1>1, <1>2, <1>3, <1>4, <1>5, <1>6, <1>7, <1>8, <1>9 DEF Changing

LEMMA CrashTypes ==
  ASSUME TypeOK, Crash
  PROVE  TypeOK'
  <1>1. NoCall \in Calls /\ NoRow \in Rows /\ NoTicket \in Tickets
    BY DEF NoCall, Calls, AllKinds, NoRow, Rows, Statuses, NoTicket, Tickets
  <1>2. TableOK'
    BY ConstantsAssumption DEF Crash, TypeOK, TableOK, TimesOK
  <1>3. RequestsOK'
    BY <1>1 DEF Crash, TypeOK, RequestsOK, Statements, Id
  <1> QED BY <1>2, <1>3 DEF TypeOK

LEMMA TypesStep == TypeOK /\ [Next]_vars => TypeOK'
  <1> SUFFICES ASSUME TypeOK, [Next]_vars PROVE TypeOK'
    OBVIOUS
  <1>1. CASE UNCHANGED vars
    BY <1>1 DEF vars, TypeOK, TableOK, TimesOK, RequestsOK, Id
  <1>2. ASSUME NEW r \in Reqs, Arrives(r) PROVE TypeOK'
    BY <1>2, ArriveTypes DEF Arrives
  <1>3. ASSUME NEW r \in Reqs, Completing(r) \/ Patching(r) \/ Creating(r) \/ Changing(r)
        PROVE  TypeOK'
    BY <1>3, CompletingTypes, PatchingTypes, CreatingTypes, ChangingTypes
  <1> QED BY <1>1, <1>2, <1>3, CrashTypes DEF Next

LEMMA TypesInit == Init => TypeOK
  <1> SUFFICES ASSUME Init PROVE TypeOK
    OBVIOUS
  <1>1. NoCall \in Calls /\ NoRow \in Rows /\ NoTicket \in Tickets
    BY DEF NoCall, Calls, AllKinds, NoRow, Rows, Statuses, NoTicket, Tickets
  <1>2. tasks \in Seq(Rows) /\ TimesOK
    BY <1>1, ConstantsAssumption DEF Init, Rows, Statuses, TimesOK
  <1>3. TableOK
    BY <1>2, ConstantsAssumption DEF Init, TableOK
  <1>4. RequestsOK
    BY <1>1 DEF Init, RequestsOK, Statements
  <1> QED BY <1>3, <1>4 DEF TypeOK

\* The table, the requests in flight and the history always hold what the code puts
\* there (model.Task, tasks.go).
THEOREM TypeCorrect == Spec => []TypeOK
  BY TypesInit, TypesStep, PTL DEF Spec

-----------------------------------------------------------------------------
(* Tickets.                                                                *)

\* A step of one request leaves the others alone.
Others(r) == \A q \in Reqs \ {r} : pc'[q] = pc[q] /\ call'[q] = call[q] /\ ticket'[q] = ticket[q]

\* No row gets another origin.
OriginsKept ==
  /\ DOMAIN tasks' = DOMAIN tasks
  /\ \A i \in DOMAIN tasks : tasks'[i].from = tasks[i].from

\* No completion is forgotten.
TimesGrow ==
  /\ DOMAIN times \subseteq DOMAIN times'
  /\ \A i \in DOMAIN times : times[i].completed \in Nat /\ times'[i].completed \in Nat
       /\ times'[i].completed >= times[i].completed

LEMMA HappenedKept ==
  ASSUME TimesGrow, NEW t \in Tickets, Happened(t)
  PROVE  Completed(t) => t.id \in DOMAIN times' /\ t.nr <= times'[t.id].completed
  BY DEF TimesGrow, Happened, Tickets

LEMMA AllAreTickets ==
  ASSUME TypeOK
  PROVE  /\ \A r \in Reqs : ticket[r] \in Tickets
         /\ \A i \in DOMAIN tasks : tasks[i].from \in Tickets
         /\ \A n \in DOMAIN log : log[n].of \in Tickets
  <1>1. \A r \in Reqs : ticket[r] \in Tickets
    BY DEF TypeOK, RequestsOK
  <1>2. \A i \in DOMAIN tasks : tasks[i].from \in Tickets
    <2> TAKE i \in DOMAIN tasks
    <2>1. tasks[i] \in Rows
      BY ElementOfSeq DEF TypeOK, TableOK
    <2> QED BY <2>1 DEF Rows
  <1>3. \A n \in DOMAIN log : log[n].of \in Tickets
    <2> TAKE n \in DOMAIN log
    <2>1. log[n] \in [what : Whats, of : Tickets]
      BY ElementOfSeq DEF TypeOK, TableOK
    <2> QED BY <2>1
  <1> QED BY <1>1, <1>2, <1>3

\* A step that creates no task, writes no history and hands out no completion.
LEMMA PlainKeepsTickets ==
  ASSUME TypeOK, TicketsOK, NEW r \in Reqs, Others(r), OriginsKept, TimesGrow, UNCHANGED log,
         \/ ~Completed(ticket'[r])
         \/ ticket'[r] = ticket[r] /\ (pc'[r] \in Spawning => pc[r] \in Spawning)
  PROVE  TicketsOK'
  <1>1. \A q \in Reqs : Completed(ticket'[q]) =>
          ticket'[q] = ticket[q] /\ (pc'[q] \in Spawning => pc[q] \in Spawning)
    BY DEF Others
  <1>2. Counters'
    BY <1>1, AllAreTickets, HappenedKept
    DEF TicketsOK, Counters, Happened, OriginsKept
  <1>3. TicketsApart' /\ Untold'
    BY <1>1 DEF TicketsOK, TicketsApart, Untold
  <1>4. Unspent'
    BY <1>1 DEF TicketsOK, Unspent, OriginsKept
  <1>5. FromOK' /\ OneNextPerCompletion' /\ CompletionToldOnce'
    BY DEF TicketsOK, FromOK, OneNextPerCompletion, CompletionToldOnce, OriginsKept
  <1> QED BY <1>2, <1>3, <1>4, <1>5 DEF TicketsOK

\* The update that completes a task hands out the next ticket of that task.
LEMMA NewTicket ==
  ASSUME TypeOK, TicketsOK, NEW r \in Reqs, Others(r), OriginsKept, TimesGrow, UNCHANGED log,
         NEW i \in DOMAIN times, times'[i].completed = times[i].completed + 1,
         ticket'[r] = [what |-> "completed", id |-> i, nr |-> times[i].completed + 1]
  PROVE  TicketsOK'
  <1> DEFINE t == [what |-> "completed", id |-> i, nr |-> times[i].completed + 1]
  <1>1. \A u \in Tickets : Happened(u) => u # t
    BY DEF Happened, Completed, TimesGrow, Tickets
  <1>2. \A q \in Reqs \ {r} : pc'[q] = pc[q] /\ ticket'[q] = ticket[q] /\ ticket[q] # t
    BY <1>1, AllAreTickets DEF Others, TicketsOK, Counters
  <1>3. \A k \in DOMAIN tasks : tasks[k].from # t
    BY <1>1, AllAreTickets DEF TicketsOK, Counters
  <1>4. \A n \in DOMAIN log : log[n].of # t
    BY <1>1, AllAreTickets DEF TicketsOK, Counters
  <1>5. Counters'
    <2>1. Happened(ticket[r])' /\ \A q \in Reqs \ {r} : Happened(ticket[q])'
      BY <1>2, AllAreTickets, HappenedKept DEF TicketsOK, Counters, Happened, TimesGrow
    <2> QED BY <2>1, AllAreTickets, HappenedKept DEF TicketsOK, Counters, Happened, OriginsKept
  <1> HIDE DEF t
  <1>6. ticket'[r] = t
    BY DEF t
  <1>7. TicketsApart' /\ Untold'
    BY <1>2, <1>4, <1>6 DEF TicketsOK, TicketsApart, Untold
  <1>8. Unspent'
    BY <1>2, <1>3, <1>6 DEF TicketsOK, Unspent, OriginsKept
  <1>9. FromOK' /\ OneNextPerCompletion' /\ CompletionToldOnce'
    BY DEF TicketsOK, FromOK, OneNextPerCompletion, CompletionToldOnce, OriginsKept
  <1> QED BY <1>5, <1>7, <1>8, <1>9 DEF TicketsOK

\* What holds of a request with a ticket, for one request.
Holder(r) ==
  /\ ticket[r] # NoTicket => pc[r] \in Spawning \union {"tell"}
  /\ pc[r] = "spawn" \/ (pc[r] = "insert" /\ call[r].kind # "create") => Completed(ticket[r])
  /\ pc[r] = "reread" /\ call[r].want = "done" => ticket[r] = NoTicket \/ Completed(ticket[r])

LEMMA HolderKept ==
  ASSUME HolderOK, NEW r \in Reqs, Others(r), Holder(r)'
  PROVE  HolderOK'
  BY DEF HolderOK, Holder, Others

\* A request that is answered holds nothing.
LEMMA AnswerHolds ==
  ASSUME TypeOK, NEW r \in Reqs, Answer(r)
  PROVE  Others(r) /\ Holder(r)' /\ ticket'[r] = NoTicket /\ ~Completed(ticket'[r])
  BY DEF TypeOK, RequestsOK, Answer, Others, Holder, NoTicket, Completed, Spawning

LEMMA GotoHolds ==
  ASSUME TypeOK, NEW r \in Reqs, NEW next, Goto(r, next), UNCHANGED <<call, ticket>>
  PROVE  Others(r) /\ pc'[r] = next /\ ticket'[r] = ticket[r] /\ call'[r] = call[r]
  BY DEF TypeOK, RequestsOK, Goto, Others

LEMMA NothingGrows ==
  ASSUME TypeOK, UNCHANGED <<tasks, times>>
  PROVE  OriginsKept /\ TimesGrow
  <1>1. \A i \in DOMAIN times : times[i].completed \in Nat
    <2> TAKE i \in DOMAIN times
    <2>1. times[i] \in [completed : Nat, reopened : Nat]
      BY ElementOfSeq DEF TypeOK, TableOK, TimesOK
    <2> QED BY <2>1
  <1> QED BY <1>1 DEF OriginsKept, TimesGrow

\* A write of one row that leaves its origin alone.
LEMMA OriginsAfterWrite ==
  ASSUME TypeOK, NEW i \in DOMAIN tasks, NEW row, row.from = tasks[i].from,
         tasks' = [tasks EXCEPT ![i] = row], UNCHANGED times
  PROVE  OriginsKept /\ TimesGrow
  <1>1. DOMAIN tasks' = DOMAIN tasks
        /\ \A j \in DOMAIN tasks : tasks'[j] = IF j = i THEN row ELSE tasks[j]
    BY DEF TypeOK, TableOK
  <1>2. TimesGrow
    <2>1. \A j \in DOMAIN times : times[j].completed \in Nat
      <3> TAKE j \in DOMAIN times
      <3>1. times[j] \in [completed : Nat, reopened : Nat]
        BY ElementOfSeq DEF TypeOK, TableOK, TimesOK
      <3> QED BY <3>1
    <2> QED BY <2>1 DEF TimesGrow
  <1>3. \A j \in DOMAIN tasks : tasks'[j].from = tasks[j].from
    BY <1>1
  <1> QED BY <1>1, <1>2, <1>3 DEF OriginsKept

\* What a write of the status does to the tickets.
LEMMA TicketAfterStatus ==
  ASSUME TypeOK, NEW r \in Reqs, pc[r] # "idle", NEW s \in Statuses, NEW row,
         row.from = tasks[Id(r)].from, tasks' = [tasks EXCEPT ![Id(r)] = row],
         times' = Counted(Id(r), s), ticket' = [ticket EXCEPT ![r] = TicketOf(Id(r), s)]
  PROVE  /\ OriginsKept /\ TimesGrow
         /\ ticket'[r] # NoTicket
         /\ s # "done" => ~Completed(ticket'[r])
         /\ s = "done" /\ tasks[Id(r)].status # "done" =>
              /\ Completed(ticket'[r])
              /\ Id(r) \in DOMAIN times
              /\ times'[Id(r)].completed = times[Id(r)].completed + 1
              /\ ticket'[r] = [what |-> "completed", id |-> Id(r),
                               nr |-> times[Id(r)].completed + 1]
  <1>1. Id(r) \in DOMAIN times /\ Id(r) \in DOMAIN tasks /\ DOMAIN times = DOMAIN tasks
        /\ times \in Seq([completed : Nat, reopened : Nat])
    BY RowOfRequest DEF TypeOK, TableOK, TimesOK
  <1>2. DOMAIN tasks' = DOMAIN tasks
        /\ \A j \in DOMAIN tasks : tasks'[j] = IF j = Id(r) THEN row ELSE tasks[j]
    BY <1>1 DEF TypeOK, TableOK
  <1>3. OriginsKept
    <2>1. \A j \in DOMAIN tasks : tasks'[j].from = tasks[j].from
      BY <1>2
    <2> QED BY <1>2, <2>1 DEF OriginsKept
  <1>4. /\ times' \in Seq([completed : Nat, reopened : Nat]) /\ DOMAIN times' = DOMAIN times
        /\ \A j \in DOMAIN times : times'[j].completed >= times[j].completed
        /\ s = "done" /\ tasks[Id(r)].status # "done" =>
             times'[Id(r)].completed = times[Id(r)].completed + 1
    BY <1>1, CountedIs
  <1>5. TimesGrow
    <2>1. ASSUME NEW j \in DOMAIN times
          PROVE  times[j].completed \in Nat /\ times'[j].completed \in Nat
      <3>1. times[j] \in [completed : Nat, reopened : Nat]
            /\ times'[j] \in [completed : Nat, reopened : Nat]
        BY <1>1, <1>4, <2>1, ElementOfSeq
      <3> QED BY <3>1
    <2> QED BY <1>4, <2>1 DEF TimesGrow
  <1>6. ticket'[r] = TicketOf(Id(r), s)
    BY DEF TypeOK, RequestsOK
  <1> QED BY <1>1, <1>3, <1>4, <1>5, <1>6 DEF TicketOf, NoTicket, Completed

LEMMA ArriveTickets ==
  ASSUME IInv, NEW r \in Reqs, NEW kind \in Kinds, NEW i \in DOMAIN tasks,
         NEW want \in Wants(kind), NEW cid \in IF kind = "create" THEN Cids ELSE {0},
         Arrive(r, kind, i, want, cid)
  PROVE  HolderOK' /\ TicketsOK'
  <1>1. pc[r] = "idle" /\ Goto(r, First(kind)) /\ UNCHANGED <<tasks, times, log, ticket>>
    BY DEF Arrive
  <1>2. First(kind) \notin Spawning \union {"tell"}
    BY ConstantsAssumption DEF First, Spawning, AllKinds
  <1>3. Others(r) /\ pc'[r] = First(kind)
    BY DEF IInv, TypeOK, RequestsOK, Arrive, Goto, Others
  <1>4. Holder(r)'
    BY <1>1, <1>2, <1>3 DEF IInv, HolderOK, Holder, Spawning
  <1>5. HolderOK'
    BY <1>3, <1>4, HolderKept DEF IInv
  <1>6. TicketsOK'
    BY <1>1, <1>2, <1>3, NothingGrows, PlainKeepsTickets DEF IInv
  <1> QED BY <1>5, <1>6

\* The steps that leave tasks, counters and history alone.
LEMMA LocalTickets ==
  ASSUME IInv, NEW r \in Reqs, UNCHANGED <<tasks, times, log>>, Others(r), Holder(r)',
         \/ ~Completed(ticket'[r])
         \/ ticket'[r] = ticket[r] /\ (pc'[r] \in Spawning => pc[r] \in Spawning)
  PROVE  HolderOK' /\ TicketsOK'
  BY HolderKept, NothingGrows, PlainKeepsTickets DEF IInv

LEMMA LocalAnswer ==
  ASSUME IInv, NEW r \in Reqs, UNCHANGED <<tasks, times, log>>, Answer(r)
  PROVE  HolderOK' /\ TicketsOK'
  BY AnswerHolds, LocalTickets DEF IInv

LEMMA LocalGoto ==
  ASSUME IInv, NEW r \in Reqs, UNCHANGED <<tasks, times, log, call, ticket>>,
         pc[r] \notin Spawning \union {"tell"},
         NEW next, next \notin Spawning \union {"tell"}, Goto(r, next)
  PROVE  HolderOK' /\ TicketsOK'
  <1>1. Others(r) /\ pc'[r] = next /\ ticket'[r] = ticket[r] /\ ticket[r] = NoTicket
    BY GotoHolds DEF IInv, HolderOK
  <1>2. Holder(r)'
    BY <1>1 DEF Holder, Spawning
  <1> QED BY <1>1, <1>2, LocalTickets

LEMMA CompletingTickets ==
  ASSUME IInv, NEW r \in Reqs, Completing(r)
  PROVE  HolderOK' /\ TicketsOK'
  <1> USE DEF Spawning
  <1>0. IInv => TypeOK
    BY DEF IInv
  <1>1. CASE CheckEnds(r) \/ FinishLoses(r) \/ (Flip(r) /\ ~Found(r))
             \/ (Restart(r) /\ ~(Found(r) /\ tasks[Id(r)].status = "done"))
    BY <1>1, LocalAnswer DEF CheckEnds, FinishLoses, Flip, Restart
  <1>2. CASE CheckGoesOn(r)
    BY <1>2, LocalGoto DEF CheckGoesOn
  <1>3. CASE ToggleRead(r)
    BY <1>3, LocalGoto, LocalAnswer DEF ToggleRead
  <1>4. CASE ReopenRead(r)
    BY <1>4, LocalGoto, LocalAnswer DEF ReopenRead
  <1> DEFINE row(s) == [tasks[Id(r)] EXCEPT !.status = s]
  <1>5. ASSUME NEW s \in Statuses, SetStatus(r, s), pc[r] # "idle"
        PROVE  row(s).from = tasks[Id(r)].from /\ tasks' = [tasks EXCEPT ![Id(r)] = row(s)]
    <2>1. tasks[Id(r)] \in Rows
      BY <1>0, <1>5, RowOfRequest
    <2> QED BY <1>5, <2>1 DEF SetStatus, Rows
  <1>6. CASE FinishWins(r)
    <2>1. pc[r] = "finish" /\ SetStatus(r, "done") /\ Goto(r, "spawn") /\ "done" \in Statuses
          /\ tasks[Id(r)].status # "done" /\ UNCHANGED <<call, log>>
      BY <1>6 DEF FinishWins, Wins, Statuses
    <2>2. row("done").from = tasks[Id(r)].from /\ tasks' = [tasks EXCEPT ![Id(r)] = row("done")]
      BY <1>5, <2>1
    <2> HIDE DEF row
    <2>3. /\ OriginsKept /\ TimesGrow /\ Completed(ticket'[r]) /\ Id(r) \in DOMAIN times
          /\ times'[Id(r)].completed = times[Id(r)].completed + 1
          /\ ticket'[r] = [what |-> "completed", id |-> Id(r),
                           nr |-> times[Id(r)].completed + 1]
      BY <1>0, <2>1, <2>2, TicketAfterStatus DEF SetStatus
    <2>4. Others(r) /\ pc'[r] = "spawn"
      BY <1>0, <2>1 DEF TypeOK, RequestsOK, SetStatus, Goto, Others
    <2>5. TicketsOK'
      BY <1>0, <2>1, <2>3, <2>4, NewTicket DEF IInv
    <2>6. Holder(r)'
      BY <2>3, <2>4 DEF Holder
    <2> QED BY <2>4, <2>5, <2>6, HolderKept DEF IInv
  <1>7. CASE (Flip(r) /\ Found(r)) \/ (Restart(r) /\ Found(r) /\ tasks[Id(r)].status = "done")
    <2>1. pc[r] # "idle" /\ SetStatus(r, "todo") /\ Goto(r, "tell") /\ "todo" \in Statuses
          /\ UNCHANGED <<call, log>>
      BY <1>7 DEF Flip, Restart, Statuses
    <2>2. row("todo").from = tasks[Id(r)].from /\ tasks' = [tasks EXCEPT ![Id(r)] = row("todo")]
      BY <1>5, <2>1
    <2> HIDE DEF row
    <2>3. OriginsKept /\ TimesGrow /\ ~Completed(ticket'[r])
      BY <1>0, <2>1, <2>2, TicketAfterStatus DEF SetStatus
    <2>4. Others(r) /\ pc'[r] = "tell"
      BY <1>0, <2>1 DEF TypeOK, RequestsOK, SetStatus, Goto, Others
    <2>5. TicketsOK'
      BY <1>0, <2>1, <2>3, <2>4, PlainKeepsTickets DEF IInv
    <2>6. Holder(r)'
      BY <2>4 DEF Holder
    <2> QED BY <2>4, <2>5, <2>6, HolderKept DEF IInv
  <1> QED BY <1>1, <1>2, <1>3, <1>4, <1>6, <1>7 DEF Completing

LEMMA PatchingTickets ==
  ASSUME IInv, NEW r \in Reqs, Patching(r)
  PROVE  HolderOK' /\ TicketsOK'
  <1> USE DEF Spawning
  <1>0. IInv => TypeOK
    BY DEF IInv
  <1>1. CASE Match(r) \/ Load(r)
    BY <1>1, LocalGoto, LocalAnswer DEF Match, Load
  <1>2. CASE (PatchWrite(r) \/ Reread(r)) /\ ~Found(r)
    BY <1>2, LocalAnswer DEF PatchWrite, Reread
  <1>3. CASE Reread(r) /\ Found(r)
    <2> DEFINE next == IF ticket[r] # NoTicket /\ call[r].want = "done" THEN "spawn" ELSE "tell"
    <2>1. pc[r] = "reread" /\ Goto(r, next) /\ UNCHANGED <<tasks, times, log, call, ticket>>
      BY <1>3 DEF Reread
    <2>2. Others(r) /\ pc'[r] = next /\ ticket'[r] = ticket[r] /\ call'[r] = call[r]
      BY <1>0, <2>1, GotoHolds
    <2>3. Holder(r)'
      BY <2>1, <2>2 DEF IInv, HolderOK, Holder
    <2> QED BY <2>1, <2>2, <2>3, LocalTickets
  <1>4. CASE PatchWrite(r) /\ Found(r)
    <2> DEFINE i == Id(r)
               s == call[r].want
               changes == s # "none" /\ s # tasks[i].status
               written == Bumped([tasks[i] EXCEPT !.val = edits + 1])
               row == IF changes THEN [written EXCEPT !.status = s] ELSE written
    <2>1. /\ pc[r] = "write" /\ tasks' = [tasks EXCEPT ![i] = row]
          /\ times' = IF changes THEN Counted(i, s) ELSE times
          /\ ticket' = IF changes THEN [ticket EXCEPT ![r] = TicketOf(i, s)] ELSE ticket
          /\ Goto(r, "reread") /\ UNCHANGED <<call, log>>
      BY <1>4 DEF PatchWrite
    <2>2. i \in DOMAIN tasks /\ tasks[i] \in Rows /\ call[r] \in Calls
      BY <1>0, <2>1, RowOfRequest
    <2>3. row.from = tasks[i].from
      BY <2>2 DEF Bumped, Rows
    <2>4. ticket[r] = NoTicket
      BY <2>1 DEF IInv, HolderOK
    <2>5. Others(r) /\ pc'[r] = "reread" /\ call'[r] = call[r]
      BY <1>0, <2>1 DEF TypeOK, RequestsOK, Goto, Others
    <2> HIDE DEF row
    <2>6. CASE ~changes
      <3>1. OriginsKept /\ TimesGrow
        BY <1>0, <2>1, <2>2, <2>3, <2>6, OriginsAfterWrite
      <3>2. ticket'[r] = NoTicket /\ ~Completed(ticket'[r])
        BY <2>1, <2>4, <2>6 DEF Completed, NoTicket
      <3>3. TicketsOK'
        BY <1>0, <2>1, <2>5, <3>1, <3>2, PlainKeepsTickets DEF IInv
      <3>4. Holder(r)'
        BY <2>5, <3>2 DEF Holder
      <3> QED BY <2>5, <3>3, <3>4, HolderKept DEF IInv
    <2>7. CASE changes /\ s = "done"
      <3>1. s \in Statuses
        BY <2>7 DEF Statuses
      <3>2. /\ OriginsKept /\ TimesGrow /\ Completed(ticket'[r]) /\ i \in DOMAIN times
            /\ times'[i].completed = times[i].completed + 1
            /\ ticket'[r] = [what |-> "completed", id |-> i, nr |-> times[i].completed + 1]
        BY <1>0, <2>1, <2>3, <2>7, <3>1, TicketAfterStatus
      <3>3. TicketsOK'
        BY <1>0, <2>1, <2>5, <3>2, NewTicket DEF IInv
      <3>4. Holder(r)'
        BY <2>5, <3>2 DEF Holder
      <3> QED BY <2>5, <3>3, <3>4, HolderKept DEF IInv
    <2>8. CASE changes /\ s # "done"
      <3>1. s \in Statuses
        BY <2>2, <2>8 DEF Calls
      <3>2. OriginsKept /\ TimesGrow /\ ~Completed(ticket'[r])
        BY <1>0, <2>1, <2>3, <2>8, <3>1, TicketAfterStatus
      <3>3. TicketsOK'
        BY <1>0, <2>1, <2>5, <3>2, PlainKeepsTickets DEF IInv
      <3>4. Holder(r)'
        BY <2>5, <2>8 DEF Holder
      <3> QED BY <2>5, <3>3, <3>4, HolderKept DEF IInv
    <2> QED BY <2>6, <2>7, <2>8
  <1> QED BY <1>1, <1>2, <1>3, <1>4 DEF Patching

\* A new task takes the ticket it was created for, or none.
LEMMA InsertTickets ==
  ASSUME IInv, NEW r \in Reqs, InsertDone(r)
  PROVE  HolderOK' /\ TicketsOK'
  <1> DEFINE t == IF call[r].kind = "create" THEN NoTicket ELSE ticket[r]
             row == IF call[r].kind = "create" THEN NewTask(Occurrences, call[r].cid, NoTicket)
                                               ELSE NewTask(cur[r].left - 1, 0, ticket[r])
             zero == [completed |-> 0, reopened |-> 0]
  <1>0. TypeOK /\ TicketsOK /\ HolderOK
    BY DEF IInv
  <1>1. /\ pc[r] = "insert" /\ tasks' = Append(tasks, row) /\ times' = Append(times, zero)
        /\ UNCHANGED log
        /\ IF call[r].kind = "create" THEN Answer(r)
                                     ELSE Goto(r, "tell") /\ UNCHANGED <<call, ticket>>
    BY DEF InsertDone
  <1>2. row.from = t
    BY DEF NewTask
  <1>3. t = NoTicket \/ (Completed(t) /\ t = ticket[r])
    BY <1>0, <1>1 DEF HolderOK
  <1>4. /\ Others(r) /\ Holder(r)' /\ pc'[r] \notin Spawning
        /\ ticket'[r] = NoTicket \/ ticket'[r] = ticket[r]
    <2>1. CASE call[r].kind = "create"
      BY <1>0, <1>1, <2>1, AnswerHolds DEF Answer, TypeOK, RequestsOK, Spawning
    <2>2. CASE call[r].kind # "create"
      BY <1>0, <1>1, <2>2, GotoHolds DEF Holder, Spawning
    <2> QED BY <2>1, <2>2
  <1> HIDE DEF row, t
  <1>5. PICK n \in Nat : /\ n \notin DOMAIN tasks /\ DOMAIN tasks' = DOMAIN tasks \union {n}
                         /\ tasks'[n] = row /\ \A i \in DOMAIN tasks : tasks'[i] = tasks[i]
    <2>1. PICK n \in Nat : n = Len(tasks) + 1
      BY <1>0 DEF TypeOK, TableOK
    <2> QED BY <1>0, <1>1, <2>1 DEF TypeOK, TableOK
  <1>6. TimesGrow /\ \A i \in DOMAIN times : times'[i] = times[i]
    <2>1. times' \in Seq([completed : Nat, reopened : Nat]) /\ DOMAIN times \subseteq DOMAIN times'
          /\ \A i \in DOMAIN times : times'[i] = times[i]
      BY <1>0, <1>1 DEF TypeOK, TableOK, TimesOK
    <2>2. \A i \in DOMAIN times : times[i].completed \in Nat
      <3> TAKE i \in DOMAIN times
      <3>1. times[i] \in [completed : Nat, reopened : Nat]
        BY <1>0, ElementOfSeq DEF TypeOK, TableOK, TimesOK
      <3> QED BY <3>1
    <2> QED BY <2>1, <2>2 DEF TimesGrow
  <1>7. \A q \in Reqs : Completed(ticket'[q]) => ticket'[q] = ticket[q]
    BY <1>4 DEF Others, Completed, NoTicket
  <1>8. Counters'
    <2>1. \A u \in Tickets : Happened(u) => Happened(u)'
      BY <1>6, HappenedKept DEF Happened
    <2>2. \A q \in Reqs : Happened(ticket[q])'
      BY <1>0, <1>7, <2>1, AllAreTickets DEF TicketsOK, Counters, Happened
    <2>3. \A i \in DOMAIN tasks' : Happened(tasks[i].from)'
      <3> TAKE i \in DOMAIN tasks'
      <3>1. CASE i = n
        <4>1. tasks'[i].from = t
          BY <1>2, <1>5, <3>1
        <4>2. CASE t = NoTicket
          BY <4>1, <4>2 DEF Happened, Completed, NoTicket
        <4>3. CASE t = ticket[r]
          <5>1. Happened(ticket[r]) /\ ticket[r] \in Tickets
            BY <1>0, AllAreTickets DEF TicketsOK, Counters
          <5> QED BY <1>6, <4>1, <4>3, <5>1, HappenedKept DEF Happened
        <4> QED BY <1>3, <4>2, <4>3
      <3>2. CASE i \in DOMAIN tasks
        <4>1. tasks'[i].from = tasks[i].from /\ tasks[i].from \in Tickets /\ Happened(tasks[i].from)
          BY <1>0, <1>5, <3>2, AllAreTickets DEF TicketsOK, Counters
        <4> QED BY <1>6, <4>1, HappenedKept DEF Happened
      <3> QED BY <1>5, <3>1, <3>2
    <2>4. \A m \in DOMAIN log' : Happened(log[m].of)'
      BY <1>0, <1>1, <1>6, AllAreTickets, HappenedKept DEF TicketsOK, Counters, Happened
    <2> QED BY <2>2, <2>3, <2>4 DEF Counters
  <1>9. TicketsApart' /\ Untold' /\ CompletionToldOnce'
    BY <1>0, <1>1, <1>7 DEF TicketsOK, TicketsApart, Untold, CompletionToldOnce
  <1>10. Unspent'
    <2> SUFFICES ASSUME NEW q \in Reqs, pc'[q] \in Spawning, Completed(ticket'[q]),
                        NEW i \in DOMAIN tasks'
                 PROVE  tasks'[i].from # ticket'[q]
      BY DEF Unspent
    <2>1. q # r /\ pc[q] \in Spawning /\ ticket'[q] = ticket[q] /\ Completed(ticket[q])
      BY <1>4, <1>7 DEF Others
    <2>2. CASE i = n
      <3>1. ticket[q] # ticket[r] /\ ticket[q] # NoTicket
        BY <1>0, <2>1 DEF TicketsOK, TicketsApart, Completed, NoTicket
      <3> QED BY <1>2, <1>3, <1>5, <2>1, <2>2, <3>1
    <2>3. CASE i \in DOMAIN tasks
      BY <1>0, <1>5, <2>1, <2>3 DEF TicketsOK, Unspent
    <2> QED BY <1>5, <2>2, <2>3
  <1>11. FromOK'
    BY <1>0, <1>2, <1>3, <1>5 DEF TicketsOK, FromOK
  <1>12. OneNextPerCompletion'
    <2>1. t # NoTicket => \A i \in DOMAIN tasks : tasks[i].from # t
      <3>1. t # NoTicket => call[r].kind # "create" /\ t = ticket[r] /\ Completed(ticket[r])
        BY <1>3 DEF t
      <3> QED BY <1>0, <1>1, <3>1 DEF TicketsOK, Unspent, Spawning
    <2> QED BY <1>0, <1>2, <1>5, <2>1 DEF TicketsOK, OneNextPerCompletion
  <1>13. TicketsOK'
    BY <1>8, <1>9, <1>10, <1>11, <1>12 DEF TicketsOK
  <1> QED BY <1>0, <1>4, <1>13, HolderKept

\* The history takes the ticket, and the request gives it up.
LEMMA TellTickets ==
  ASSUME IInv, NEW r \in Reqs, Tell(r)
  PROVE  HolderOK' /\ TicketsOK'
  <1>0. TypeOK /\ TicketsOK /\ HolderOK
    BY DEF IInv
  <1>1. UNCHANGED <<tasks, times>> /\ Answer(r)
    BY DEF Tell
  <1>2. Others(r) /\ Holder(r)' /\ ticket'[r] = NoTicket /\ ~Completed(ticket'[r])
    BY <1>0, <1>1, AnswerHolds
  <1>3. OriginsKept /\ TimesGrow
    BY <1>0, <1>1, NothingGrows
  <1>4. HolderOK'
    BY <1>0, <1>2, HolderKept
  <1>5. CASE UNCHANGED log
    BY <1>0, <1>2, <1>3, <1>4, <1>5, PlainKeepsTickets
  <1>6. CASE log' = Append(log, [what |-> Told(r), of |-> ticket[r]])
    <2> DEFINE e == [what |-> Told(r), of |-> ticket[r]]
    <2>1. e.of = ticket[r]
      OBVIOUS
    <2> HIDE DEF e
    <2>2. PICK m \in Nat : /\ m \notin DOMAIN log /\ DOMAIN log' = DOMAIN log \union {m}
                           /\ log'[m] = e /\ \A k \in DOMAIN log : log'[k] = log[k]
      <3>1. PICK m \in Nat : m = Len(log) + 1
        BY <1>0 DEF TypeOK, TableOK
      <3>2. log' = Append(log, e)
        BY <1>6 DEF e
      <3> QED BY <1>0, <3>1, <3>2 DEF TypeOK, TableOK
    <2>3. \A q \in Reqs : Completed(ticket'[q]) =>
            q # r /\ ticket'[q] = ticket[q] /\ pc'[q] = pc[q]
      BY <1>2 DEF Others
    <2>4. TicketsApart' /\ Unspent' /\ FromOK' /\ OneNextPerCompletion'
      BY <1>0, <1>1, <2>3
      DEF TicketsOK, TicketsApart, Unspent, FromOK, OneNextPerCompletion
    <2>5. Untold'
      BY <1>0, <2>1, <2>2, <2>3 DEF TicketsOK, Untold, TicketsApart
    <2>6. CompletionToldOnce'
      BY <1>0, <2>1, <2>2 DEF TicketsOK, CompletionToldOnce, Untold, Completed
    <2>7. Counters'
      <3>1. \A m1 \in DOMAIN log' : Happened(log'[m1].of) /\ log'[m1].of \in Tickets
        BY <1>0, <2>1, <2>2, AllAreTickets DEF TicketsOK, Counters
      <3>2. \A m1 \in DOMAIN log' : Happened(log[m1].of)'
        BY <1>1, <3>1 DEF Happened
      <3>3. \A i \in DOMAIN tasks' : Happened(tasks[i].from)'
        BY <1>0, <1>1 DEF TicketsOK, Counters, Happened
      <3>4. \A q \in Reqs : Happened(ticket[q])'
        BY <1>0, <1>1, <2>3 DEF TicketsOK, Counters, Happened
      <3> QED BY <3>2, <3>3, <3>4 DEF Counters
    <2> QED BY <1>4, <2>4, <2>5, <2>6, <2>7 DEF TicketsOK
  <1> QED BY <1>5, <1>6 DEF Tell

LEMMA CreatingTickets ==
  ASSUME IInv, NEW r \in Reqs, Creating(r)
  PROVE  HolderOK' /\ TicketsOK'
  <1> USE DEF Spawning
  <1>0. TypeOK /\ HolderOK
    BY DEF IInv
  <1>1. CASE SpawnNothing(r)
    <2>1. pc[r] = "spawn" /\ Goto(r, "tell") /\ UNCHANGED <<tasks, times, log, call, ticket>>
      BY <1>1 DEF SpawnNothing
    <2>2. Others(r) /\ pc'[r] = "tell" /\ ticket'[r] = ticket[r]
      BY <1>0, <2>1, GotoHolds
    <2>3. Holder(r)'
      BY <2>2 DEF Holder
    <2> QED BY <2>1, <2>2, <2>3, LocalTickets
  <1>2. CASE Lookup(r)
    BY <1>2, LocalGoto, LocalAnswer DEF Lookup
  <1>3. CASE CreateBegin(r)
    <2>1. pc[r] \in {"begin", "spawn"} /\ Goto(r, "insert")
          /\ UNCHANGED <<tasks, times, log, call, ticket>>
      BY <1>3 DEF CreateBegin
    <2>2. Others(r) /\ pc'[r] = "insert" /\ ticket'[r] = ticket[r] /\ call'[r] = call[r]
      BY <1>0, <2>1, GotoHolds
    <2>3. (pc[r] = "begin" => call[r].kind = "create" /\ ticket[r] = NoTicket)
          /\ (pc[r] = "spawn" => Completed(ticket[r]))
      BY <1>0 DEF HolderOK, TypeOK, RequestsOK
    <2>4. Holder(r)' /\ (~Completed(ticket'[r]) \/ pc[r] = "spawn")
      BY <2>1, <2>2, <2>3 DEF Holder, Completed, NoTicket
    <2> QED BY <2>1, <2>2, <2>4, LocalTickets
  <1>4. CASE InsertFails(r) /\ call[r].kind \in {"patch", "edit"}
    <2>1. pc[r] = "insert" /\ Goto(r, "tell") /\ UNCHANGED <<tasks, times, log, call, ticket>>
      BY <1>4 DEF InsertFails
    <2>2. Others(r) /\ pc'[r] = "tell" /\ ticket'[r] = ticket[r]
      BY <1>0, <2>1, GotoHolds
    <2>3. Holder(r)'
      BY <2>2 DEF Holder
    <2> QED BY <2>1, <2>2, <2>3, LocalTickets
  <1>5. CASE InsertFails(r) /\ call[r].kind \notin {"patch", "edit"}
    BY <1>5, LocalAnswer DEF InsertFails
  <1> QED BY <1>1, <1>2, <1>3, <1>4, <1>5, InsertTickets, TellTickets DEF Creating

LEMMA ChangingTickets ==
  ASSUME IInv, NEW r \in Reqs, Changing(r)
  PROVE  HolderOK' /\ TicketsOK'
  <1> USE DEF Spawning
  <1>0. TypeOK /\ HolderOK /\ TicketsOK
    BY DEF IInv
  \* A row is written, its origin is not, and the request is answered.
  <1>1. ASSUME NEW i \in DOMAIN tasks, NEW row, row.from = tasks[i].from, Answer(r),
               tasks' = [tasks EXCEPT ![i] = row], UNCHANGED <<times, log>>
        PROVE  HolderOK' /\ TicketsOK'
    <2>1. OriginsKept /\ TimesGrow
      BY <1>0, <1>1, OriginsAfterWrite
    <2>2. Others(r) /\ Holder(r)' /\ ~Completed(ticket'[r])
      BY <1>0, <1>1, AnswerHolds
    <2> QED BY <1>0, <1>1, <2>1, <2>2, PlainKeepsTickets, HolderKept
  <1>2. CASE (Move(r) \/ SkipWrite(r)) /\ ~Found(r)
    BY <1>2, LocalAnswer DEF Move, SkipWrite
  <1>3. CASE Move(r) /\ Found(r)
    <2> DEFINE row == [tasks[Id(r)] EXCEPT !.val = edits + 1]
    <2>1. Id(r) \in DOMAIN tasks /\ row.from = tasks[Id(r)].from
      BY <1>0, <1>3, RowOfRequest DEF Move, Rows
    <2>2. Answer(r) /\ tasks' = [tasks EXCEPT ![Id(r)] = row] /\ UNCHANGED <<times, log>>
      BY <1>3 DEF Move
    <2> HIDE DEF row
    <2> QED BY <1>1, <2>1, <2>2
  <1>4. CASE SkipWrite(r) /\ Found(r)
    <2> DEFINE row == [tasks[Id(r)] EXCEPT !.left = cur[r].left - 1, !.val = edits + 1]
    <2>1. Id(r) \in DOMAIN tasks /\ row.from = tasks[Id(r)].from
      BY <1>0, <1>4, RowOfRequest DEF SkipWrite, Rows
    <2>2. Answer(r) /\ tasks' = [tasks EXCEPT ![Id(r)] = row] /\ UNCHANGED <<times, log>>
      BY <1>4 DEF SkipWrite
    <2> HIDE DEF row
    <2> QED BY <1>1, <2>1, <2>2
  <1>5. CASE SkipRead(r)
    BY <1>5, LocalGoto, LocalAnswer DEF SkipRead
  <1>6. CASE FindDoomed(r)
    BY <1>6, LocalGoto, LocalAnswer DEF FindDoomed
  <1>7. CASE SelectDoomed(r)
    <2> DEFINE completed == {i \in DOMAIN tasks : tasks[i].live /\ tasks[i].status = "done"}
    <2>1. CASE completed = {}
      BY <1>7, <2>1, LocalAnswer DEF SelectDoomed
    <2>2. CASE completed # {}
      BY <1>7, <2>2, LocalGoto DEF SelectDoomed
    <2> QED BY <2>1, <2>2
  <1>8. CASE Erase(r)
    <2>1. PICK i \in ids[r] : /\ tasks' = [tasks EXCEPT ![i].live = FALSE]
                              /\ IF ids[r] = {i} THEN Answer(r)
                                 ELSE UNCHANGED <<pc, call, cur, ticket>>
      BY <1>8 DEF Erase
    <2> DEFINE row == [tasks[i] EXCEPT !.live = FALSE]
    <2>2. i \in DOMAIN tasks /\ tasks[i] \in Rows /\ UNCHANGED <<times, log>> /\ pc[r] = "erase"
      BY <1>0, <1>8, <2>1, ElementOfSeq DEF TypeOK, TableOK, RequestsOK, Erase
    <2>3. row.from = tasks[i].from /\ tasks' = [tasks EXCEPT ![i] = row]
      BY <2>1, <2>2 DEF Rows
    <2> HIDE DEF row
    <2>4. CASE ids[r] = {i}
      BY <1>1, <2>1, <2>2, <2>3, <2>4
    <2>5. CASE ids[r] # {i}
      <3>1. UNCHANGED <<pc, call, ticket>>
        BY <2>1, <2>5
      <3>2. OriginsKept /\ TimesGrow
        BY <1>0, <2>2, <2>3, OriginsAfterWrite
      <3>3. Others(r)
        BY <3>1 DEF Others
      <3>4. HolderOK'
        BY <1>0, <3>1 DEF HolderOK
      <3>5. TicketsOK'
        BY <1>0, <2>2, <3>1, <3>2, <3>3, PlainKeepsTickets
      <3> QED BY <3>4, <3>5
    <2> QED BY <2>4, <2>5
  <1> QED BY <1>2, <1>3, <1>4, <1>5, <1>6, <1>7, <1>8 DEF Changing

LEMMA CrashTickets ==
  ASSUME IInv, Crash
  PROVE  HolderOK' /\ TicketsOK'
  <1>1. \A r \in Reqs : ticket'[r] = NoTicket /\ pc'[r] \in {"idle", "match"}
    BY DEF Crash
  <1>2. UNCHANGED <<tasks, times, log>>
    BY DEF Crash
  <1>3. \A r \in Reqs : ~Completed(ticket'[r])
    BY <1>1 DEF Completed, NoTicket
  <1>4. HolderOK'
    BY <1>1 DEF HolderOK
  <1>5. TicketsOK'
    BY <1>2, <1>3 DEF IInv, TicketsOK, Counters, Happened, TicketsApart, Unspent, Untold, FromOK,
                      OneNextPerCompletion, CompletionToldOnce
  <1> QED BY <1>4, <1>5

LEMMA TicketsInit == Init => IInv
  <1> SUFFICES ASSUME Init PROVE IInv
    OBVIOUS
  <1>1. \A r \in Reqs : ticket[r] = NoTicket /\ pc[r] = "idle" /\ ~Completed(ticket[r])
    BY DEF Init, Completed, NoTicket
  <1>2. DOMAIN tasks = {1} /\ tasks[1].from = NoTicket /\ DOMAIN log = {}
    BY DEF Init
  <1>3. HolderOK
    BY <1>1 DEF HolderOK
  <1>4. TicketsOK
    BY <1>1, <1>2 DEF TicketsOK, Counters, Happened, TicketsApart, Unspent, Untold, FromOK,
                      OneNextPerCompletion, CompletionToldOnce, Completed, NoTicket
  <1> QED BY <1>3, <1>4, TypesInit DEF IInv

LEMMA TicketsStep == IInv /\ [Next]_vars => IInv'
  <1> SUFFICES ASSUME IInv, [Next]_vars PROVE HolderOK' /\ TicketsOK'
    BY TypesStep DEF IInv
  <1>1. CASE UNCHANGED vars
    BY <1>1 DEF vars, IInv, HolderOK, TicketsOK, Counters, Happened, TicketsApart, Unspent, Untold,
                FromOK, OneNextPerCompletion, CompletionToldOnce
  <1>2. ASSUME NEW r \in Reqs, Arrives(r) PROVE HolderOK' /\ TicketsOK'
    BY <1>2, ArriveTickets DEF Arrives
  <1>3. ASSUME NEW r \in Reqs, Completing(r) \/ Patching(r) \/ Creating(r) \/ Changing(r)
        PROVE  HolderOK' /\ TicketsOK'
    BY <1>3, CompletingTickets, PatchingTickets, CreatingTickets, ChangingTickets
  <1> QED BY <1>1, <1>2, <1>3, CrashTickets DEF Next

LEMMA TicketsInvariant == Spec => []IInv
  BY TicketsInit, TicketsStep, PTL DEF Spec

\* One completion of a repeating task creates one next task, for every number of
\* concurrent requests of every kind (spawnNextRepeat behind the conditional update).
THEOREM NextTaskOnce == Spec => []OneNextPerCompletion
  <1>1. IInv => OneNextPerCompletion
    BY DEF IInv, TicketsOK
  <1> QED BY <1>1, TicketsInvariant, PTL

\* One completion is announced once (statusChanged and RowsAffected in tasks.go).
THEOREM ToldOnce == Spec => []CompletionToldOnce
  <1>1. IInv => CompletionToldOnce
    BY DEF IInv, TicketsOK
  <1> QED BY <1>1, TicketsInvariant, PTL

-----------------------------------------------------------------------------
(* One task per client id.  Only the INSERT gives a row its id; no other   *)
(* step changes one or brings a deleted row back.                          *)

IdsKept ==
  /\ DOMAIN tasks' = DOMAIN tasks
  /\ \A i \in DOMAIN tasks : tasks'[i].cid = tasks[i].cid /\ (tasks'[i].live => tasks[i].live)

LEMMA KeptStaysApart ==
  ASSUME OneTaskPerCid, IdsKept
  PROVE  OneTaskPerCid'
  BY DEF OneTaskPerCid, IdsKept

\* One row is written, and its id is not.
LEMMA WriteKeepsIds ==
  ASSUME TypeOK, NEW i \in DOMAIN tasks, NEW row, row.cid = tasks[i].cid,
         row.live => tasks[i].live, tasks' = [tasks EXCEPT ![i] = row]
  PROVE  IdsKept
  <1>1. DOMAIN tasks' = DOMAIN tasks
        /\ \A j \in DOMAIN tasks : tasks'[j] = IF j = i THEN row ELSE tasks[j]
    BY DEF TypeOK, TableOK
  <1> QED BY <1>1 DEF IdsKept

LEMMA NothingWritten ==
  ASSUME UNCHANGED tasks
  PROVE  IdsKept
  BY DEF IdsKept

LEMMA CompletingIds ==
  ASSUME TypeOK, NEW r \in Reqs, Completing(r)
  PROVE  IdsKept
  <1>1. ASSUME NEW s, SetStatus(r, s), pc[r] # "idle"
        PROVE  IdsKept
    <2> DEFINE row == [tasks[Id(r)] EXCEPT !.status = s]
    <2>1. Id(r) \in DOMAIN tasks /\ row.cid = tasks[Id(r)].cid /\ row.live = tasks[Id(r)].live
      BY <1>1, RowOfRequest DEF Rows
    <2>2. tasks' = [tasks EXCEPT ![Id(r)] = row]
      BY <1>1 DEF SetStatus
    <2> HIDE DEF row
    <2> QED BY <2>1, <2>2, WriteKeepsIds
  <1>2. CASE CheckEnds(r) \/ CheckGoesOn(r) \/ ToggleRead(r) \/ FinishLoses(r) \/ ReopenRead(r)
    BY <1>2, NothingWritten DEF CheckEnds, CheckGoesOn, ToggleRead, FinishLoses, ReopenRead
  <1>3. CASE FinishWins(r)
    BY <1>1, <1>3 DEF FinishWins
  <1>4. CASE Flip(r)
    BY <1>1, <1>4, NothingWritten DEF Flip
  <1>5. CASE Restart(r)
    BY <1>1, <1>5, NothingWritten DEF Restart
  <1> QED BY <1>2, <1>3, <1>4, <1>5 DEF Completing

LEMMA PatchingIds ==
  ASSUME TypeOK, NEW r \in Reqs, Patching(r)
  PROVE  IdsKept
  <1>1. CASE Match(r) \/ Load(r) \/ Reread(r)
    BY <1>1, NothingWritten DEF Match, Load, Reread
  <1>2. CASE PatchWrite(r) /\ ~Found(r)
    BY <1>2, NothingWritten DEF PatchWrite
  <1>3. CASE PatchWrite(r) /\ Found(r)
    <2> DEFINE i == Id(r)
               s == call[r].want
               row == Bumped([tasks[i] EXCEPT !.val = edits + 1])
               new == IF s # "none" /\ s # tasks[i].status THEN [row EXCEPT !.status = s] ELSE row
    <2>1. pc[r] = "write" /\ tasks' = [tasks EXCEPT ![i] = new]
      BY <1>3 DEF PatchWrite
    <2>2. i \in DOMAIN tasks /\ tasks[i] \in Rows
      BY <2>1, RowOfRequest
    <2>3. new.cid = tasks[i].cid /\ new.live = tasks[i].live
      BY <2>2 DEF Bumped, Rows
    <2> HIDE DEF new
    <2> QED BY <2>1, <2>2, <2>3, WriteKeepsIds
  <1> QED BY <1>1, <1>2, <1>3 DEF Patching

LEMMA ChangingIds ==
  ASSUME TypeOK, NEW r \in Reqs, Changing(r)
  PROVE  IdsKept
  <1>1. CASE SkipRead(r) \/ FindDoomed(r) \/ SelectDoomed(r) \/ ((Move(r) \/ SkipWrite(r)) /\ ~Found(r))
    BY <1>1, NothingWritten DEF SkipRead, FindDoomed, SelectDoomed, Move, SkipWrite
  <1>2. CASE Move(r) /\ Found(r)
    <2> DEFINE row == [tasks[Id(r)] EXCEPT !.val = edits + 1]
    <2>1. Id(r) \in DOMAIN tasks /\ row.cid = tasks[Id(r)].cid /\ row.live = tasks[Id(r)].live
      BY <1>2, RowOfRequest DEF Move, Rows
    <2>2. tasks' = [tasks EXCEPT ![Id(r)] = row]
      BY <1>2 DEF Move
    <2> HIDE DEF row
    <2> QED BY <2>1, <2>2, WriteKeepsIds
  <1>3. CASE SkipWrite(r) /\ Found(r)
    <2> DEFINE row == [tasks[Id(r)] EXCEPT !.left = cur[r].left - 1, !.val = edits + 1]
    <2>1. Id(r) \in DOMAIN tasks /\ row.cid = tasks[Id(r)].cid /\ row.live = tasks[Id(r)].live
      BY <1>3, RowOfRequest DEF SkipWrite, Rows
    <2>2. tasks' = [tasks EXCEPT ![Id(r)] = row]
      BY <1>3 DEF SkipWrite
    <2> HIDE DEF row
    <2> QED BY <2>1, <2>2, WriteKeepsIds
  <1>4. CASE Erase(r)
    <2>1. PICK i \in ids[r] : tasks' = [tasks EXCEPT ![i].live = FALSE]
      BY <1>4 DEF Erase
    <2> DEFINE row == [tasks[i] EXCEPT !.live = FALSE]
    <2>2. i \in DOMAIN tasks /\ tasks[i] \in Rows
      BY <2>1, ElementOfSeq DEF TypeOK, TableOK, RequestsOK
    <2>3. row.cid = tasks[i].cid /\ ~row.live /\ tasks' = [tasks EXCEPT ![i] = row]
      BY <2>1, <2>2 DEF Rows
    <2> HIDE DEF row
    <2> QED BY <2>2, <2>3, WriteKeepsIds
  <1> QED BY <1>1, <1>2, <1>3, <1>4 DEF Changing

\* The unique index: a client id that a task of the list has is not given again.
LEMMA InsertKeepsApart ==
  ASSUME TypeOK, OneTaskPerCid, NEW r \in Reqs, InsertDone(r)
  PROVE  OneTaskPerCid'
  <1> DEFINE row == IF call[r].kind = "create" THEN NewTask(Occurrences, call[r].cid, NoTicket)
                                               ELSE NewTask(cur[r].left - 1, 0, ticket[r])
  <1>1. tasks' = Append(tasks, row)
    BY DEF InsertDone
  <1>2. row.cid = 0 \/ \A i \in DOMAIN tasks : tasks[i].live => tasks[i].cid # row.cid
    BY DEF InsertDone, InsertAllowed, CidTaken, NewTask
  <1> HIDE DEF row
  <1>3. PICK n \in Nat : /\ n \notin DOMAIN tasks /\ DOMAIN tasks' = DOMAIN tasks \union {n}
                         /\ tasks'[n] = row /\ \A i \in DOMAIN tasks : tasks'[i] = tasks[i]
    <2>1. PICK n \in Nat : n = Len(tasks) + 1
      BY DEF TypeOK, TableOK
    <2> QED BY <1>1, <2>1 DEF TypeOK, TableOK
  <1> QED BY <1>2, <1>3 DEF OneTaskPerCid

LEMMA ApartStep ==
  ASSUME TypeOK, OneTaskPerCid, [Next]_vars
  PROVE  OneTaskPerCid'
  <1>1. CASE UNCHANGED vars \/ Crash
    BY <1>1, NothingWritten, KeptStaysApart DEF vars, Crash
  <1>2. ASSUME NEW r \in Reqs, Arrives(r) PROVE OneTaskPerCid'
    BY <1>2, NothingWritten, KeptStaysApart DEF Arrives, Arrive
  <1>3. ASSUME NEW r \in Reqs, Completing(r) \/ Patching(r) \/ Changing(r) PROVE OneTaskPerCid'
    BY <1>3, CompletingIds, PatchingIds, ChangingIds, KeptStaysApart
  <1>4. ASSUME NEW r \in Reqs, Creating(r) PROVE OneTaskPerCid'
    <2>1. CASE InsertDone(r)
      BY <2>1, InsertKeepsApart
    <2>2. CASE ~InsertDone(r)
      <3>1. UNCHANGED tasks
        BY <1>4, <2>2 DEF Creating, SpawnNothing, Lookup, CreateBegin, InsertFails, Tell
      <3> QED BY <3>1, NothingWritten, KeptStaysApart
    <2> QED BY <2>1, <2>2
  <1> QED BY <1>1, <1>2, <1>3, <1>4 DEF Next

\* However many copies of one create arrive, the list shows one task per client id
\* (CreateTask: the look-up outside the transaction, the unique index inside).
THEOREM OneTaskForCid == Spec => []OneTaskPerCid
  <1>1. Init => OneTaskPerCid
    BY DEF Init, OneTaskPerCid
  <1>2. TypeOK /\ OneTaskPerCid /\ [Next]_vars => OneTaskPerCid'
    BY ApartStep
  <1> QED BY <1>1, <1>2, TypeCorrect, PTL DEF Spec

-----------------------------------------------------------------------------
(* One request after the other.                                            *)

\* Where a request relies on its row being there, and on the rule it has read.
AtRow  == {"finish", "flip", "reread", "spawn", "insert", "tell", "advance"}
AtRule == {"finish", "spawn", "insert", "advance"}

\* What a request has in its hands is as it has seen it.
Held(r) ==
  /\ call[r].kind = "create" => pc[r] \in {"idle", "lookup", "begin", "insert"} /\ ticket[r] = NoTicket
  /\ pc[r] \in AtRow /\ call[r].kind # "create" => Found(r)
  /\ pc[r] \in AtRule /\ call[r].kind # "create" => cur[r].left = tasks[Id(r)].left
  /\ pc[r] = "flip" => tasks[Id(r)].status = "done"
  /\ pc[r] = "reread" /\ Completed(ticket[r]) => call[r].want = "done"
  /\ ticket[r] # NoTicket => ticket[r].id = Id(r)

OneByOne ==
  /\ \A q, r \in Reqs : Busy(q) /\ Busy(r) => q = r
  /\ stale = {}
  /\ \A r \in Reqs : Held(r)

Carried(t, places) == \E r \in Reqs : pc[r] \in places /\ ticket[r] = t

\* A completion whose next task, or whose entry in the history, is still to come is in
\* the hands of a request.
Chained ==
  crashes = MaxCrashes => \A t \in Completions : tasks[t.id].left > 0 =>
    Carried(t, Spawning) \/ \E j \in DOMAIN tasks : tasks[j].from = t

Announced ==
  crashes = MaxCrashes => \A t \in Completions :
    Carried(t, Spawning \union {"tell"}) \/ \E n \in DOMAIN log : log[n].of = t

SInv == OneByOne /\ Chained /\ Announced

Mine(r) == \A q \in Reqs \ {r} : ~Busy(q)

LEMMA MineAlone ==
  ASSUME OneByOne, NEW r \in Reqs, Busy(r)
  PROVE  Mine(r) /\ (Commits(r) => stale' = {}) /\ stale = {}
  BY DEF OneByOne, Mine, Commits, Busy

\* The requests that wait hold nothing.
LEMMA WaitingHold ==
  ASSUME IInv, NEW q \in Reqs, ~Busy(q)
  PROVE  pc[q] \in {"idle", "match"} /\ ticket[q] = NoTicket
  BY DEF IInv, HolderOK, Busy, Spawning

LEMMA OneStands ==
  ASSUME IInv, OneByOne, NEW r \in Reqs, Others(r), Mine(r), Held(r)', stale' = {}
  PROVE  OneByOne'
  <1>1. ASSUME NEW q \in Reqs, q # r
        PROVE  ~Busy(q)' /\ Held(q)'
    <2>1. /\ pc'[q] = pc[q] /\ call'[q] = call[q] /\ ticket'[q] = NoTicket /\ pc[q] \in {"idle", "match"}
          /\ Held(q)
      BY <1>1, WaitingHold DEF Others, Mine, OneByOne
    <2> QED BY <2>1 DEF Busy, Held, AtRow, AtRule, Completed, NoTicket
  <1> QED BY <1>1 DEF OneByOne

\* A step that completes nothing, of a request that holds nothing.
LEMMA Quietly ==
  ASSUME IInv, Chained, Announced, NEW r \in Reqs, Others(r), OriginsKept, UNCHANGED <<times, log, crashes>>,
         \A i \in DOMAIN tasks : tasks'[i].left > 0 => tasks[i].left > 0,
         ticket[r] = NoTicket, ticket'[r] = NoTicket
  PROVE  Chained' /\ Announced'
  <1>1. Completions' = Completions
    BY DEF Completions, OriginsKept
  <1>2. ASSUME NEW t \in Completions, NEW places, Carried(t, places)
        PROVE  Carried(t, places)'
    <2>1. t # NoTicket
      BY DEF Completions, NoTicket
    <2> QED BY <1>2, <2>1 DEF Carried, Others
  <1>3. \A t \in Completions : t.id \in DOMAIN tasks
    BY DEF Completions
  <1>4. Chained'
    BY <1>1, <1>2, <1>3 DEF Chained, OriginsKept
  <1>5. Announced'
    BY <1>1, <1>2 DEF Announced
  <1> QED BY <1>4, <1>5

\* A request goes on with the completion it has to see through.
LEMMA CarriesOn ==
  ASSUME IInv, Chained, Announced, NEW r \in Reqs, Others(r), UNCHANGED <<tasks, times, log, crashes>>,
         ticket'[r] = ticket[r], pc[r] \in Spawning, pc'[r] \in Spawning \union {"tell"},
         pc'[r] = "tell" /\ Completed(ticket[r]) => ~(tasks[ticket[r].id].left > 0)
  PROVE  Chained' /\ Announced'
  <1>1. Completions' = Completions /\ \A t \in Completions : Completed(t)
    BY DEF Completions, Completed
  <1>2. ASSUME NEW t \in Completions, tasks[t.id].left > 0, Carried(t, Spawning)
        PROVE  Carried(t, Spawning)'
    BY <1>1, <1>2 DEF Carried, Others
  <1>3. ASSUME NEW t \in Completions, Carried(t, Spawning \union {"tell"})
        PROVE  Carried(t, Spawning \union {"tell"})'
    BY <1>3 DEF Carried, Others
  <1> QED BY <1>1, <1>2, <1>3 DEF Chained, Announced

\* A write of the status: the request takes the completion it makes, and no other counter moves.
LEMMA TakesOn ==
  ASSUME IInv, Chained, Announced, NEW r \in Reqs, Others(r), pc[r] # "idle", NEW s \in Statuses,
         ticket[r] = NoTicket, UNCHANGED <<log, crashes>>, OriginsKept,
         \A i \in DOMAIN tasks : tasks'[i].left = tasks[i].left,
         times' = Counted(Id(r), s), ticket'[r] = TicketOf(Id(r), s),
         s = "done" => pc'[r] \in {"spawn", "reread"}
  PROVE  Chained' /\ Announced'
  <1>1. /\ Id(r) \in DOMAIN times /\ DOMAIN times = DOMAIN tasks
        /\ times \in Seq([completed : Nat, reopened : Nat])
    BY RowOfRequest DEF IInv, TypeOK, TableOK, TimesOK
  <1>2. ASSUME NEW j \in DOMAIN times
        PROVE  times[j] \in [completed : Nat, reopened : Nat]
    BY <1>1, ElementOfSeq
  <1>3. /\ \A j \in DOMAIN times : j # Id(r) => times'[j] = times[j]
        /\ times'[Id(r)].completed = times[Id(r)].completed
                                       + IF s = "done" /\ tasks[Id(r)].status # "done" THEN 1 ELSE 0
    BY <1>1 DEF Counted
  <1>4. ASSUME NEW t \in Completions', t \notin Completions
        PROVE  ticket'[r] = t /\ pc'[r] \in Spawning
    <2>1. /\ t.what = "completed" /\ t.id \in DOMAIN tasks /\ t.nr \in 1 .. MaxReqs
          /\ t = [what |-> "completed", id |-> t.id, nr |-> t.nr]
          /\ t.nr <= times'[t.id].completed /\ ~(t.nr <= times[t.id].completed)
      BY <1>4 DEF Completions, OriginsKept
    <2>2. t.id = Id(r) /\ s = "done"
      BY <1>1, <1>2, <1>3, <2>1
    <2>3. t.nr = times'[t.id].completed
      BY <1>1, <1>2, <1>3, <2>1, <2>2
    <2>4. ticket'[r] = t
      <3>1. times'[Id(r)].completed = Counted(Id(r), s)[Id(r)].completed
        OBVIOUS
      <3> QED BY <2>1, <2>2, <2>3, <3>1 DEF TicketOf
    <2> QED BY <2>2, <2>4 DEF Spawning
  <1>5. ASSUME NEW t \in Completions, NEW places, Carried(t, places)
        PROVE  Carried(t, places)'
    <2>1. t # NoTicket
      BY DEF Completions, NoTicket
    <2> QED BY <1>5, <2>1 DEF Carried, Others
  <1>6. \A t \in Completions' : t.id \in DOMAIN tasks
    BY DEF Completions, OriginsKept
  <1>7. ASSUME NEW t, ticket'[r] = t, pc'[r] \in Spawning
        PROVE  Carried(t, Spawning)' /\ Carried(t, Spawning \union {"tell"})'
    BY <1>7 DEF Carried
  <1>8. Chained'
    BY <1>4, <1>5, <1>6, <1>7 DEF Chained, OriginsKept
  <1>9. Announced'
    BY <1>4, <1>5, <1>7 DEF Announced
  <1> QED BY <1>8, <1>9

\* The next task is created, and the completion still to be announced.
LEMMA GivesBirth ==
  ASSUME IInv, Chained, Announced, NEW r \in Reqs, Others(r), pc'[r] = "tell", ticket'[r] = ticket[r],
         UNCHANGED <<log, crashes>>, NEW row, row.from = ticket[r], tasks' = Append(tasks, row),
         times' = Append(times, [completed |-> 0, reopened |-> 0])
  PROVE  Chained' /\ Announced'
  <1>1. PICK n \in Nat : n = Len(tasks) + 1
    BY DEF IInv, TypeOK, TableOK
  <1>2. /\ DOMAIN tasks' = DOMAIN tasks \union {n} /\ tasks'[n] = row
        /\ \A i \in DOMAIN tasks : tasks'[i] = tasks[i]
    BY <1>1 DEF IInv, TypeOK, TableOK
  <1> DEFINE zero == [completed |-> 0, reopened |-> 0]
  <1>0. zero.completed = 0
    OBVIOUS
  <1>3. DOMAIN times = DOMAIN tasks /\ times \in Seq([completed : Nat, reopened : Nat])
    BY DEF IInv, TypeOK, TableOK, TimesOK
  <1>4. times'[n] = zero /\ \A i \in DOMAIN tasks : times'[i] = times[i]
    <2>1. Len(times) = Len(tasks)
      BY <1>3 DEF IInv, TypeOK, TableOK
    <2> HIDE DEF zero
    <2>2. times' = Append(times, zero)
      BY DEF zero
    <2> QED BY <1>1, <1>3, <2>1, <2>2
  <1>5. ASSUME NEW t \in Completions'
        PROVE  t \in Completions /\ t.id \in DOMAIN tasks
    <2>1. /\ t.what = "completed" /\ t.id \in DOMAIN tasks' /\ t.nr \in 1 .. MaxReqs
          /\ t = [what |-> "completed", id |-> t.id, nr |-> t.nr] /\ t.nr <= times'[t.id].completed
      BY DEF Completions
    <2>2. t.id # n
      <3>1. t.nr \in Nat /\ t.nr > 0
        BY <2>1, ConstantsAssumption
      <3> SUFFICES ASSUME t.id = n PROVE FALSE
        OBVIOUS
      <3>2. times'[t.id] = zero
        BY <1>4
      <3>3. t.nr <= zero.completed
        BY <2>1, <3>2
      <3> HIDE DEF zero
      <3> QED BY <1>0, <3>1, <3>3
    <2>3. t.id \in DOMAIN tasks /\ t.nr <= times[t.id].completed
      BY <1>2, <1>4, <2>1, <2>2
    <2> QED BY <2>1, <2>3 DEF Completions
  <1>6. ASSUME NEW t \in Completions, Carried(t, Spawning)
        PROVE  Carried(t, Spawning)' \/ \E j \in DOMAIN tasks' : tasks'[j].from = t
    <2>1. PICK q \in Reqs : pc[q] \in Spawning /\ ticket[q] = t
      BY <1>6 DEF Carried
    <2>2. CASE q = r
      BY <1>2, <2>1, <2>2
    <2>3. CASE q # r
      BY <2>1, <2>3 DEF Carried, Others
    <2> QED BY <2>2, <2>3
  <1>7. ASSUME NEW t \in Completions, Carried(t, Spawning \union {"tell"})
        PROVE  Carried(t, Spawning \union {"tell"})'
    BY <1>7 DEF Carried, Others
  <1>8. Chained'
    <2> SUFFICES ASSUME crashes' = MaxCrashes, NEW t \in Completions', tasks'[t.id].left > 0
                 PROVE  Carried(t, Spawning)' \/ \E j \in DOMAIN tasks' : tasks'[j].from = t
      BY DEF Chained
    <2>1. t \in Completions /\ t.id \in DOMAIN tasks /\ tasks[t.id].left > 0
      BY <1>2, <1>5
    <2>2. Carried(t, Spawning) \/ \E j \in DOMAIN tasks : tasks[j].from = t
      BY <2>1 DEF Chained
    <2>3. (\E j \in DOMAIN tasks : tasks[j].from = t) => \E j \in DOMAIN tasks' : tasks'[j].from = t
      BY <1>2
    <2> QED BY <1>6, <2>1, <2>2, <2>3
  <1>9. Announced'
    BY <1>5, <1>7 DEF Announced
  <1> QED BY <1>8, <1>9

\* A task a user created has no completion yet.
LEMMA GivesBirthAnew ==
  ASSUME IInv, Chained, Announced, NEW r \in Reqs, Others(r), ticket'[r] = NoTicket, ticket[r] = NoTicket,
         UNCHANGED <<log, crashes>>, NEW row, tasks' = Append(tasks, row),
         times' = Append(times, [completed |-> 0, reopened |-> 0])
  PROVE  Chained' /\ Announced'
  <1>1. PICK n \in Nat : n = Len(tasks) + 1
    BY DEF IInv, TypeOK, TableOK
  <1>2. /\ DOMAIN tasks' = DOMAIN tasks \union {n} /\ tasks'[n] = row
        /\ \A i \in DOMAIN tasks : tasks'[i] = tasks[i]
    BY <1>1 DEF IInv, TypeOK, TableOK
  <1> DEFINE zero == [completed |-> 0, reopened |-> 0]
  <1>0. zero.completed = 0
    OBVIOUS
  <1>3. DOMAIN times = DOMAIN tasks /\ times \in Seq([completed : Nat, reopened : Nat])
    BY DEF IInv, TypeOK, TableOK, TimesOK
  <1>4. times'[n] = zero /\ \A i \in DOMAIN tasks : times'[i] = times[i]
    <2>1. Len(times) = Len(tasks)
      BY <1>3 DEF IInv, TypeOK, TableOK
    <2> HIDE DEF zero
    <2>2. times' = Append(times, zero)
      BY DEF zero
    <2> QED BY <1>1, <1>3, <2>1, <2>2
  <1>5. ASSUME NEW t \in Completions'
        PROVE  t \in Completions /\ t.id \in DOMAIN tasks
    <2>1. /\ t.what = "completed" /\ t.id \in DOMAIN tasks' /\ t.nr \in 1 .. MaxReqs
          /\ t = [what |-> "completed", id |-> t.id, nr |-> t.nr] /\ t.nr <= times'[t.id].completed
      BY DEF Completions
    <2>2. t.id # n
      <3>1. t.nr \in Nat /\ t.nr > 0
        BY <2>1, ConstantsAssumption
      <3> SUFFICES ASSUME t.id = n PROVE FALSE
        OBVIOUS
      <3>2. times'[t.id] = zero
        BY <1>4
      <3>3. t.nr <= zero.completed
        BY <2>1, <3>2
      <3> HIDE DEF zero
      <3> QED BY <1>0, <3>1, <3>3
    <2>3. t.id \in DOMAIN tasks /\ t.nr <= times[t.id].completed
      BY <1>2, <1>4, <2>1, <2>2
    <2> QED BY <2>1, <2>3 DEF Completions
  <1>6. ASSUME NEW t \in Completions, NEW places, Carried(t, places)
        PROVE  Carried(t, places)'
    <2>1. t # NoTicket
      BY DEF Completions, NoTicket
    <2> QED BY <1>6, <2>1 DEF Carried, Others
  <1>7. Chained'
    <2> SUFFICES ASSUME crashes' = MaxCrashes, NEW t \in Completions', tasks'[t.id].left > 0
                 PROVE  Carried(t, Spawning)' \/ \E j \in DOMAIN tasks' : tasks'[j].from = t
      BY DEF Chained
    <2>1. t \in Completions /\ t.id \in DOMAIN tasks /\ tasks[t.id].left > 0
      BY <1>2, <1>5
    <2>2. Carried(t, Spawning) \/ \E j \in DOMAIN tasks : tasks[j].from = t
      BY <2>1 DEF Chained
    <2>3. (\E j \in DOMAIN tasks : tasks[j].from = t) => \E j \in DOMAIN tasks' : tasks'[j].from = t
      BY <1>2
    <2> QED BY <1>6, <2>1, <2>2, <2>3
  <1>8. Announced'
    BY <1>5, <1>6 DEF Announced
  <1> QED BY <1>7, <1>8

\* The history takes the completion.
LEMMA IsTold ==
  ASSUME IInv, Chained, Announced, NEW r \in Reqs, Others(r), pc[r] = "tell", ticket'[r] = NoTicket,
         UNCHANGED <<tasks, times, crashes>>,
         \/ ticket[r] = NoTicket /\ UNCHANGED log
         \/ log' = Append(log, [what |-> Told(r), of |-> ticket[r]])
  PROVE  Chained' /\ Announced'
  <1>1. /\ \A k \in DOMAIN log : k \in DOMAIN log' /\ log'[k] = log[k]
        /\ ticket[r] # NoTicket => \E k \in DOMAIN log' : log'[k].of = ticket[r]
    <2>1. CASE UNCHANGED log /\ ticket[r] = NoTicket
      BY <2>1
    <2>2. CASE log' = Append(log, [what |-> Told(r), of |-> ticket[r]])
      <3> DEFINE e == [what |-> Told(r), of |-> ticket[r]]
      <3>1. e.of = ticket[r]
        OBVIOUS
      <3> HIDE DEF e
      <3>2. PICK m \in Nat : m = Len(log) + 1
        BY DEF IInv, TypeOK, TableOK
      <3>3. log' = Append(log, e)
        BY <2>2 DEF e
      <3>4. /\ m \in DOMAIN log' /\ log'[m] = e
            /\ \A k \in DOMAIN log : k \in DOMAIN log' /\ log'[k] = log[k]
        BY <3>2, <3>3 DEF IInv, TypeOK, TableOK
      <3> QED BY <3>1, <3>4
    <2> QED BY <2>1, <2>2
  <1>2. Completions' = Completions
    BY DEF Completions
  <1>3. ASSUME NEW t \in Completions, Carried(t, Spawning)
        PROVE  Carried(t, Spawning)'
    <2>1. PICK q \in Reqs : pc[q] \in Spawning /\ ticket[q] = t
      BY <1>3 DEF Carried
    <2> QED BY <2>1 DEF Carried, Others, Spawning
  <1>4. ASSUME NEW t \in Completions, Carried(t, Spawning \union {"tell"})
        PROVE  Carried(t, Spawning \union {"tell"})' \/ \E k \in DOMAIN log' : log'[k].of = t
    <2>1. PICK q \in Reqs : pc[q] \in Spawning \union {"tell"} /\ ticket[q] = t
      BY <1>4 DEF Carried
    <2>2. t # NoTicket
      BY DEF Completions, NoTicket
    <2>3. CASE q = r
      BY <1>1, <2>1, <2>2, <2>3
    <2>4. CASE q # r
      BY <2>1, <2>4 DEF Carried, Others
    <2> QED BY <2>3, <2>4
  <1>5. Chained'
    BY <1>2, <1>3 DEF Chained
  <1>6. Announced'
    BY <1>1, <1>2, <1>4 DEF Announced
  <1> QED BY <1>5, <1>6

-----------------------------------------------------------------------------
(* One request after the other: the actions.                               *)

\* A step that leaves the table and the history alone.
LEMMA LocalSerial ==
  ASSUME IInv, SInv, NEW r \in Reqs, Mine(r), Others(r), UNCHANGED <<tasks, times, log, crashes>>,
         ticket[r] = NoTicket, ticket'[r] = NoTicket, stale' = {}, Held(r)'
  PROVE  SInv'
  <1>1. OriginsKept
    BY NothingGrows DEF IInv
  <1> QED BY <1>1, OneStands, Quietly DEF SInv

LEMMA AnswerSerial ==
  ASSUME IInv, NEW r \in Reqs, Answer(r)
  PROVE  Others(r) /\ Held(r)' /\ ticket'[r] = NoTicket
  <1>1. /\ pc'[r] = "idle" /\ call'[r] = NoCall /\ ticket'[r] = NoTicket
    BY DEF Answer, IInv, TypeOK, RequestsOK
  <1>2. Others(r)
    BY AnswerHolds DEF IInv
  <1> QED BY <1>1, <1>2 DEF Held, NoCall, AtRow, AtRule, Completed, NoTicket

LEMMA GotoSerial ==
  ASSUME IInv, SInv, NEW r \in Reqs, ticket[r] = NoTicket, UNCHANGED <<call, ticket>>,
         NEW next, Goto(r, next), next \notin AtRow,
         call[r].kind = "create" => next \in {"idle", "lookup", "begin", "insert"}
  PROVE  Others(r) /\ Held(r)' /\ ticket'[r] = NoTicket
  <1>1. Others(r) /\ pc'[r] = next /\ ticket'[r] = ticket[r] /\ call'[r] = call[r]
    BY GotoHolds DEF IInv
  <1> QED BY <1>1 DEF Held, AtRow, AtRule, Completed, NoTicket

\* A write of the status leaves the other columns alone.
LEMMA StatusIs ==
  ASSUME IInv, NEW r \in Reqs, pc[r] # "idle", NEW s \in Statuses, SetStatus(r, s)
  PROVE  /\ OriginsKept
         /\ \A i \in DOMAIN tasks : tasks'[i].live = tasks[i].live /\ tasks'[i].left = tasks[i].left
         /\ \A i \in DOMAIN tasks : tasks'[i].version = tasks[i].version /\ tasks'[i].val = tasks[i].val
         /\ ticket' = [ticket EXCEPT ![r] = TicketOf(Id(r), s)]
         /\ ticket'[r] = TicketOf(Id(r), s) /\ ticket'[r].id = Id(r)
         /\ times' = Counted(Id(r), s) /\ Id(r) \in DOMAIN tasks
         /\ \A i \in DOMAIN tasks : tasks'[i].status = IF i = Id(r) THEN s ELSE tasks[i].status
         /\ DOMAIN tasks' = DOMAIN tasks
  <1> DEFINE row == [tasks[Id(r)] EXCEPT !.status = s]
  <1>1. Id(r) \in DOMAIN tasks /\ tasks[Id(r)] \in Rows /\ tasks \in Seq(Rows)
    BY RowOfRequest DEF IInv, TypeOK, TableOK
  <1>2. /\ row.from = tasks[Id(r)].from /\ row.live = tasks[Id(r)].live /\ row.left = tasks[Id(r)].left
        /\ row \in Rows /\ tasks' = [tasks EXCEPT ![Id(r)] = row] /\ row.status = s
        /\ row.version = tasks[Id(r)].version /\ row.val = tasks[Id(r)].val
    BY <1>1 DEF SetStatus, Rows
  <1> HIDE DEF row
  <1>3. DOMAIN tasks' = DOMAIN tasks /\ \A j \in DOMAIN tasks : tasks'[j] = IF j = Id(r) THEN row ELSE tasks[j]
    BY <1>1, <1>2, RowOverwritten
  <1>4. /\ ticket' = [ticket EXCEPT ![r] = TicketOf(Id(r), s)] /\ ticket'[r] = TicketOf(Id(r), s)
    BY DEF SetStatus, IInv, TypeOK, RequestsOK
  <1> QED BY <1>1, <1>2, <1>3, <1>4 DEF SetStatus, OriginsKept, TicketOf

LEMMA ArriveSerial ==
  ASSUME Serial, IInv, SInv, NEW r \in Reqs, NEW kind \in Kinds, NEW i \in DOMAIN tasks,
         NEW want \in Wants(kind), NEW cid \in IF kind = "create" THEN Cids ELSE {0},
         Arrive(r, kind, i, want, cid)
  PROVE  SInv'
  <1>1. /\ pc[r] = "idle" /\ pc' = [pc EXCEPT ![r] = First(kind)] /\ ticket[r] = NoTicket
        /\ UNCHANGED <<tasks, cur, stale, ticket, times, log, crashes>>
        /\ pc'[r] = First(kind) /\ call'[r].kind = kind /\ Others(r)
        /\ kind = "edit" \/ \A q \in Reqs : ~Busy(q)
    BY DEF Arrive, Goto, IInv, TypeOK, RequestsOK, HolderOK, Spawning, Others
  <1>2. kind \in AllKinds
    BY ConstantsAssumption
  <1>3. Held(r)' /\ (kind = "edit" => ~Busy(r)')
    <2>1. First(kind) \notin AtRow /\ (kind = "create" => First(kind) = "lookup")
          /\ (kind = "edit" => First(kind) = "match")
      BY <1>2 DEF First, AllKinds, AtRow
    <2> QED BY <1>1, <2>1 DEF Held, AtRow, AtRule, Completed, NoTicket, Busy
  <1>4. CASE kind # "edit"
    BY <1>1, <1>3, <1>4, LocalSerial DEF Mine, SInv, OneByOne
  <1>5. CASE kind = "edit"
    <2>1. ASSUME NEW q \in Reqs, q # r
          PROVE  Busy(q)' = Busy(q) /\ Held(q)'
      BY <1>1, <2>1 DEF SInv, OneByOne, Held, Others, Busy, Id, Found
    <2>2. OneByOne'
      BY <1>1, <1>3, <1>5, <2>1 DEF SInv, OneByOne
    <2>3. Chained' /\ Announced'
      BY <1>1, NothingGrows, Quietly DEF SInv, IInv
    <2> QED BY <2>2, <2>3 DEF SInv
  <1> QED BY <1>4, <1>5

LEMMA CompletingSerial ==
  ASSUME IInv, SInv, NEW r \in Reqs, Completing(r)
  PROVE  SInv'
  <1>0. /\ pc[r] \in {"check", "read", "finish", "flip", "reopen", "restart"}
        /\ Mine(r) /\ (Commits(r) => stale' = {}) /\ stale = {} /\ UNCHANGED crashes /\ UNCHANGED log
        /\ Held(r) /\ ticket[r] = NoTicket /\ call[r].kind # "create"
    <2>1. pc[r] \in {"check", "read", "finish", "flip", "reopen", "restart"} /\ UNCHANGED <<crashes, log>>
      BY DEF Completing, CheckEnds, CheckGoesOn, ToggleRead, FinishWins, FinishLoses, Flip, ReopenRead, Restart
    <2>2. Busy(r) /\ ticket[r] = NoTicket
      BY <2>1 DEF Busy, IInv, HolderOK, Spawning
    <2> QED BY <2>1, <2>2, MineAlone DEF SInv, OneByOne, Held
  <1>1. CASE Answer(r) /\ UNCHANGED <<tasks, times, stale>>
    BY <1>0, <1>1, AnswerSerial, LocalSerial
  <1>2. CASE CheckGoesOn(r) \/ (ReopenRead(r) /\ ~Answer(r))
    <2>1. PICK next \in {"read", "restart"} : Goto(r, next)
      BY <1>2 DEF CheckGoesOn, ReopenRead
    <2>2. UNCHANGED <<tasks, times, stale, call, ticket>>
      BY <1>2 DEF CheckGoesOn, ReopenRead
    <2>3. Others(r) /\ Held(r)' /\ ticket'[r] = NoTicket
      BY <1>0, <2>1, <2>2, GotoSerial DEF AtRow
    <2> QED BY <1>0, <2>2, <2>3, LocalSerial
  <1>3. CASE ToggleRead(r) /\ Found(r)
    <2>1. /\ UNCHANGED <<tasks, times, stale, call, ticket>> /\ cur'[r] = tasks[Id(r)]
          /\ Others(r) /\ pc'[r] = IF tasks[Id(r)].status = "done" THEN "flip" ELSE "finish"
      BY <1>3, GotoHolds DEF ToggleRead, IInv, TypeOK, RequestsOK
    <2>2. Held(r)'
      BY <1>0, <1>3, <2>1 DEF Held, Found, Id, AtRow, AtRule
    <2> QED BY <1>0, <2>1, <2>2, LocalSerial
  <1>4. ASSUME NEW s \in {"done", "todo"}, NEW next \in {"spawn", "tell"}, SetStatus(r, s), Goto(r, next),
               UNCHANGED <<call, cur>>, Found(r), s = "done" => next = "spawn",
               next = "spawn" => cur[r].left = tasks[Id(r)].left
        PROVE  SInv'
    <2>1. s \in Statuses /\ pc[r] # "idle"
      BY <1>0 DEF Statuses
    <2>2. /\ OriginsKept
          /\ \A i \in DOMAIN tasks : tasks'[i].live = tasks[i].live /\ tasks'[i].left = tasks[i].left
          /\ ticket' = [ticket EXCEPT ![r] = TicketOf(Id(r), s)]
          /\ ticket'[r] = TicketOf(Id(r), s) /\ ticket'[r].id = Id(r)
          /\ times' = Counted(Id(r), s) /\ Id(r) \in DOMAIN tasks
      BY <1>4, <2>1, StatusIs
    <2>3. pc'[r] = next /\ Others(r)
      BY <1>4, <2>2 DEF Goto, Others, IInv, TypeOK, RequestsOK
    <2>4. Held(r)'
      BY <1>0, <1>4, <2>2, <2>3 DEF Held, Found, Id, AtRow, AtRule
    <2>5. stale' = {}
      BY <1>0, <1>4 DEF SetStatus
    <2>6. Chained' /\ Announced'
      BY <1>0, <1>4, <2>1, <2>2, <2>3, TakesOn DEF SInv
    <2> QED BY <1>0, <2>3, <2>4, <2>5, <2>6, OneStands DEF SInv
  <1>5. CASE FinishWins(r)
    BY <1>0, <1>4, <1>5 DEF FinishWins, Wins, Held, AtRule
  <1>6. CASE (Flip(r) /\ Found(r)) \/ (Restart(r) /\ Found(r) /\ tasks[Id(r)].status = "done")
    BY <1>4, <1>6 DEF Flip, Restart
  <1>7. (Answer(r) /\ UNCHANGED <<tasks, times, stale>>)
        \/ CheckGoesOn(r) \/ (ReopenRead(r) /\ ~Answer(r)) \/ (ToggleRead(r) /\ Found(r)) \/ FinishWins(r)
        \/ (Flip(r) /\ Found(r)) \/ (Restart(r) /\ Found(r) /\ tasks[Id(r)].status = "done")
    BY DEF Completing, CheckEnds, ToggleRead, FinishLoses, Flip, ReopenRead, Restart
  <1> QED BY <1>1, <1>2, <1>3, <1>5, <1>6, <1>7

\* A write of a row, in the transaction of a request, that leaves its origin alone.
LEMMA RowWritten ==
  ASSUME IInv, NEW i \in DOMAIN tasks, NEW row, row.from = tasks[i].from, tasks' = [tasks EXCEPT ![i] = row]
  PROVE  /\ OriginsKept
         /\ \A j \in DOMAIN tasks : tasks'[j] = IF j = i THEN row ELSE tasks[j]
  <1>1. DOMAIN tasks' = DOMAIN tasks /\ \A j \in DOMAIN tasks : tasks'[j] = IF j = i THEN row ELSE tasks[j]
    BY DEF IInv, TypeOK, TableOK
  <1> QED BY <1>1 DEF OriginsKept

LEMMA PatchingSerial ==
  ASSUME Serial, IInv, SInv, NEW r \in Reqs, Patching(r)
  PROVE  SInv'
  <1>0. /\ pc[r] \in {"match", "load", "write", "reread"} /\ UNCHANGED <<log, crashes>>
        /\ Mine(r) /\ (Commits(r) => stale' = {}) /\ stale = {}
        /\ Held(r) /\ (pc[r] # "reread" => ticket[r] = NoTicket) /\ call[r].kind # "create"
    <2>1. pc[r] \in {"match", "load", "write", "reread"} /\ UNCHANGED <<log, crashes>>
          /\ (pc[r] = "match" => \A q \in Reqs : ~Busy(q))
      BY DEF Patching, Match, Load, PatchWrite, Reread
    <2>2. pc[r] # "reread" => ticket[r] = NoTicket
      BY <2>1 DEF IInv, HolderOK, Spawning
    <2>3. Mine(r) /\ (Commits(r) => stale' = {}) /\ stale = {}
      <3>1. CASE pc[r] = "match"
        BY <2>1, <3>1 DEF Mine, Commits, Busy, SInv, OneByOne
      <3>2. CASE pc[r] # "match"
        BY <2>1, <3>2, MineAlone DEF Busy, SInv
      <3> QED BY <3>1, <3>2
    <2> QED BY <2>1, <2>2, <2>3 DEF SInv, OneByOne, Held
  <1>1. CASE Answer(r) /\ UNCHANGED <<tasks, times, stale>> /\ pc[r] # "reread"
    BY <1>0, <1>1, AnswerSerial, LocalSerial
  <1>2. CASE (Match(r) \/ Load(r)) /\ ~Answer(r)
    <2>1. PICK next \in {"load", "write"} : Goto(r, next)
      BY <1>2 DEF Match, Load
    <2>2. UNCHANGED <<tasks, times, stale, call, ticket>> /\ pc[r] # "reread"
      BY <1>2 DEF Match, Load
    <2>3. Others(r) /\ Held(r)' /\ ticket'[r] = NoTicket
      BY <1>0, <2>1, <2>2, GotoSerial DEF AtRow
    <2> QED BY <1>0, <2>2, <2>3, LocalSerial
  <1>3. CASE PatchWrite(r) /\ Found(r)
    <2>1. PICK i \in DOMAIN tasks : i = Id(r) /\ tasks[i] \in Rows /\ pc[r] = "write" /\ call[r] \in Calls
      BY <1>3, RowOfRequest DEF PatchWrite, IInv
    <2>2. PICK s \in Statuses \union {"none"} : s = call[r].want
      BY <2>1 DEF Calls
    <2>3. PICK base : base = Bumped([tasks[i] EXCEPT !.val = edits + 1])
      OBVIOUS
    <2>4. PICK row : row = IF s # "none" /\ s # tasks[i].status THEN [base EXCEPT !.status = s] ELSE base
      OBVIOUS
    <2>5. row.from = tasks[i].from /\ row.live = tasks[i].live /\ row.left = tasks[i].left
      <3>1. edits + 1 \in Nat
        BY DEF IInv, TypeOK, TableOK
      <3>2. base \in Rows
        BY <2>1, <2>3, <3>1, EditedRow
      <3>3. base.from = tasks[i].from /\ base.live = tasks[i].live /\ base.left = tasks[i].left
        BY <2>1, <2>3 DEF Bumped, Rows
      <3> QED BY <2>4, <3>2, <3>3 DEF Rows
    <2>6. /\ tasks' = [tasks EXCEPT ![i] = row] /\ pc' = [pc EXCEPT ![r] = "reread"] /\ UNCHANGED call
          /\ IF s # "none" /\ s # tasks[i].status
               THEN times' = Counted(i, s) /\ ticket' = [ticket EXCEPT ![r] = TicketOf(i, s)]
               ELSE UNCHANGED <<times, ticket>>
          /\ Commits(r)
      BY <1>3, <2>1, <2>2, <2>3, <2>4 DEF PatchWrite, Goto
    <2>7. OriginsKept /\ \A j \in DOMAIN tasks : tasks'[j] = IF j = i THEN row ELSE tasks[j]
      BY <2>5, <2>6, RowWritten
    <2>8. /\ \A j \in DOMAIN tasks : tasks'[j].live = tasks[j].live /\ tasks'[j].left = tasks[j].left
          /\ pc'[r] = "reread" /\ call'[r] = call[r] /\ Others(r)
          /\ ticket'[r] = IF s # "none" /\ s # tasks[i].status THEN TicketOf(i, s) ELSE NoTicket
      BY <1>0, <2>1, <2>5, <2>6, <2>7 DEF Others, IInv, TypeOK, RequestsOK
    <2>9. Held(r)'
      <3>1. ticket'[r] # NoTicket => ticket'[r].id = i
        BY <2>8 DEF TicketOf
      <3>2. Completed(ticket'[r]) => s = "done"
        BY <2>8 DEF TicketOf, Completed, NoTicket
      <3> QED BY <1>0, <1>3, <2>1, <2>2, <2>8, <3>1, <3>2 DEF Held, Found, Id, AtRow, AtRule
    <2>10. CASE s # "none" /\ s # tasks[i].status
      <3>1. s \in Statuses /\ pc[r] # "idle"
        BY <2>1, <2>10
      <3>2. Chained' /\ Announced'
        BY <1>0, <2>1, <2>6, <2>7, <2>8, <2>10, <3>1, TakesOn DEF SInv
      <3> QED BY <1>0, <2>6, <2>8, <2>9, <3>2, OneStands DEF SInv
    <2>11. CASE ~(s # "none" /\ s # tasks[i].status)
      <3>1. Chained' /\ Announced'
        BY <1>0, <2>1, <2>6, <2>7, <2>8, <2>11, Quietly DEF SInv
      <3> QED BY <1>0, <2>6, <2>8, <2>9, <3>1, OneStands DEF SInv
    <2> QED BY <2>10, <2>11
  <1>4. CASE Reread(r)
    <2>1. Found(r) /\ pc[r] = "reread"
      BY <1>0, <1>4 DEF Reread, Held, AtRow
    <2>2. /\ UNCHANGED <<tasks, times, stale, call, ticket>> /\ cur'[r] = tasks[Id(r)]
          /\ Others(r) /\ ticket'[r] = ticket[r] /\ call'[r] = call[r]
          /\ pc'[r] = IF ticket[r] # NoTicket /\ call[r].want = "done" THEN "spawn" ELSE "tell"
      BY <1>4, <2>1, GotoHolds DEF Reread, IInv, TypeOK, RequestsOK
    <2>3. Held(r)'
      BY <1>0, <2>1, <2>2 DEF Held, Found, Id, AtRow, AtRule
    <2>4. pc'[r] = "tell" => ~Completed(ticket[r])
      BY <1>0, <2>1, <2>2 DEF Held, Completed, NoTicket
    <2>5. Chained' /\ Announced'
      BY <1>0, <2>1, <2>2, <2>4, CarriesOn DEF SInv, Spawning
    <2> QED BY <1>0, <2>2, <2>3, <2>5, OneStands DEF SInv
  <1>5. \/ Answer(r) /\ UNCHANGED <<tasks, times, stale>> /\ pc[r] # "reread"
        \/ (Match(r) \/ Load(r)) /\ ~Answer(r)
        \/ PatchWrite(r) /\ Found(r)
        \/ Reread(r)
    BY DEF Patching, Match, Load, PatchWrite
  <1> QED BY <1>1, <1>2, <1>3, <1>4, <1>5

LEMMA CreatingSerial ==
  ASSUME IInv, SInv, NEW r \in Reqs, Creating(r)
  PROVE  SInv'
  <1>0. /\ pc[r] \in {"spawn", "lookup", "begin", "insert", "tell"} /\ UNCHANGED crashes
        /\ Mine(r) /\ (Commits(r) => stale' = {}) /\ stale = {} /\ Held(r)
        /\ pc[r] \in {"lookup", "begin"} => ticket[r] = NoTicket /\ call[r].kind = "create"
    <2>1. pc[r] \in {"spawn", "lookup", "begin", "insert", "tell"} /\ UNCHANGED crashes
      BY DEF Creating, SpawnNothing, Lookup, CreateBegin, InsertDone, InsertFails, Tell
    <2>2. Busy(r)
      BY <2>1 DEF Busy
    <2>3. pc[r] \in {"lookup", "begin"} => ticket[r] = NoTicket /\ call[r].kind = "create"
      BY DEF IInv, HolderOK, Spawning, TypeOK, RequestsOK
    <2> QED BY <2>1, <2>2, <2>3, MineAlone DEF SInv, OneByOne
  <1>1. CASE SpawnNothing(r)
    <2>1. /\ pc[r] = "spawn" /\ cur[r].left = 0 /\ UNCHANGED <<tasks, times, log, stale, call, cur>>
          /\ pc'[r] = "tell" /\ Others(r) /\ ticket'[r] = ticket[r] /\ call[r].kind # "create"
      BY <1>0, <1>1, GotoHolds DEF SpawnNothing, IInv, Held
    <2>2. Completed(ticket[r]) => ~(tasks[ticket[r].id].left > 0)
      BY <1>0, <2>1 DEF Held, AtRule, Id, Completed, NoTicket
    <2>3. Held(r)'
      BY <1>0, <2>1 DEF Held, Found, Id, AtRow, AtRule
    <2>4. Chained' /\ Announced'
      BY <1>0, <2>1, <2>2, CarriesOn DEF SInv, Spawning
    <2> QED BY <1>0, <2>1, <2>3, <2>4, OneStands DEF SInv
  <1>2. CASE Lookup(r)
    <2>1. UNCHANGED <<tasks, times, log, stale>> /\ pc[r] = "lookup"
      BY <1>2 DEF Lookup
    <2>2. Others(r) /\ Held(r)' /\ ticket'[r] = NoTicket
      <3>1. CASE Answer(r)
        BY <3>1, AnswerSerial
      <3>2. CASE Goto(r, "begin") /\ UNCHANGED <<call, ticket>>
        BY <1>0, <2>1, <3>2, GotoSerial DEF AtRow
      <3> QED BY <1>2, <3>1, <3>2 DEF Lookup
    <2> QED BY <1>0, <2>1, <2>2, LocalSerial
  <1>3. CASE CreateBegin(r)
    <2>1. /\ UNCHANGED <<tasks, times, log, stale, call, cur, ticket>> /\ pc[r] \in {"begin", "spawn"}
          /\ pc'[r] = "insert" /\ Others(r) /\ ticket'[r] = ticket[r] /\ call'[r] = call[r]
      BY <1>3, GotoHolds DEF CreateBegin, IInv
    <2>2. Held(r)'
      BY <1>0, <2>1 DEF Held, Found, Id, AtRow, AtRule
    <2>3. CASE pc[r] = "begin"
      BY <1>0, <2>1, <2>2, <2>3, LocalSerial
    <2>4. CASE pc[r] = "spawn"
      <3>1. Chained' /\ Announced'
        BY <1>0, <2>1, <2>4, CarriesOn DEF SInv, Spawning
      <3> QED BY <1>0, <2>1, <2>2, <3>1, OneStands DEF SInv
    <2> QED BY <2>1, <2>3, <2>4
  <1>4. CASE InsertDone(r)
    <2>1. PICK row : /\ tasks' = Append(tasks, row)
                     /\ call[r].kind # "create" => row.from = ticket[r]
      <3> DEFINE w == IF call[r].kind = "create" THEN NewTask(Occurrences, call[r].cid, NoTicket)
                                                ELSE NewTask(cur[r].left - 1, 0, ticket[r])
      <3>1. tasks' = Append(tasks, w) /\ (call[r].kind # "create" => w.from = ticket[r])
        BY <1>4 DEF InsertDone, NewTask
      <3> QED BY <3>1
    <2>2. /\ pc[r] = "insert" /\ UNCHANGED <<log, crashes>> /\ stale' = {}
          /\ times' = Append(times, [completed |-> 0, reopened |-> 0])
      BY <1>0, <1>4 DEF InsertDone
    <2>3. CASE call[r].kind = "create"
      <3>1. Others(r) /\ Held(r)' /\ ticket'[r] = NoTicket /\ ticket[r] = NoTicket
        BY <1>0, <1>4, <2>3, AnswerSerial DEF InsertDone, Held
      <3>2. Chained' /\ Announced'
        BY <2>1, <2>2, <3>1, GivesBirthAnew DEF SInv
      <3> QED BY <1>0, <2>2, <3>1, <3>2, OneStands DEF SInv
    <2>4. CASE call[r].kind # "create"
      <3>1. Goto(r, "tell") /\ UNCHANGED <<call, cur, ticket>>
        BY <1>4, <2>4 DEF InsertDone
      <3>2. Others(r) /\ pc'[r] = "tell" /\ ticket'[r] = ticket[r] /\ call'[r] = call[r]
        BY <3>1, GotoHolds DEF IInv
      <3>3. Id(r) \in DOMAIN tasks /\ tasks'[Id(r)] = tasks[Id(r)]
        BY <2>1, <2>2 DEF IInv, TypeOK, TableOK, RequestsOK
      <3>4. Held(r)'
        BY <1>0, <2>2, <2>4, <3>2, <3>3 DEF Held, Found, Id, AtRow, AtRule
      <3>5. Chained' /\ Announced'
        BY <2>1, <2>2, <2>4, <3>2, GivesBirth DEF SInv
      <3> QED BY <1>0, <2>2, <3>2, <3>4, <3>5, OneStands DEF SInv
    <2> QED BY <2>3, <2>4
  <1>5. CASE InsertFails(r)
    <2>1. call[r].kind = "create" /\ UNCHANGED <<tasks, times, log>> /\ stale' = {}
      BY <1>0, <1>5 DEF InsertFails, InsertAllowed
    <2>2. Answer(r) /\ ticket[r] = NoTicket
      BY <1>0, <1>5, <2>1 DEF InsertFails, Held
    <2> QED BY <1>0, <2>1, <2>2, AnswerSerial, LocalSerial
  <1>6. CASE Tell(r)
    <2>1. /\ pc[r] = "tell" /\ Answer(r) /\ UNCHANGED <<tasks, times>> /\ stale' = {} /\ Found(r)
      BY <1>0, <1>6 DEF Tell, Held, AtRow
    <2>2. \/ ticket[r] = NoTicket /\ UNCHANGED log
          \/ log' = Append(log, [what |-> Told(r), of |-> ticket[r]])
      BY <1>6, <2>1 DEF Tell
    <2>3. Others(r) /\ Held(r)' /\ ticket'[r] = NoTicket
      BY <2>1, AnswerSerial
    <2>4. Chained' /\ Announced'
      BY <1>0, <2>1, <2>2, <2>3, IsTold DEF SInv
    <2> QED BY <1>0, <2>1, <2>3, <2>4, OneStands DEF SInv
  <1> QED BY <1>1, <1>2, <1>3, <1>4, <1>5, <1>6 DEF Creating

LEMMA ChangingSerial ==
  ASSUME IInv, SInv, NEW r \in Reqs, Changing(r)
  PROVE  SInv'
  <1>0. /\ pc[r] \in {"move", "skip", "advance", "find", "select", "erase"} /\ UNCHANGED <<times, log, crashes>>
        /\ Mine(r) /\ (Commits(r) => stale' = {}) /\ stale = {}
        /\ Held(r) /\ ticket[r] = NoTicket /\ call[r].kind # "create" /\ Id(r) \in DOMAIN tasks
    <2>1. pc[r] \in {"move", "skip", "advance", "find", "select", "erase"} /\ UNCHANGED <<times, log, crashes>>
      BY DEF Changing, Move, SkipRead, SkipWrite, FindDoomed, SelectDoomed, Erase
    <2>2. Busy(r) /\ ticket[r] = NoTicket
      BY <2>1 DEF Busy, IInv, HolderOK, Spawning
    <2>3. Id(r) \in DOMAIN tasks
      BY <2>1 DEF IInv, TypeOK, RequestsOK
    <2> QED BY <2>1, <2>2, <2>3, MineAlone DEF SInv, OneByOne, Held
  <1>1. CASE Answer(r) /\ UNCHANGED <<tasks, stale>>
    BY <1>0, <1>1, AnswerSerial, LocalSerial
  \* A row is written, and no rule gets longer than none.
  <1>2. ASSUME NEW i \in DOMAIN tasks, NEW row, row.from = tasks[i].from, tasks' = [tasks EXCEPT ![i] = row],
               row.left > 0 => tasks[i].left > 0, Commits(r), Others(r), Held(r)', ticket'[r] = NoTicket
        PROVE  SInv'
    <2>1. /\ OriginsKept
          /\ \A j \in DOMAIN tasks : tasks'[j] = IF j = i THEN row ELSE tasks[j]
      BY <1>2, RowWritten
    <2>2. \A j \in DOMAIN tasks : tasks'[j].left > 0 => tasks[j].left > 0
      BY <1>2, <2>1
    <2>3. Chained' /\ Announced'
      BY <1>0, <1>2, <2>1, <2>2, Quietly DEF SInv
    <2> QED BY <1>0, <1>2, <2>3, OneStands DEF SInv
  <1>3. ASSUME NEW i \in DOMAIN tasks, NEW row, row.from = tasks[i].from, tasks' = [tasks EXCEPT ![i] = row],
               row.left > 0 => tasks[i].left > 0, Commits(r), Answer(r)
        PROVE  SInv'
    BY <1>2, <1>3, AnswerSerial
  <1>4. \A i \in DOMAIN tasks : tasks[i] \in Rows
    BY ElementOfSeq DEF IInv, TypeOK, TableOK
  <1>5. CASE Move(r) /\ Found(r)
    <2> DEFINE row == [tasks[Id(r)] EXCEPT !.val = edits + 1]
    <2>1. row.from = tasks[Id(r)].from /\ row.left = tasks[Id(r)].left
      BY <1>0, <1>4 DEF Rows
    <2>2. Answer(r) /\ tasks' = [tasks EXCEPT ![Id(r)] = row] /\ Commits(r)
      BY <1>5 DEF Move
    <2> HIDE DEF row
    <2> QED BY <1>0, <1>3, <2>1, <2>2
  <1>6. CASE SkipRead(r) /\ ~Answer(r)
    <2>1. /\ Goto(r, "advance") /\ UNCHANGED <<tasks, times, stale, call, ids, ticket>> /\ Found(r)
          /\ cur'[r] = tasks[Id(r)]
      BY <1>6 DEF SkipRead, IInv, TypeOK, RequestsOK
    <2>2. Others(r) /\ pc'[r] = "advance" /\ ticket'[r] = ticket[r] /\ call'[r] = call[r]
      BY <2>1, GotoHolds DEF IInv
    <2>3. Held(r)'
      BY <1>0, <2>1, <2>2 DEF Held, Found, Id, AtRow, AtRule, Completed, NoTicket
    <2> QED BY <1>0, <2>1, <2>2, <2>3, LocalSerial
  <1>7. CASE SkipWrite(r) /\ Found(r)
    <2> DEFINE row == [tasks[Id(r)] EXCEPT !.left = cur[r].left - 1, !.val = edits + 1]
    <2>1. cur[r].left = tasks[Id(r)].left /\ cur[r].left > 0
      BY <1>0, <1>7 DEF SkipWrite, Held, AtRule, IInv, TypeOK, RequestsOK
    <2>2. row.from = tasks[Id(r)].from /\ tasks[Id(r)].left > 0
      BY <1>0, <1>4, <2>1 DEF Rows
    <2>3. Answer(r) /\ tasks' = [tasks EXCEPT ![Id(r)] = row] /\ Commits(r)
      BY <1>7 DEF SkipWrite
    <2> HIDE DEF row
    <2> QED BY <1>0, <1>3, <2>2, <2>3
  <1>8. CASE Goto(r, "erase") /\ Commits(r) /\ UNCHANGED <<call, ticket, tasks>>
    <2>1. Others(r) /\ Held(r)' /\ ticket'[r] = NoTicket
      BY <1>0, <1>8, GotoSerial DEF AtRow
    <2> QED BY <1>0, <1>8, <2>1, LocalSerial
  <1>9. CASE Erase(r)
    <2>1. PICK i \in ids[r] : /\ tasks' = [tasks EXCEPT ![i].live = FALSE]
                              /\ IF ids[r] = {i} THEN Answer(r)
                                 ELSE UNCHANGED <<pc, call, cur, ticket>>
      BY <1>9 DEF Erase
    <2>2. i \in DOMAIN tasks /\ Commits(r) /\ pc[r] = "erase"
      BY <1>9, <2>1 DEF Erase, IInv, TypeOK, RequestsOK
    <2> DEFINE row == [tasks[i] EXCEPT !.live = FALSE]
    <2>3. row.from = tasks[i].from /\ row.left = tasks[i].left /\ tasks' = [tasks EXCEPT ![i] = row]
      BY <1>4, <2>1, <2>2 DEF Rows
    <2> HIDE DEF row
    <2>4. CASE Answer(r)
      BY <1>3, <2>2, <2>3, <2>4
    <2>5. CASE UNCHANGED <<pc, call, cur, ticket>>
      <3>1. Others(r) /\ ticket'[r] = NoTicket
        BY <1>0, <2>5 DEF Others
      <3>2. Held(r)'
        BY <1>0, <2>2, <2>5 DEF Held, AtRow, AtRule, Completed, NoTicket
      <3> QED BY <1>2, <2>2, <2>3, <3>1, <3>2
    <2> QED BY <2>1, <2>4, <2>5
  <1>10. \/ Answer(r) /\ UNCHANGED <<tasks, stale>>
         \/ (Move(r) /\ Found(r)) \/ (SkipRead(r) /\ ~Answer(r)) \/ (SkipWrite(r) /\ Found(r))
         \/ Goto(r, "erase") /\ Commits(r) /\ UNCHANGED <<call, ticket, tasks>>
         \/ Erase(r)
    <2>1. CASE Move(r) \/ SkipRead(r) \/ SkipWrite(r)
      BY <2>1 DEF Move, SkipRead, SkipWrite
    <2>2. CASE FindDoomed(r)
      BY <2>2 DEF FindDoomed
    <2>3. CASE SelectDoomed(r)
      BY <2>3 DEF SelectDoomed
    <2> QED BY <2>1, <2>2, <2>3 DEF Changing
  <1> QED BY <1>1, <1>5, <1>6, <1>7, <1>8, <1>9, <1>10

LEMMA CrashSerial ==
  ASSUME IInv, SInv, Crash
  PROVE  SInv'
  <1>1. \A r \in Reqs : ticket'[r] = NoTicket /\ ~Busy(r)' /\ pc'[r] \in {"idle", "match"}
                        /\ (call'[r] = call[r] \/ call'[r] = NoCall) /\ (pc'[r] = "match" => call'[r] = call[r])
                        /\ pc'[r] \in {pc[r], "idle"}
    BY DEF Crash, Busy
  <1>2. \A r \in Reqs : Held(r)'
    <2> TAKE r \in Reqs
    <2>1. Held(r)
      BY DEF SInv, OneByOne
    <2> QED BY <1>1, <2>1 DEF Held, AtRow, AtRule, Completed, NoTicket, NoCall
  <1>3. crashes' # MaxCrashes
    BY ConstantsAssumption DEF Crash, IInv, TypeOK, TableOK
  <1>4. stale' = {}
    BY DEF Crash
  <1> QED BY <1>1, <1>2, <1>3, <1>4 DEF SInv, OneByOne, Chained, Announced

LEMMA SerialInit == Init => SInv
  <1> SUFFICES ASSUME Init PROVE SInv
    OBVIOUS
  <1>1. \A r \in Reqs : ticket[r] = NoTicket /\ pc[r] = "idle" /\ call[r] = NoCall
    BY DEF Init
  <1>2. OneByOne
    BY <1>1 DEF Init, OneByOne, Busy, Held, AtRow, AtRule, Completed, NoTicket, NoCall
  <1>3. Completions = {}
    <2>1. DOMAIN tasks = {1} /\ times[1].completed = 0
      BY DEF Init
    <2>2. \A t \in Completions : t.id = 1 /\ t.nr \in 1 .. MaxReqs /\ t.nr <= times[1].completed
      BY <2>1 DEF Completions
    <2> QED BY <2>1, <2>2, ConstantsAssumption
  <1> QED BY <1>2, <1>3 DEF SInv, Chained, Announced

LEMMA SerialStep ==
  ASSUME Serial, IInv, SInv, [Next]_vars
  PROVE  SInv'
  <1>1. CASE UNCHANGED vars
    <2> USE DEF vars
    <2>1. OneByOne'
      BY <1>1 DEF SInv, OneByOne, Busy, Held, Found, Id
    <2>2. Completions' = Completions /\ \A t, places : Carried(t, places) => Carried(t, places)'
      BY <1>1 DEF Completions, Carried
    <2> QED BY <1>1, <2>1, <2>2 DEF SInv, Chained, Announced
  <1>2. ASSUME NEW r \in Reqs, Arrives(r) PROVE SInv'
    BY <1>2, ArriveSerial DEF Arrives
  <1>3. ASSUME NEW r \in Reqs, Completing(r) \/ Patching(r) \/ Creating(r) \/ Changing(r)
        PROVE  SInv'
    BY <1>3, CompletingSerial, PatchingSerial, CreatingSerial, ChangingSerial
  <1> QED BY <1>1, <1>2, <1>3, CrashSerial DEF Next

\* Once everybody is answered, nobody carries a completion any more.
LEMMA NothingCarried ==
  ASSUME IInv, SInv
  PROVE  ChainGoesOn /\ CompletionsTold
  <1>1. ASSUME Quiet, NEW t \in Completions, NEW places, Carried(t, places)
        PROVE  FALSE
    <2>1. PICK r \in Reqs : ticket[r] = t
      BY <1>1 DEF Carried
    <2>2. ticket[r] = NoTicket
      BY <1>1, WaitingHold DEF Quiet
    <2> QED BY <2>1, <2>2 DEF Completions, NoTicket
  <1>2. ChainGoesOn
    BY <1>1 DEF SInv, Chained, ChainGoesOn
  <1>3. CompletionsTold
    BY <1>1 DEF SInv, Announced, CompletionsTold
  <1> QED BY <1>2, <1>3

\* While requests are handled one after the other, every completion of a task with
\* occurrences left has created the next one once all are answered (ToggleTask: "让循环不断").
THEOREM ChainGoesOnSerially == Serial => (Spec => []ChainGoesOn)
  <1> SUFFICES ASSUME Serial PROVE Spec => []ChainGoesOn
    OBVIOUS
  <1>1. IInv /\ SInv /\ [Next]_vars => SInv'
    BY SerialStep
  <1>2. IInv /\ SInv => ChainGoesOn
    BY NothingCarried
  <1> QED BY <1>1, <1>2, SerialInit, TicketsInvariant, PTL DEF Spec

\* While requests are handled one after the other, every completion has its event and its
\* history entry once all are answered (the comment on spawnNextRepeat in UpdateTask).
THEOREM CompletionsToldSerially == Serial => (Spec => []CompletionsTold)
  <1> SUFFICES ASSUME Serial PROVE Spec => []CompletionsTold
    OBVIOUS
  <1>1. IInv /\ SInv /\ [Next]_vars => SInv'
    BY SerialStep
  <1>2. IInv /\ SInv => CompletionsTold
    BY NothingCarried
  <1> QED BY <1>1, <1>2, SerialInit, TicketsInvariant, PTL DEF Spec

-----------------------------------------------------------------------------
(* One request after the other, and none that begins a task.               *)

\* A request that changed a status completed the task or reopened it, and an edit sees it
\* in the row it reads again.
Whole(r) ==
  /\ call[r].want # "in_progress" /\ call[r].kind # "patch"
  /\ ticket[r] # NoTicket => ticket[r].what \in Whats
  /\ call[r].kind = "edit" =>
       pc[r] \in {"idle", "match", "load", "write", "reread", "spawn", "insert", "tell"}
  /\ call[r].kind = "edit" /\ ticket[r] # NoTicket =>
       /\ pc[r] = "reread" => (tasks[Id(r)].status = "done" <=> Completed(ticket[r]))
       /\ pc[r] \in {"spawn", "insert", "tell"} => (cur[r].status = "done" <=> Completed(ticket[r]))

OpenOrDone == \A i \in DOMAIN tasks : tasks[i].status # "in_progress"

NoneBegun == OpenOrDone /\ (\A r \in Reqs : Whole(r)) /\ ToldAsItWas

LEMMA WholeStands ==
  ASSUME IInv, NoneBegun, NEW r \in Reqs, Others(r), Mine(r), Whole(r)', OpenOrDone', ToldAsItWas'
  PROVE  NoneBegun'
  <1>1. ASSUME NEW q \in Reqs, q # r
        PROVE  Whole(q)'
    <2>1. pc'[q] = pc[q] /\ call'[q] = call[q] /\ ticket'[q] = NoTicket /\ Whole(q)
      BY <1>1, WaitingHold DEF Others, Mine, NoneBegun
    <2> QED BY <2>1 DEF Whole
  <1> QED BY <1>1 DEF NoneBegun

LEMMA AnswerWhole ==
  ASSUME IInv, NoneBegun, NEW r \in Reqs, Answer(r), Mine(r), OpenOrDone', ToldAsItWas'
  PROVE  NoneBegun'
  <1>1. /\ pc'[r] = "idle" /\ call'[r] = NoCall /\ ticket'[r] = NoTicket
    BY DEF Answer, IInv, TypeOK, RequestsOK
  <1>2. Whole(r)' /\ Others(r)
    BY <1>1, AnswerHolds DEF Whole, NoCall, IInv
  <1> QED BY <1>2, WholeStands

LEMMA NotEditWhole ==
  ASSUME IInv, NoneBegun, NEW r \in Reqs, Others(r), Mine(r), call'[r] = call[r], call[r].kind # "edit",
         ticket'[r] # NoTicket => ticket'[r].what \in Whats, OpenOrDone', ToldAsItWas'
  PROVE  NoneBegun'
  <1>1. Whole(r)'
    BY DEF Whole, NoneBegun
  <1> QED BY <1>1, WholeStands

LEMMA SameStatus ==
  ASSUME NoneBegun, UNCHANGED <<tasks, log>>
  PROVE  OpenOrDone' /\ ToldAsItWas'
  BY DEF NoneBegun, OpenOrDone, ToldAsItWas

LEMMA ArriveBegun ==
  ASSUME "patch" \notin Kinds, IInv, NoneBegun, NEW r \in Reqs, NEW kind \in Kinds, NEW i \in DOMAIN tasks,
         NEW want \in Wants(kind), NEW cid \in IF kind = "create" THEN Cids ELSE {0},
         Arrive(r, kind, i, want, cid)
  PROVE  NoneBegun'
  <1>1. kind \in AllKinds /\ kind # "patch"
    BY ConstantsAssumption
  <1>2. want # "in_progress"
    BY <1>1 DEF Wants, AllKinds
  <1>3. /\ pc'[r] = First(kind) /\ call'[r].kind = kind /\ call'[r].want = want /\ ticket'[r] = NoTicket
        /\ UNCHANGED <<tasks, cur, log>>
    BY DEF Arrive, Goto, IInv, TypeOK, RequestsOK, HolderOK, Spawning
  <1>4. kind = "edit" => First(kind) = "match"
    BY DEF First
  <1>5. Whole(r)'
    BY <1>1, <1>2, <1>3, <1>4 DEF Whole
  <1>6. ASSUME NEW q \in Reqs, q # r
        PROVE  Whole(q)'
    <2>1. pc'[q] = pc[q] /\ call'[q] = call[q] /\ ticket'[q] = ticket[q] /\ Whole(q)
      BY <1>6 DEF Arrive, Goto, IInv, TypeOK, RequestsOK, NoneBegun
    <2> QED BY <1>3, <2>1 DEF Whole, Id
  <1> QED BY <1>3, <1>5, <1>6, SameStatus DEF NoneBegun

LEMMA CompletingBegun ==
  ASSUME IInv, SInv, NoneBegun, NEW r \in Reqs, Completing(r)
  PROVE  NoneBegun'
  <1>0. /\ pc[r] \in {"check", "read", "finish", "flip", "reopen", "restart"} /\ UNCHANGED log
        /\ Mine(r) /\ call[r].kind # "edit" /\ ticket[r] = NoTicket /\ Held(r)
    <2>1. pc[r] \in {"check", "read", "finish", "flip", "reopen", "restart"} /\ UNCHANGED log
      BY DEF Completing, CheckEnds, CheckGoesOn, ToggleRead, FinishWins, FinishLoses, Flip, ReopenRead, Restart
    <2>2. Busy(r) /\ ticket[r] = NoTicket
      BY <2>1 DEF Busy, IInv, HolderOK, Spawning
    <2> QED BY <2>1, <2>2, MineAlone DEF SInv, OneByOne, NoneBegun, Whole
  <1>1. CASE Answer(r) /\ UNCHANGED tasks
    BY <1>0, <1>1, SameStatus, AnswerWhole
  <1>2. ASSUME NEW next, Goto(r, next), UNCHANGED <<tasks, call, ticket>>
        PROVE  NoneBegun'
    <2>1. Others(r) /\ ticket'[r] = NoTicket /\ call'[r] = call[r]
      BY <1>0, <1>2, GotoHolds DEF IInv
    <2> QED BY <1>0, <1>2, <2>1, SameStatus, NotEditWhole
  <1>3. ASSUME NEW s \in {"done", "todo"}, NEW next, SetStatus(r, s), Goto(r, next), UNCHANGED call,
               s = "todo" => tasks[Id(r)].status = "done"
        PROVE  NoneBegun'
    <2>1. s \in Statuses /\ pc[r] # "idle"
      BY <1>0 DEF Statuses
    <2>2. /\ \A i \in DOMAIN tasks : tasks'[i].status = IF i = Id(r) THEN s ELSE tasks[i].status
          /\ ticket' = [ticket EXCEPT ![r] = TicketOf(Id(r), s)] /\ ticket'[r] = TicketOf(Id(r), s)
          /\ DOMAIN tasks' = DOMAIN tasks
      BY <1>3, <2>1, StatusIs
    <2>3. Others(r) /\ call'[r] = call[r]
      BY <1>3, <2>2 DEF Goto, Others, IInv, TypeOK, RequestsOK
    <2>4. ticket'[r].what \in Whats
      BY <1>3, <2>2 DEF TicketOf, Whats
    <2>5. OpenOrDone' /\ ToldAsItWas'
      BY <1>0, <2>2 DEF OpenOrDone, NoneBegun, ToldAsItWas
    <2> QED BY <1>0, <2>3, <2>4, <2>5, NotEditWhole
  <1>4. CASE (CheckGoesOn(r) \/ ToggleRead(r) \/ ReopenRead(r)) /\ ~Answer(r)
    BY <1>2, <1>4 DEF CheckGoesOn, ToggleRead, ReopenRead
  <1>5. CASE FinishWins(r)
    BY <1>3, <1>5 DEF FinishWins
  <1>6. CASE (Flip(r) \/ Restart(r)) /\ ~(Answer(r) /\ UNCHANGED tasks)
    <2>1. SetStatus(r, "todo") /\ Goto(r, "tell") /\ UNCHANGED call
      BY <1>6 DEF Flip, Restart
    <2>2. tasks[Id(r)].status = "done"
      BY <1>0, <1>6 DEF Flip, Restart, Held
    <2> QED BY <1>3, <2>1, <2>2
  <1>7. CASE CheckEnds(r) \/ CheckGoesOn(r) \/ ToggleRead(r) \/ FinishLoses(r) \/ ReopenRead(r)
    <2>1. UNCHANGED tasks
      BY <1>7 DEF CheckEnds, CheckGoesOn, ToggleRead, FinishLoses, ReopenRead
    <2>2. Answer(r) \/ ((CheckGoesOn(r) \/ ToggleRead(r) \/ ReopenRead(r)) /\ ~Answer(r))
      BY <1>7 DEF CheckEnds, FinishLoses
    <2> QED BY <1>1, <1>4, <2>1, <2>2
  <1> QED BY <1>1, <1>5, <1>6, <1>7 DEF Completing

LEMMA PatchingBegun ==
  ASSUME Serial, IInv, SInv, NoneBegun, NEW r \in Reqs, Patching(r)
  PROVE  NoneBegun'
  <1>0. /\ pc[r] \in {"match", "load", "write", "reread"} /\ UNCHANGED log
        /\ Mine(r) /\ (pc[r] # "reread" => ticket[r] = NoTicket) /\ Held(r) /\ Whole(r)
        /\ Id(r) \in DOMAIN tasks
    <2>1. pc[r] \in {"match", "load", "write", "reread"} /\ UNCHANGED log
          /\ (pc[r] = "match" => \A q \in Reqs : ~Busy(q))
      BY DEF Patching, Match, Load, PatchWrite, Reread
    <2>2. pc[r] # "reread" => ticket[r] = NoTicket
      BY <2>1 DEF IInv, HolderOK, Spawning
    <2>3. Mine(r)
      <3>1. CASE pc[r] = "match"
        BY <2>1, <3>1 DEF Mine
      <3>2. CASE pc[r] # "match"
        BY <2>1, <3>2, MineAlone DEF Busy, SInv
      <3> QED BY <3>1, <3>2
    <2>4. Id(r) \in DOMAIN tasks
      BY <2>1 DEF IInv, TypeOK, RequestsOK
    <2> QED BY <2>1, <2>2, <2>3, <2>4 DEF SInv, OneByOne, NoneBegun
  <1>1. CASE Answer(r) /\ UNCHANGED tasks
    BY <1>0, <1>1, SameStatus, AnswerWhole
  <1>2. CASE (Match(r) \/ Load(r)) /\ ~Answer(r)
    <2>1. PICK next \in {"load", "write"} : Goto(r, next)
      BY <1>2 DEF Match, Load
    <2>2. UNCHANGED <<tasks, call, ticket>> /\ pc[r] # "reread"
      BY <1>2 DEF Match, Load
    <2>3. Others(r) /\ pc'[r] = next /\ ticket'[r] = NoTicket /\ call'[r] = call[r]
      BY <1>0, <2>1, <2>2, GotoHolds DEF IInv
    <2>4. Whole(r)'
      BY <1>0, <2>3 DEF Whole
    <2> QED BY <1>0, <2>2, <2>3, <2>4, SameStatus, WholeStands
  <1>3. CASE PatchWrite(r) /\ Found(r)
    <2>1. PICK i \in DOMAIN tasks : i = Id(r) /\ tasks[i] \in Rows /\ pc[r] = "write" /\ call[r] \in Calls
      BY <1>3, RowOfRequest DEF PatchWrite, IInv
    <2>2. PICK s \in {"todo", "done", "none"} : s = call[r].want
      BY <1>0, <2>1 DEF Calls, Statuses, Whole
    <2>3. PICK base : base = Bumped([tasks[i] EXCEPT !.val = edits + 1])
      OBVIOUS
    <2>4. PICK row : row = IF s # "none" /\ s # tasks[i].status THEN [base EXCEPT !.status = s] ELSE base
      OBVIOUS
    <2>5. row.from = tasks[i].from
          /\ row.status = IF s # "none" /\ s # tasks[i].status THEN s ELSE tasks[i].status
      <3>1. edits + 1 \in Nat
        BY DEF IInv, TypeOK, TableOK
      <3>2. base \in Rows
        BY <2>1, <2>3, <3>1, EditedRow
      <3>3. base.from = tasks[i].from /\ base.status = tasks[i].status
        BY <2>1, <2>3 DEF Bumped, Rows
      <3> QED BY <2>4, <3>2, <3>3 DEF Rows
    <2>6. /\ tasks' = [tasks EXCEPT ![i] = row] /\ pc' = [pc EXCEPT ![r] = "reread"] /\ UNCHANGED call
          /\ IF s # "none" /\ s # tasks[i].status
               THEN ticket' = [ticket EXCEPT ![r] = TicketOf(i, s)]
               ELSE UNCHANGED ticket
      BY <1>3, <2>1, <2>2, <2>3, <2>4 DEF PatchWrite, Goto
    <2>7. \A j \in DOMAIN tasks : tasks'[j] = IF j = i THEN row ELSE tasks[j]
      BY <2>5, <2>6, RowWritten
    <2>8. /\ pc'[r] = "reread" /\ call'[r] = call[r] /\ Others(r) /\ DOMAIN tasks' = DOMAIN tasks
          /\ ticket'[r] = IF s # "none" /\ s # tasks[i].status THEN TicketOf(i, s) ELSE NoTicket
      BY <1>0, <2>1, <2>6 DEF Others, IInv, TypeOK, RequestsOK, TableOK
    <2>9. OpenOrDone' /\ ToldAsItWas'
      BY <1>0, <2>2, <2>5, <2>7, <2>8 DEF NoneBegun, OpenOrDone, ToldAsItWas
    <2>10. tasks[i].status \in {"todo", "done"}
      BY <2>1 DEF Rows, Statuses, NoneBegun, OpenOrDone
    <2>11. ticket'[r] # NoTicket => /\ ticket'[r].what \in Whats
                                    /\ row.status = "done" <=> Completed(ticket'[r])
      BY <2>2, <2>5, <2>8, <2>10 DEF TicketOf, Whats, Completed
    <2>12. Whole(r)'
      <3>1. tasks'[i] = row /\ call'[r].id = i
        BY <2>1, <2>7, <2>8 DEF Id
      <3> QED BY <1>0, <2>8, <2>11, <3>1 DEF Whole, Id
    <2> QED BY <1>0, <2>8, <2>9, <2>12, WholeStands
  <1>4. CASE Reread(r) /\ ~Answer(r)
    <2>1. /\ pc[r] = "reread" /\ UNCHANGED <<tasks, call, ticket>> /\ cur'[r] = tasks[Id(r)]
          /\ Others(r) /\ ticket'[r] = ticket[r] /\ call'[r] = call[r] /\ pc'[r] \in {"spawn", "tell"}
      BY <1>4, GotoHolds DEF Reread, IInv, TypeOK, RequestsOK
    <2>2. Whole(r)'
      BY <1>0, <2>1 DEF Whole
    <2> QED BY <1>0, <2>1, <2>2, SameStatus, WholeStands
  <1>5. \/ Answer(r) /\ UNCHANGED tasks
        \/ (Match(r) \/ Load(r)) /\ ~Answer(r)
        \/ PatchWrite(r) /\ Found(r)
        \/ Reread(r) /\ ~Answer(r)
    BY DEF Patching, Match, Load, PatchWrite, Reread
  <1> QED BY <1>1, <1>2, <1>3, <1>4, <1>5

LEMMA CreatingBegun ==
  ASSUME IInv, SInv, NoneBegun, NEW r \in Reqs, Creating(r)
  PROVE  NoneBegun'
  <1>0. /\ pc[r] \in {"spawn", "lookup", "begin", "insert", "tell"}
        /\ Mine(r) /\ Held(r) /\ Whole(r)
        /\ pc[r] \in {"lookup", "begin"} => call[r].kind = "create"
    <2>1. pc[r] \in {"spawn", "lookup", "begin", "insert", "tell"}
      BY DEF Creating, SpawnNothing, Lookup, CreateBegin, InsertDone, InsertFails, Tell
    <2>2. Busy(r)
      BY <2>1 DEF Busy
    <2>3. pc[r] \in {"lookup", "begin"} => call[r].kind = "create"
      BY DEF IInv, TypeOK, RequestsOK
    <2> QED BY <2>1, <2>2, <2>3, MineAlone DEF SInv, OneByOne, NoneBegun
  \* The request goes on, and what it has to announce with it.
  <1>1. ASSUME NEW next \in {"begin", "insert", "tell"}, Goto(r, next), UNCHANGED <<call, cur, ticket>>,
               OpenOrDone', ToldAsItWas',
               (pc[r] \in {"spawn", "insert"} /\ next # "begin") \/ call[r].kind = "create"
        PROVE  NoneBegun'
    <2>1. Others(r) /\ pc'[r] = next /\ ticket'[r] = ticket[r] /\ call'[r] = call[r]
      BY <1>1, GotoHolds DEF IInv
    <2>2. Whole(r)'
      BY <1>0, <1>1, <2>1 DEF Whole
    <2> QED BY <1>0, <1>1, <2>1, <2>2, WholeStands
  <1>2. CASE SpawnNothing(r) \/ CreateBegin(r) \/ (Lookup(r) /\ ~Answer(r)) \/ (InsertFails(r) /\ ~Answer(r))
    <2>1. PICK next \in {"begin", "insert", "tell"} : Goto(r, next)
      BY <1>2 DEF SpawnNothing, CreateBegin, Lookup, InsertFails
    <2>2. UNCHANGED <<tasks, log, call, cur, ticket>>
      BY <1>2 DEF SpawnNothing, CreateBegin, Lookup, InsertFails
    <2>3. (pc[r] \in {"spawn", "insert"} /\ next # "begin") \/ call[r].kind = "create"
      <3>1. CASE next = "begin"
        <4>1. pc'[r] = "begin"
          BY <2>1, <3>1 DEF Goto, IInv, TypeOK, RequestsOK
        <4> QED BY <1>0, <1>2, <4>1
             DEF SpawnNothing, CreateBegin, InsertFails, Lookup, Goto, IInv, TypeOK, RequestsOK
      <3>2. CASE next # "begin"
        BY <1>0, <1>2, <3>2 DEF SpawnNothing, CreateBegin, Lookup, InsertFails
      <3> QED BY <3>1, <3>2
    <2> QED BY <1>0, <1>1, <2>1, <2>2, <2>3, SameStatus
  <1>3. CASE (Lookup(r) \/ InsertFails(r)) /\ Answer(r)
    <2>1. UNCHANGED <<tasks, log>>
      BY <1>3 DEF Lookup, InsertFails
    <2> QED BY <1>0, <1>3, <2>1, SameStatus, AnswerWhole
  <1>4. CASE InsertDone(r)
    <2>1. PICK row : tasks' = Append(tasks, row) /\ row.status = "todo"
      BY <1>4 DEF InsertDone, NewTask
    <2>2. OpenOrDone'
      BY <2>1 DEF OpenOrDone, NoneBegun, IInv, TypeOK, TableOK
    <2>3. ToldAsItWas'
      BY <1>4 DEF InsertDone, ToldAsItWas, NoneBegun
    <2>4. CASE call[r].kind = "create"
      BY <1>0, <1>4, <2>2, <2>3, <2>4, AnswerWhole DEF InsertDone
    <2>5. CASE call[r].kind # "create"
      <3>1. Goto(r, "tell") /\ UNCHANGED <<call, cur, ticket>> /\ pc[r] = "insert"
        BY <1>4, <2>5 DEF InsertDone
      <3> QED BY <1>1, <2>2, <2>3, <3>1
    <2> QED BY <2>4, <2>5
  <1>5. CASE Tell(r)
    <2>1. pc[r] = "tell" /\ Answer(r) /\ UNCHANGED tasks
      BY <1>5 DEF Tell
    <2>2. ticket[r] # NoTicket => Told(r) = ticket[r].what
      BY <1>0, <2>1 DEF Whole, Told, Completed, Whats
    <2>3. ToldAsItWas'
      <3>1. CASE UNCHANGED log
        BY <3>1 DEF ToldAsItWas, NoneBegun
      <3>2. CASE ~UNCHANGED log
        <4> DEFINE e == [what |-> Told(r), of |-> ticket[r]]
        <4>1. log' = Append(log, e) /\ e.what = e.of.what
          BY <1>5, <2>2, <3>2 DEF Tell
        <4> HIDE DEF e
        <4> QED BY <4>1 DEF ToldAsItWas, NoneBegun, IInv, TypeOK, TableOK
      <3> QED BY <3>1, <3>2
    <2>4. OpenOrDone'
      BY <2>1 DEF OpenOrDone, NoneBegun
    <2> QED BY <1>0, <2>1, <2>3, <2>4, AnswerWhole
  <1> QED BY <1>2, <1>3, <1>4, <1>5 DEF Creating

LEMMA ChangingBegun ==
  ASSUME IInv, SInv, NoneBegun, NEW r \in Reqs, Changing(r)
  PROVE  NoneBegun'
  <1>0. /\ pc[r] \in {"move", "skip", "advance", "find", "select", "erase"} /\ UNCHANGED log
        /\ Mine(r) /\ call[r].kind # "edit" /\ ticket[r] = NoTicket /\ Id(r) \in DOMAIN tasks
    <2>1. pc[r] \in {"move", "skip", "advance", "find", "select", "erase"} /\ UNCHANGED log
      BY DEF Changing, Move, SkipRead, SkipWrite, FindDoomed, SelectDoomed, Erase
    <2>2. Busy(r) /\ ticket[r] = NoTicket
      BY <2>1 DEF Busy, IInv, HolderOK, Spawning
    <2>3. Id(r) \in DOMAIN tasks
      BY <2>1 DEF IInv, TypeOK, RequestsOK
    <2> QED BY <2>1, <2>2, <2>3, MineAlone DEF SInv, OneByOne, NoneBegun, Whole
  <1>1. \A i \in DOMAIN tasks : tasks[i] \in Rows
    BY ElementOfSeq DEF IInv, TypeOK, TableOK
  \* A row is written, its status is not.
  <1>2. ASSUME NEW i \in DOMAIN tasks, NEW row, row.status = tasks[i].status, tasks' = [tasks EXCEPT ![i] = row]
        PROVE  OpenOrDone' /\ ToldAsItWas'
    <2>1. DOMAIN tasks' = DOMAIN tasks /\ \A j \in DOMAIN tasks : tasks'[j] = IF j = i THEN row ELSE tasks[j]
      BY <1>2 DEF IInv, TypeOK, TableOK
    <2> QED BY <1>0, <1>2, <2>1 DEF NoneBegun, OpenOrDone, ToldAsItWas
  <1>3. CASE Move(r) \/ SkipWrite(r)
    <2>1. OpenOrDone' /\ ToldAsItWas'
      <3>1. CASE UNCHANGED tasks
        BY <1>0, <3>1, SameStatus
      <3>2. CASE Move(r) /\ ~UNCHANGED tasks
        <4> DEFINE row == [tasks[Id(r)] EXCEPT !.val = edits + 1]
        <4>1. tasks' = [tasks EXCEPT ![Id(r)] = row] /\ row.status = tasks[Id(r)].status
          BY <1>0, <1>1, <3>2 DEF Move, Rows
        <4> HIDE DEF row
        <4> QED BY <1>0, <1>2, <4>1
      <3>3. CASE SkipWrite(r) /\ ~UNCHANGED tasks
        <4> DEFINE row == [tasks[Id(r)] EXCEPT !.left = cur[r].left - 1, !.val = edits + 1]
        <4>1. tasks' = [tasks EXCEPT ![Id(r)] = row] /\ row.status = tasks[Id(r)].status
          BY <1>0, <1>1, <3>3 DEF SkipWrite, Rows
        <4> HIDE DEF row
        <4> QED BY <1>0, <1>2, <4>1
      <3> QED BY <1>3, <3>1, <3>2, <3>3
    <2>2. Answer(r)
      BY <1>3 DEF Move, SkipWrite
    <2> QED BY <1>0, <2>1, <2>2, AnswerWhole
  <1>4. CASE SkipRead(r) \/ FindDoomed(r) \/ SelectDoomed(r)
    <2>1. UNCHANGED tasks
      BY <1>4 DEF SkipRead, FindDoomed, SelectDoomed
    <2>2. Answer(r) \/ \E next : Goto(r, next) /\ UNCHANGED <<call, ticket>>
      BY <1>4 DEF SkipRead, FindDoomed, SelectDoomed
    <2>3. CASE Answer(r)
      BY <1>0, <2>1, <2>3, SameStatus, AnswerWhole
    <2>4. ASSUME NEW next, Goto(r, next), UNCHANGED <<call, ticket>>
          PROVE  NoneBegun'
      <3>1. Others(r) /\ ticket'[r] = NoTicket /\ call'[r] = call[r]
        BY <1>0, <2>4, GotoHolds DEF IInv
      <3> QED BY <1>0, <2>1, <3>1, SameStatus, NotEditWhole
    <2> QED BY <2>2, <2>3, <2>4
  <1>5. CASE Erase(r)
    <2>1. PICK i \in ids[r] : /\ tasks' = [tasks EXCEPT ![i].live = FALSE]
                              /\ IF ids[r] = {i} THEN Answer(r)
                                 ELSE UNCHANGED <<pc, call, cur, ticket>>
      BY <1>5 DEF Erase
    <2>2. i \in DOMAIN tasks
      BY <1>5, <2>1 DEF Erase, IInv, TypeOK, RequestsOK
    <2> DEFINE row == [tasks[i] EXCEPT !.live = FALSE]
    <2>3. row.status = tasks[i].status /\ tasks' = [tasks EXCEPT ![i] = row]
      BY <1>1, <2>1, <2>2 DEF Rows
    <2> HIDE DEF row
    <2>4. OpenOrDone' /\ ToldAsItWas'
      BY <1>2, <2>2, <2>3
    <2>5. CASE Answer(r)
      BY <1>0, <2>4, <2>5, AnswerWhole
    <2>6. CASE UNCHANGED <<pc, call, cur, ticket>>
      <3>1. Others(r) /\ ticket'[r] = NoTicket /\ call'[r] = call[r]
        BY <1>0, <2>6 DEF Others
      <3> QED BY <1>0, <2>4, <3>1, NotEditWhole
    <2> QED BY <2>1, <2>5, <2>6
  <1> QED BY <1>3, <1>4, <1>5 DEF Changing

LEMMA CrashBegun ==
  ASSUME NoneBegun, Crash
  PROVE  NoneBegun'
  <1>1. \A r \in Reqs : ticket'[r] = NoTicket /\ pc'[r] \in {"idle", "match"}
                        /\ (call'[r] = call[r] \/ call'[r] = NoCall)
    BY DEF Crash
  <1>2. \A r \in Reqs : Whole(r)'
    BY <1>1 DEF Whole, NoneBegun, NoCall
  <1>3. UNCHANGED <<tasks, log>>
    BY DEF Crash
  <1> QED BY <1>2, <1>3, SameStatus DEF NoneBegun

LEMMA BegunInit == Init => NoneBegun
  <1> SUFFICES ASSUME Init PROVE NoneBegun
    OBVIOUS
  <1>1. \A r \in Reqs : ticket[r] = NoTicket /\ pc[r] = "idle" /\ call[r] = NoCall
    BY DEF Init
  <1>2. DOMAIN tasks = {1} /\ tasks[1].status = "todo" /\ DOMAIN log = {}
    BY DEF Init
  <1> QED BY <1>1, <1>2 DEF NoneBegun, OpenOrDone, Whole, ToldAsItWas, NoCall

LEMMA BegunStep ==
  ASSUME Serial, "patch" \notin Kinds, IInv, SInv, NoneBegun, [Next]_vars
  PROVE  NoneBegun'
  <1>1. CASE UNCHANGED vars
    BY <1>1 DEF vars, NoneBegun, OpenOrDone, Whole, Id, ToldAsItWas
  <1>2. ASSUME NEW r \in Reqs, Arrives(r) PROVE NoneBegun'
    BY <1>2, ArriveBegun DEF Arrives
  <1>3. ASSUME NEW r \in Reqs, Completing(r) \/ Patching(r) \/ Creating(r) \/ Changing(r)
        PROVE  NoneBegun'
    BY <1>3, CompletingBegun, PatchingBegun, CreatingBegun, ChangingBegun
  <1> QED BY <1>1, <1>2, <1>3, CrashBegun DEF Next

\* While requests are handled one after the other and none begins a task, what is announced
\* is what happened (UpdateTask: "判定一律用 statusChanged").
THEOREM ToldAsItWasSerially ==
  Serial /\ "patch" \notin Kinds => (Spec => []ToldAsItWas)
  <1> SUFFICES ASSUME Serial, "patch" \notin Kinds PROVE Spec => []ToldAsItWas
    OBVIOUS
  <1>1. IInv /\ SInv /\ [Next]_vars => SInv'
    BY SerialStep
  <1>2. IInv /\ SInv /\ NoneBegun /\ [Next]_vars => NoneBegun'
    BY BegunStep
  <1>3. NoneBegun => ToldAsItWas
    BY DEF NoneBegun
  <1> QED BY <1>1, <1>2, <1>3, SerialInit, BegunInit, TicketsInvariant, PTL DEF Spec

-----------------------------------------------------------------------------
(* One request after the other, and every write of contents has a version. *)

\* The page behind an edit shows an earlier version, or what the row holds.
Seen(r) ==
  call[r].kind = "edit" /\ pc[r] \in {"match", "load", "write"} =>
    LET row == tasks[Id(r)] IN
    /\ call[r].version <= row.version
    /\ call[r].version = row.version => call[r].val = row.val
    /\ pc[r] # "match" => call[r].version = row.version

Unversioned == {"move", "skip", "advance"}

Shown == \A r \in Reqs : Seen(r) /\ pc[r] \notin Unversioned

\* Other contents are another version.
VersionsTell ==
  \A i \in DOMAIN tasks :
    \/ tasks'[i].version = tasks[i].version /\ tasks'[i].val = tasks[i].val
    \/ tasks'[i].version = tasks[i].version + 1

LEMMA ShownStands ==
  ASSUME IInv, Shown, NEW r \in Reqs, Others(r), Mine(r), VersionsTell,
         pc'[r] \notin Unversioned, Seen(r)'
  PROVE  Shown'
  <1>1. ASSUME NEW q \in Reqs, q # r
        PROVE  Seen(q)' /\ pc'[q] \notin Unversioned
    <2>1. pc'[q] = pc[q] /\ call'[q] = call[q] /\ pc[q] \in {"idle", "match"} /\ Seen(q)
      BY <1>1, WaitingHold DEF Others, Mine, Shown
    <2>2. CASE pc[q] = "match"
      <3>1. Id(q) \in DOMAIN tasks /\ tasks[Id(q)].version \in Nat /\ call[q].version \in Nat
        BY <2>2, RowOfRequest DEF IInv, Rows, Calls
      <3> QED BY <2>1, <2>2, <3>1 DEF Seen, Id, VersionsTell, Unversioned
    <2>3. CASE pc[q] # "match"
      BY <2>1, <2>3 DEF Seen, Unversioned
    <2> QED BY <2>2, <2>3
  <1> QED BY <1>1 DEF Shown

LEMMA ArriveShown ==
  ASSUME Kinds \intersect {"move", "skip"} = {}, IInv, Shown,
         NEW r \in Reqs, NEW kind \in Kinds, NEW i \in DOMAIN tasks,
         NEW want \in Wants(kind), NEW cid \in IF kind = "create" THEN Cids ELSE {0},
         Arrive(r, kind, i, want, cid)
  PROVE  Shown'
  <1>1. kind \in AllKinds \ {"move", "skip"}
    BY ConstantsAssumption
  <1>2. First(kind) \notin Unversioned /\ (kind = "edit" => First(kind) = "match")
    BY <1>1 DEF First, AllKinds, Unversioned
  <1>3. /\ pc' = [pc EXCEPT ![r] = First(kind)] /\ UNCHANGED tasks
        /\ \A q \in Reqs \ {r} : pc'[q] = pc[q] /\ call'[q] = call[q]
        /\ call'[r].kind = kind /\ call'[r].id = i /\ call'[r].version = tasks[i].version
        /\ call'[r].val = tasks[i].val
    BY DEF Arrive, Goto, IInv, TypeOK, RequestsOK
  <1>4. pc'[r] = First(kind) /\ tasks[i].version \in Nat
    <2>1. tasks[i] \in Rows
      BY ElementOfSeq DEF IInv, TypeOK, TableOK
    <2> QED BY <1>3, <2>1 DEF IInv, TypeOK, RequestsOK, Rows
  <1>5. Seen(r)' /\ pc'[r] \notin Unversioned
    BY <1>2, <1>3, <1>4 DEF Seen, Id
  <1>6. ASSUME NEW q \in Reqs, q # r
        PROVE  Seen(q)' /\ pc'[q] \notin Unversioned
    BY <1>3, <1>6 DEF Shown, Seen, Id
  <1> QED BY <1>5, <1>6 DEF Shown

\* A request that is answered, or goes on beyond the write of the contents.
LEMMA GoneBy ==
  ASSUME IInv, Shown, NEW r \in Reqs, Mine(r), VersionsTell,
         Answer(r) \/ \E next \in Statements \ ({"match", "load", "write"} \union Unversioned) :
                        Goto(r, next) /\ UNCHANGED call /\ \A q \in Reqs \ {r} : ticket'[q] = ticket[q]
  PROVE  Shown'
  <1>1. Others(r) /\ pc'[r] \notin {"match", "load", "write"} \union Unversioned
    <2>1. CASE Answer(r)
      <3>1. pc'[r] = "idle"
        BY <2>1 DEF Answer, IInv, TypeOK, RequestsOK
      <3> QED BY <2>1, <3>1, AnswerHolds DEF IInv, Unversioned
    <2>2. CASE ~Answer(r)
      BY <2>2 DEF Goto, Others, IInv, TypeOK, RequestsOK
    <2> QED BY <2>1, <2>2
  <1>2. Seen(r)'
    BY <1>1 DEF Seen
  <1> QED BY <1>1, <1>2, ShownStands

LEMMA CompletingShown ==
  ASSUME IInv, SInv, Shown, NEW r \in Reqs, Completing(r)
  PROVE  Shown'
  <1>1. pc[r] \in {"check", "read", "finish", "flip", "reopen", "restart"} /\ Mine(r)
    <2>1. pc[r] \in {"check", "read", "finish", "flip", "reopen", "restart"}
      BY DEF Completing, CheckEnds, CheckGoesOn, ToggleRead, FinishWins, FinishLoses, Flip, ReopenRead, Restart
    <2> QED BY <2>1, MineAlone DEF Busy, SInv
  <1>2. CASE CheckEnds(r) \/ CheckGoesOn(r) \/ ToggleRead(r) \/ FinishLoses(r) \/ ReopenRead(r)
    <2>1. VersionsTell
      BY <1>2 DEF VersionsTell, CheckEnds, CheckGoesOn, ToggleRead, FinishLoses, ReopenRead
    <2>2. Answer(r) \/ \E next \in {"read", "flip", "finish", "restart"} :
                         Goto(r, next) /\ UNCHANGED <<call, ticket>>
      BY <1>2 DEF CheckEnds, CheckGoesOn, ToggleRead, FinishLoses, ReopenRead
    <2> QED BY <1>1, <2>1, <2>2, GoneBy DEF Statements, Unversioned
  <1>3. CASE FinishWins(r) \/ Flip(r) \/ Restart(r)
    <2>1. CASE Answer(r) /\ UNCHANGED tasks
      BY <1>1, <2>1, GoneBy DEF VersionsTell
    <2>2. CASE ~(Answer(r) /\ UNCHANGED tasks)
      <3>1. PICK s \in {"done", "todo"} : SetStatus(r, s)
        BY <1>3, <2>2 DEF FinishWins, Flip, Restart
      <3>2. PICK next \in {"spawn", "tell"} : Goto(r, next) /\ UNCHANGED call
        BY <1>3, <2>2 DEF FinishWins, Flip, Restart
      <3>3. s \in Statuses /\ pc[r] # "idle"
        BY <1>1 DEF Statuses
      <3>4. /\ ticket' = [ticket EXCEPT ![r] = TicketOf(Id(r), s)]
            /\ \A i \in DOMAIN tasks : tasks'[i].version = tasks[i].version /\ tasks'[i].val = tasks[i].val
        BY <3>1, <3>3, StatusIs
      <3> QED BY <1>1, <3>2, <3>4, GoneBy DEF VersionsTell, Statements, Unversioned, IInv, TypeOK, RequestsOK
    <2> QED BY <2>1, <2>2
  <1> QED BY <1>2, <1>3 DEF Completing

LEMMA PatchingShown ==
  ASSUME Serial, IInv, SInv, Shown, NEW r \in Reqs, Patching(r)
  PROVE  Shown'
  <1>1. pc[r] \in {"match", "load", "write", "reread"} /\ Mine(r) /\ Seen(r)
    <2>1. pc[r] \in {"match", "load", "write", "reread"} /\ (pc[r] = "match" => \A q \in Reqs : ~Busy(q))
      BY DEF Patching, Match, Load, PatchWrite, Reread
    <2>2. CASE pc[r] = "match"
      BY <2>1, <2>2 DEF Mine, Shown
    <2>3. CASE pc[r] # "match"
      BY <2>1, <2>3, MineAlone DEF Busy, SInv, Shown
    <2> QED BY <2>1, <2>2, <2>3
  <1>2. CASE Match(r) \/ Load(r)
    <2>1. VersionsTell
      BY <1>2 DEF VersionsTell, Match, Load
    <2>2. CASE Answer(r)
      BY <1>1, <2>1, <2>2, GoneBy
    <2>3. CASE ~Answer(r)
      <3>1. PICK next \in {"load", "write"} : Goto(r, next)
        BY <1>2, <2>3 DEF Match, Load
      <3>2. /\ UNCHANGED <<tasks, call, ticket>> /\ pc[r] \in {"match", "load"}
            /\ pc[r] = "match" => tasks[Id(r)].version = call[r].version
        BY <1>2, <2>3 DEF Match, Load
      <3>3. Others(r) /\ pc'[r] = next
        BY <3>1, <3>2, GotoHolds DEF IInv
      <3>4. Seen(r)' /\ pc'[r] \notin Unversioned
        BY <1>1, <3>2, <3>3 DEF Seen, Id, Unversioned
      <3> QED BY <1>1, <2>1, <3>3, <3>4, ShownStands
    <2> QED BY <2>2, <2>3
  <1>3. CASE PatchWrite(r) /\ Found(r)
    <2>1. PICK i \in DOMAIN tasks : i = Id(r) /\ tasks[i] \in Rows /\ pc[r] = "write" /\ call[r] \in Calls
      BY <1>3, RowOfRequest DEF PatchWrite, IInv
    <2>2. PICK s \in Statuses \union {"none"} : s = call[r].want
      BY <2>1 DEF Calls
    <2>3. PICK base : base = Bumped([tasks[i] EXCEPT !.val = edits + 1])
      OBVIOUS
    <2>4. PICK row : row = IF s # "none" /\ s # tasks[i].status THEN [base EXCEPT !.status = s] ELSE base
      OBVIOUS
    <2>5. row.from = tasks[i].from /\ row.version = tasks[i].version + 1
      <3>1. edits + 1 \in Nat
        BY DEF IInv, TypeOK, TableOK
      <3>2. base \in Rows
        BY <2>1, <2>3, <3>1, EditedRow
      <3>3. base.from = tasks[i].from /\ base.version = tasks[i].version + 1
        BY <2>1, <2>3 DEF Bumped, Rows
      <3> QED BY <2>4, <3>2, <3>3 DEF Rows
    <2>6. /\ tasks' = [tasks EXCEPT ![i] = row] /\ Goto(r, "reread") /\ UNCHANGED call
          /\ \A q \in Reqs \ {r} : ticket'[q] = ticket[q]
      BY <1>3, <2>1, <2>2, <2>3, <2>4 DEF PatchWrite, IInv, TypeOK, RequestsOK
    <2>7. \A j \in DOMAIN tasks : tasks'[j] = IF j = i THEN row ELSE tasks[j]
      BY <2>5, <2>6, RowWritten
    <2>8. VersionsTell
      BY <2>5, <2>7 DEF VersionsTell
    <2> QED BY <1>1, <2>6, <2>8, GoneBy DEF Statements, Unversioned
  <1>4. CASE (PatchWrite(r) /\ ~Found(r)) \/ Reread(r)
    <2>1. VersionsTell
      BY <1>4 DEF VersionsTell, PatchWrite, Reread
    <2>2. Answer(r) \/ \E next \in {"spawn", "tell"} : Goto(r, next) /\ UNCHANGED <<call, ticket>>
      BY <1>4 DEF PatchWrite, Reread
    <2> QED BY <1>1, <2>1, <2>2, GoneBy DEF Statements, Unversioned
  <1> QED BY <1>2, <1>3, <1>4 DEF Patching

LEMMA CreatingShown ==
  ASSUME IInv, SInv, Shown, NEW r \in Reqs, Creating(r)
  PROVE  Shown'
  <1>1. Mine(r)
    BY MineAlone DEF Busy, SInv, Creating, SpawnNothing, Lookup, CreateBegin, InsertDone, InsertFails, Tell
  <1>2. VersionsTell
    <2>1. CASE UNCHANGED tasks
      BY <2>1 DEF VersionsTell
    <2>2. CASE InsertDone(r)
      <3>1. PICK row : tasks' = Append(tasks, row)
        BY <2>2 DEF InsertDone
      <3>2. \A i \in DOMAIN tasks : tasks'[i] = tasks[i]
        BY <3>1 DEF IInv, TypeOK, TableOK
      <3> QED BY <3>2 DEF VersionsTell
    <2> QED BY <2>1, <2>2 DEF Creating, SpawnNothing, Lookup, CreateBegin, InsertFails, Tell
  <1>3. Answer(r) \/ \E next \in {"begin", "insert", "tell"} : Goto(r, next) /\ UNCHANGED <<call, ticket>>
    BY DEF Creating, SpawnNothing, Lookup, CreateBegin, InsertDone, InsertFails, Tell
  <1> QED BY <1>1, <1>2, <1>3, GoneBy DEF Statements, Unversioned

LEMMA ChangingShown ==
  ASSUME IInv, SInv, Shown, NEW r \in Reqs, Changing(r)
  PROVE  Shown'
  <1>1. FindDoomed(r) \/ SelectDoomed(r) \/ Erase(r)
    BY DEF Changing, Move, SkipRead, SkipWrite, Shown, Unversioned
  <1>2. Mine(r)
    BY <1>1, MineAlone DEF Busy, SInv, FindDoomed, SelectDoomed, Erase
  <1>3. CASE FindDoomed(r) \/ SelectDoomed(r)
    <2>1. VersionsTell
      BY <1>3 DEF VersionsTell, FindDoomed, SelectDoomed
    <2>2. Answer(r) \/ (Goto(r, "erase") /\ UNCHANGED <<call, ticket>>)
      BY <1>3 DEF FindDoomed, SelectDoomed
    <2> QED BY <1>2, <2>1, <2>2, GoneBy DEF Statements, Unversioned
  <1>4. CASE Erase(r)
    <2>1. PICK i \in ids[r] : /\ tasks' = [tasks EXCEPT ![i].live = FALSE]
                              /\ IF ids[r] = {i} THEN Answer(r)
                                 ELSE UNCHANGED <<pc, call, cur, ticket>>
      BY <1>4 DEF Erase
    <2>2. i \in DOMAIN tasks /\ pc[r] = "erase"
      BY <1>4, <2>1 DEF Erase, IInv, TypeOK, RequestsOK
    <2>3. tasks[i] \in Rows
      BY <2>2, ElementOfSeq DEF IInv, TypeOK, TableOK
    <2> DEFINE row == [tasks[i] EXCEPT !.live = FALSE]
    <2>4. row.version = tasks[i].version /\ row.val = tasks[i].val /\ row.from = tasks[i].from
          /\ tasks' = [tasks EXCEPT ![i] = row]
      BY <2>1, <2>2, <2>3 DEF Rows
    <2> HIDE DEF row
    <2>5. VersionsTell
      BY <2>2, <2>4, RowWritten DEF VersionsTell
    <2>6. CASE Answer(r)
      BY <1>2, <2>5, <2>6, GoneBy
    <2>7. CASE UNCHANGED <<pc, call, cur, ticket>>
      <3>1. Goto(r, "erase")
        BY <2>2, <2>7 DEF Goto, IInv, TypeOK, RequestsOK
      <3> QED BY <1>2, <2>5, <2>7, <3>1, GoneBy DEF Statements, Unversioned
    <2> QED BY <2>1, <2>6, <2>7
  <1> QED BY <1>1, <1>3, <1>4

LEMMA ShownInit == Init => Shown
  BY DEF Init, Shown, Seen, Unversioned

LEMMA ShownStep ==
  ASSUME Serial, Kinds \intersect {"move", "skip"} = {}, IInv, SInv, Shown, [Next]_vars
  PROVE  Shown'
  <1>1. CASE UNCHANGED vars
    BY <1>1 DEF vars, Shown, Seen, Id
  <1>2. ASSUME NEW r \in Reqs, Arrives(r) PROVE Shown'
    BY <1>2, ArriveShown DEF Arrives
  <1>3. ASSUME NEW r \in Reqs, Completing(r) \/ Patching(r) \/ Creating(r) \/ Changing(r)
        PROVE  Shown'
    BY <1>3, CompletingShown, PatchingShown, CreatingShown, ChangingShown
  <1>4. ASSUME Crash PROVE Shown'
    <2>1. /\ UNCHANGED tasks
          /\ \A r \in Reqs : \/ pc'[r] = "idle"
                             \/ pc'[r] = pc[r] /\ call'[r] = call[r]
      BY <1>4 DEF Crash
    <2> QED BY <2>1 DEF Shown, Seen, Id, Unversioned
  <1> QED BY <1>1, <1>2, <1>3, <1>4 DEF Next

\* What an edit is about to replace is what its page shows.
LEMMA ShownReplaces ==
  ASSUME Shown
  PROVE  EditsWhatItSaw
  BY DEF Shown, Seen, EditsWhatItSaw

\* While requests are handled one after the other, and none of them writes contents without a
\* new version, an edit with If-Match replaces only what its page has seen (updateTask).
THEOREM EditsWhatItSawSerially ==
  Serial /\ Kinds \intersect {"move", "skip"} = {} => (Spec => NoSilentOverwrite)
  <1> SUFFICES ASSUME Serial, Kinds \intersect {"move", "skip"} = {} PROVE Spec => NoSilentOverwrite
    OBVIOUS
  <1>1. IInv /\ SInv /\ [Next]_vars => SInv'
    BY SerialStep
  <1>2. IInv /\ SInv /\ Shown /\ [Next]_vars => Shown'
    BY ShownStep
  <1>3. Shown /\ [Next]_vars => [EditsWhatItSaw]_vars
    BY ShownReplaces
  <1> QED BY <1>1, <1>2, <1>3, SerialInit, ShownInit, TicketsInvariant, PTL DEF Spec, NoSilentOverwrite
=============================================================================
