--------------------------- MODULE TaskCompletion ---------------------------
(***************************************************************************)
(* The life of a task on the server: creating, completing, reopening,      *)
(* editing, skipping and deleting it, by requests that run concurrently.   *)
(*                                                                         *)
(*   internal/store/tasks.go          the operations                       *)
(*   internal/api/handlers_tasks.go   the HTTP handlers (If-Match)         *)
(*   internal/caldav/backend.go       PutCalendarObject                    *)
(*                                                                         *)
(* A handler is a sequence of SQL statements.  Each statement outside a    *)
(* transaction, and each transaction whose first statement writes, is one  *)
(* step.  The transaction of CreateTask reads before it writes, so it is   *)
(* two steps: SQLite refuses the write at once (SQLITE_BUSY_SNAPSHOT) when *)
(* any other connection has committed since the read.                      *)
(*                                                                         *)
(* A repeat rule is the number of occurrences it has left.  The contents   *)
(* of a row are the number of the write that put them there.               *)
(***************************************************************************)
EXTENDS Integers, Sequences, FiniteSets

CONSTANTS
  Reqs,        \* places for requests in flight
  Kinds,       \* the kinds of requests that arrive, from AllKinds
  Cids,        \* client ids of creates
  Occurrences, \* what the rule of the first task has left
  MaxReqs,     \* bound: requests
  MaxCrashes,  \* bound: restarts of the server
  Serial       \* whether a request waits until the one before has been answered

AllKinds == {"toggle", "complete", "reopen", "put", "patch", "edit", "move",
             "skip", "delete", "purge", "create"}

ASSUME ConstantsAssumption ==
  /\ Kinds \subseteq AllKinds
  /\ Cids \subseteq Nat \ {0}
  /\ Occurrences \in Nat /\ MaxReqs \in Nat /\ MaxCrashes \in Nat
  /\ Serial \in BOOLEAN

VARIABLES
  tasks,    \* the rows of table tasks, by id; a deleted one is not live
  pc,       \* request: the statement it comes to next
  call,     \* request: what was asked
  cur,      \* request: the row as GetTask returned it
  ids,      \* request: the rows a purge has still to delete
  stale,    \* the requests whose transaction has an outdated snapshot
  ticket,   \* request, ghost: the status change it made
  times,    \* ghost: how often each task has been completed and reopened
  log,      \* the events and history entries of completions and reopenings
  edits,    \* counts the writes of contents
  requests, \* bound counter
  crashes   \* bound counter

request == <<pc, call, cur, ids, ticket>>
vars    == <<tasks, pc, call, cur, ids, stale, ticket, times, log, edits,
             requests, crashes>>

Statuses == {"todo", "in_progress", "done"}
Whats    == {"completed", "reopened"}
Tickets  == [what : Whats \union {"shifted", "none"}, id : Nat, nr : Nat]
NoTicket == [what |-> "none", id |-> 0, nr |-> 0]
Rows     == [status : Statuses, left : Nat, version : Nat, val : Nat, cid : Nat,
             from : Tickets, live : BOOLEAN]
Calls    == [kind : AllKinds, id : Nat, want : Statuses \union {"none"},
             cid : Nat, version : Nat, val : Nat]
NoRow    == [status |-> "todo", left |-> 0, version |-> 0, val |-> 0, cid |-> 0,
             from |-> NoTicket, live |-> FALSE]
NoCall   == [kind |-> "move", id |-> 0, want |-> "none", cid |-> 0,
             version |-> 0, val |-> 0]

-----------------------------------------------------------------------------
(* Steps of a request.                                                     *)

\* What a request comes to first.
First(kind) ==
  CASE kind = "toggle"             -> "read"
    [] kind \in {"complete", "put"} -> "check"
    [] kind = "reopen"             -> "reopen"
    [] kind = "patch"              -> "load"
    [] kind = "edit"               -> "match"
    [] kind = "move"               -> "move"
    [] kind = "skip"               -> "skip"
    [] kind = "delete"             -> "find"
    [] kind = "purge"              -> "select"
    [] kind = "create"             -> "lookup"

Wants(kind) ==
  CASE kind = "complete"          -> {"done"}
    [] kind = "reopen"            -> {"todo"}
    [] kind = "put"               -> {"done", "todo"}
    [] kind = "patch"             -> Statuses \union {"none"}
    [] kind = "edit"              -> {"todo", "done", "none"}
    [] OTHER                      -> {"none"}

Id(r) == call[r].id
Found(r) == tasks[Id(r)].live

Goto(r, next) == pc' = [pc EXCEPT ![r] = next]

\* The request is answered (or fails); what it had in memory is gone.
Answer(r) ==
  /\ pc' = [pc EXCEPT ![r] = "idle"]  /\ call' = [call EXCEPT ![r] = NoCall]
  /\ cur' = [cur EXCEPT ![r] = NoRow] /\ ids' = [ids EXCEPT ![r] = {}]
  /\ ticket' = [ticket EXCEPT ![r] = NoTicket]

\* A commit: the snapshot of every open transaction of the others is outdated.
Commits(r) == stale' = {q \in Reqs \ {r} : pc[q] = "insert"}

\* One request that has arrived.  The page behind an "edit" sends the version of
\* the row it shows: call.version, and call.val for what it shows.
Busy(r) == pc[r] \notin {"idle", "match"}
Arrive(r, kind, i, want, cid) ==
  /\ pc[r] = "idle" /\ requests > 0 /\ requests' = requests - 1
  /\ Serial => kind = "edit" \/ \A q \in Reqs : ~Busy(q)
  /\ tasks[i].live
  /\ Goto(r, First(kind))
  /\ call' = [call EXCEPT ![r] = [kind |-> kind, id |-> i, want |-> want,
                cid |-> cid, version |-> tasks[i].version, val |-> tasks[i].val]]
  /\ UNCHANGED <<tasks, cur, ids, stale, ticket, times, log, edits, crashes>>

-----------------------------------------------------------------------------
(* Status changes.                                                         *)

\* A ghost of the writes of column status: which change of which task it was.
Counted(i, s) ==
  [times EXCEPT ![i] =
     [completed |-> @.completed + IF s = "done" /\ tasks[i].status # "done" THEN 1 ELSE 0,
      reopened  |-> @.reopened + IF s # "done" /\ tasks[i].status = "done" THEN 1 ELSE 0]]

\* The n-th completion of a task, its n-th reopening, or neither ("shifted").
TicketOf(i, s) ==
  IF s = "done" THEN [what |-> "completed", id |-> i, nr |-> Counted(i, s)[i].completed]
  ELSE IF tasks[i].status = "done"
    THEN [what |-> "reopened", id |-> i, nr |-> Counted(i, s)[i].reopened]
    ELSE [what |-> "shifted", id |-> i, nr |-> 0]

SetStatus(r, s) ==
  /\ tasks' = [tasks EXCEPT ![Id(r)].status = s]
  /\ times' = Counted(Id(r), s)
  /\ ticket' = [ticket EXCEPT ![r] = TicketOf(Id(r), s)]
  /\ Commits(r)

\* completeTask: a task that is done is returned as it is.  PutCalendarObject: the
\* same for the status the calendar wants, todo or done.  A missing task is a 404.
AlreadyAsWanted(r) == ~Found(r) \/ tasks[Id(r)].status = call[r].want

CheckEnds(r) ==
  /\ pc[r] = "check" /\ AlreadyAsWanted(r)
  /\ Answer(r)
  /\ UNCHANGED <<tasks, stale, times, log, edits, requests, crashes>>

CheckGoesOn(r) ==
  /\ pc[r] = "check" /\ ~AlreadyAsWanted(r)
  /\ Goto(r, "read")
  /\ UNCHANGED <<tasks, call, cur, ids, stale, ticket, times, log, edits, requests, crashes>>

\* toggleTask: read the row; a task that is done is reopened, any other completed.
ToggleRead(r) ==
  /\ pc[r] = "read"
  /\ IF Found(r)
       THEN /\ cur' = [cur EXCEPT ![r] = tasks[Id(r)]]
            /\ Goto(r, IF tasks[Id(r)].status = "done" THEN "flip" ELSE "finish")
            /\ UNCHANGED <<call, ids, ticket>>
       ELSE Answer(r)
  /\ UNCHANGED <<tasks, stale, times, log, edits, requests, crashes>>

\* Mutant: the UPDATE has no condition on the status.
Wins_Always(r) == Found(r)

\* The condition status <> 'done' of the UPDATE, seen in RowsAffected.
Wins(r) == Found(r) /\ tasks[Id(r)].status # "done"

FinishWins(r) ==
  /\ pc[r] = "finish" /\ Wins(r)
  /\ SetStatus(r, "done")
  /\ Goto(r, "spawn")
  /\ UNCHANGED <<call, cur, ids, log, edits, requests, crashes>>

FinishLoses(r) ==
  /\ pc[r] = "finish" /\ ~Wins(r)
  /\ Answer(r)
  /\ UNCHANGED <<tasks, stale, times, log, edits, requests, crashes>>

\* The other branch of toggleTask: an UPDATE without a condition.
Flip(r) ==
  /\ pc[r] = "flip"
  /\ IF Found(r)
       THEN SetStatus(r, "todo") /\ Goto(r, "tell") /\ UNCHANGED <<call, cur, ids>>
       ELSE Answer(r) /\ UNCHANGED <<tasks, times, stale>>
  /\ UNCHANGED <<log, edits, requests, crashes>>

\* ReopenTask: read, then an UPDATE on the condition status = 'done'.
ReopenRead(r) ==
  /\ pc[r] = "reopen"
  /\ IF Found(r) /\ tasks[Id(r)].status = "done"
       THEN Goto(r, "restart") /\ UNCHANGED <<call, cur, ids, ticket>>
       ELSE Answer(r)
  /\ UNCHANGED <<tasks, stale, times, log, edits, requests, crashes>>

Restart(r) ==
  /\ pc[r] = "restart"
  /\ IF Found(r) /\ tasks[Id(r)].status = "done"
       THEN SetStatus(r, "todo") /\ Goto(r, "tell") /\ UNCHANGED <<call, cur, ids>>
       ELSE Answer(r) /\ UNCHANGED <<tasks, times, stale>>
  /\ UNCHANGED <<log, edits, requests, crashes>>

-----------------------------------------------------------------------------
(* PATCH.                                                                  *)

\* updateTask: with If-Match the version must be the one the page has seen.
Match(r) ==
  /\ pc[r] = "match"
  /\ Serial => \A q \in Reqs : ~Busy(q)
  /\ IF Found(r) /\ tasks[Id(r)].version = call[r].version
       THEN Goto(r, "load") /\ UNCHANGED <<call, cur, ids, ticket>>
       ELSE Answer(r)
  /\ UNCHANGED <<tasks, stale, times, log, edits, requests, crashes>>

\* UpdateTask: the first GetTask.
Load(r) ==
  /\ pc[r] = "load"
  /\ IF Found(r) THEN Goto(r, "write") /\ UNCHANGED <<call, cur, ids, ticket>>
                 ELSE Answer(r)
  /\ UNCHANGED <<tasks, stale, times, log, edits, requests, crashes>>

\* Mutant: the version stays.
Bumped_Not(row) == row

\* version = version + 1.
Bumped(row) == [row EXCEPT !.version = @ + 1]

\* The transaction of UpdateTask: the fields and the version, then the status on
\* the condition that it is another one.
PatchWrite(r) ==
  LET i == Id(r)
      s == call[r].want
      changes == s # "none" /\ s # tasks[i].status
      row == Bumped([tasks[i] EXCEPT !.val = edits + 1])
  IN
  /\ pc[r] = "write"
  /\ IF Found(r)
       THEN /\ edits' = edits + 1
            /\ tasks' = [tasks EXCEPT ![i] = IF changes THEN [row EXCEPT !.status = s] ELSE row]
            /\ times' = IF changes THEN Counted(i, s) ELSE times
            /\ ticket' = IF changes THEN [ticket EXCEPT ![r] = TicketOf(i, s)] ELSE ticket
            /\ Commits(r)
            /\ Goto(r, "reread")
            /\ UNCHANGED <<call, cur, ids>>
       ELSE Answer(r) /\ UNCHANGED <<tasks, stale, times, edits>>
  /\ UNCHANGED <<log, requests, crashes>>

\* Mutant: UpdateTask does not create the next occurrence.
Reread_NoSpawn(r) ==
  /\ pc[r] = "reread"
  /\ IF Found(r)
       THEN /\ cur' = [cur EXCEPT ![r] = tasks[Id(r)]]
            /\ Goto(r, "tell")
            /\ UNCHANGED <<call, ids, ticket>>
       ELSE Answer(r)
  /\ UNCHANGED <<tasks, stale, times, log, edits, requests, crashes>>

\* The second GetTask, outside the transaction; what is announced and whether the
\* next occurrence is created depends on the status asked for and on this row.
Reread(r) ==
  /\ pc[r] = "reread"
  /\ IF Found(r)
       THEN /\ cur' = [cur EXCEPT ![r] = tasks[Id(r)]]
            /\ Goto(r, IF ticket[r] # NoTicket /\ call[r].want = "done" THEN "spawn"
                                                                        ELSE "tell")
            /\ UNCHANGED <<call, ids, ticket>>
       ELSE Answer(r)
  /\ UNCHANGED <<tasks, stale, times, log, edits, requests, crashes>>

-----------------------------------------------------------------------------
(* spawnNextRepeat and CreateTask.                                         *)

NewTask(left, cid, from) ==
  [status |-> "todo", left |-> left, version |-> 1, val |-> edits + 1, cid |-> cid,
   from |-> from, live |-> TRUE]

\* No rule, or none of its occurrences left: nothing to create.
SpawnNothing(r) ==
  /\ pc[r] = "spawn" /\ cur[r].left = 0
  /\ Goto(r, "tell")
  /\ UNCHANGED <<tasks, call, cur, ids, stale, ticket, times, log, edits, requests, crashes>>

\* The transaction of CreateTask begins with the SELECT of MAX(sort_order).
CreateBegin(r) ==
  /\ pc[r] = "begin" \/ (pc[r] = "spawn" /\ cur[r].left > 0)
  /\ Goto(r, "insert")
  /\ UNCHANGED <<tasks, call, cur, ids, stale, ticket, times, log, edits, requests, crashes>>

\* CreateTask: the row an earlier create with the client id left is returned.
CidTaken(c) == \E i \in DOMAIN tasks : tasks[i].live /\ tasks[i].cid = c

Lookup(r) ==
  /\ pc[r] = "lookup"
  /\ IF CidTaken(call[r].cid) THEN Answer(r)
     ELSE Goto(r, "begin") /\ UNCHANGED <<call, cur, ids, ticket>>
  /\ UNCHANGED <<tasks, stale, times, log, edits, requests, crashes>>

\* Mutant: no unique index on client_id.
InsertAllowed_NoIndex(r) == r \notin stale

\* Nobody has committed since the SELECT, and the unique index on client_id agrees.
InsertAllowed(r) ==
  /\ r \notin stale
  /\ call[r].kind = "create" => ~CidTaken(call[r].cid)

InsertDone(r) ==
  /\ pc[r] = "insert" /\ InsertAllowed(r)
  /\ tasks' = Append(tasks, IF call[r].kind = "create"
                              THEN NewTask(Occurrences, call[r].cid, NoTicket)
                              ELSE NewTask(cur[r].left - 1, 0, ticket[r]))
  /\ times' = Append(times, [completed |-> 0, reopened |-> 0])
  /\ edits' = edits + 1
  /\ Commits(r)
  /\ IF call[r].kind = "create" THEN Answer(r)
     ELSE Goto(r, "tell") /\ UNCHANGED <<call, cur, ids, ticket>>
  /\ UNCHANGED <<log, requests, crashes>>

\* The INSERT fails.  UpdateTask writes a line to the log of the program and goes on;
\* toggleTask returns the error.
InsertFails(r) ==
  /\ pc[r] = "insert" /\ ~InsertAllowed(r)
  /\ IF call[r].kind \in {"patch", "edit"}
       THEN Goto(r, "tell") /\ UNCHANGED <<call, cur, ids, ticket>>
       ELSE Answer(r)
  /\ stale' = stale \ {r}
  /\ UNCHANGED <<tasks, times, log, edits, requests, crashes>>

\* Mutant: the row read before the change decides.
Told_OldRow(r) == IF cur[r].status = "done" THEN "completed" ELSE "reopened"

\* The event and the history entry.  toggleTask and ReopenTask announce what they
\* did, if the task is still there; UpdateTask what the row it read again shows.
Told(r) ==
  IF call[r].kind \in {"patch", "edit"}
    THEN IF cur[r].status = "done" THEN "completed" ELSE "reopened"
    ELSE IF ticket[r].what = "completed" THEN "completed" ELSE "reopened"

Tell(r) ==
  /\ pc[r] = "tell"
  /\ IF ticket[r] # NoTicket /\ (Found(r) \/ call[r].kind \in {"patch", "edit"})
       THEN log' = Append(log, [what |-> Told(r), of |-> ticket[r]])
       ELSE UNCHANGED log
  /\ Commits(r)
  /\ Answer(r)
  /\ UNCHANGED <<tasks, times, edits, requests, crashes>>

-----------------------------------------------------------------------------
(* The other operations.                                                   *)

\* MoveTask, and every write that leaves the version alone: one UPDATE.
Move(r) ==
  /\ pc[r] = "move"
  /\ IF Found(r)
       THEN /\ tasks' = [tasks EXCEPT ![Id(r)].val = edits + 1]
            /\ edits' = edits + 1
            /\ Commits(r)
       ELSE UNCHANGED <<tasks, edits, stale>>
  /\ Answer(r)
  /\ UNCHANGED <<times, log, requests, crashes>>

\* SkipTask: read the row; without a next occurrence it refuses ...
SkipRead(r) ==
  /\ pc[r] = "skip"
  /\ IF Found(r) /\ tasks[Id(r)].left > 0
       THEN /\ cur' = [cur EXCEPT ![r] = tasks[Id(r)]]
            /\ Goto(r, "advance")
            /\ UNCHANGED <<call, ids, ticket>>
       ELSE Answer(r)
  /\ UNCHANGED <<tasks, stale, times, log, edits, requests, crashes>>

\* ... and the rule it has computed from that row is written.
SkipWrite(r) ==
  /\ pc[r] = "advance"
  /\ IF Found(r)
       THEN /\ tasks' = [tasks EXCEPT ![Id(r)] =
                           [@ EXCEPT !.left = cur[r].left - 1, !.val = edits + 1]]
            /\ edits' = edits + 1
            /\ Commits(r)
       ELSE UNCHANGED <<tasks, edits, stale>>
  /\ Answer(r)
  /\ UNCHANGED <<times, log, requests, crashes>>

\* DeleteTask reads one task, PurgeCompleted the completed ones of its list; both
\* stage them for undo.
FindDoomed(r) ==
  /\ pc[r] = "find"
  /\ IF Found(r)
       THEN /\ ids' = [ids EXCEPT ![r] = {Id(r)}]
            /\ Goto(r, "erase") /\ Commits(r)
            /\ UNCHANGED <<call, cur, ticket>>
       ELSE Answer(r) /\ UNCHANGED stale
  /\ UNCHANGED <<tasks, times, log, edits, requests, crashes>>

SelectDoomed(r) ==
  LET completed == {i \in DOMAIN tasks : tasks[i].live /\ tasks[i].status = "done"} IN
  /\ pc[r] = "select"
  /\ IF completed # {}
       THEN /\ ids' = [ids EXCEPT ![r] = completed]
            /\ Goto(r, "erase") /\ Commits(r)
            /\ UNCHANGED <<call, cur, ticket>>
       ELSE Answer(r) /\ UNCHANGED stale
  /\ UNCHANGED <<tasks, times, log, edits, requests, crashes>>

\* deleteTaskRows, row by row, whatever has become of the row meanwhile.
Erase(r) ==
  /\ pc[r] = "erase"
  /\ \E i \in ids[r] :
       /\ tasks' = [tasks EXCEPT ![i].live = FALSE]
       /\ IF ids[r] = {i}
            THEN Answer(r)
            ELSE /\ ids' = [ids EXCEPT ![r] = @ \ {i}]
                 /\ UNCHANGED <<pc, call, cur, ticket>>
  /\ Commits(r)
  /\ UNCHANGED <<times, log, edits, requests, crashes>>

\* The server stops and starts again; a page with a task open keeps it open.
Crash ==
  /\ crashes > 0 /\ crashes' = crashes - 1
  /\ LET kept(r) == pc[r] = "match" IN
     /\ pc' = [r \in Reqs |-> IF kept(r) THEN pc[r] ELSE "idle"]
     /\ call' = [r \in Reqs |-> IF kept(r) THEN call[r] ELSE NoCall]
  /\ cur' = [r \in Reqs |-> NoRow] /\ ids' = [r \in Reqs |-> {}]
  /\ ticket' = [r \in Reqs |-> NoTicket] /\ stale' = {}
  /\ UNCHANGED <<tasks, times, log, edits, requests>>

-----------------------------------------------------------------------------
Init ==
  /\ tasks = <<[status |-> "todo", left |-> Occurrences, version |-> 1, val |-> 1,
                cid |-> 0, from |-> NoTicket, live |-> TRUE]>>
  /\ times = <<[completed |-> 0, reopened |-> 0]>>
  /\ pc = [r \in Reqs |-> "idle"] /\ call = [r \in Reqs |-> NoCall]
  /\ cur = [r \in Reqs |-> NoRow] /\ ids = [r \in Reqs |-> {}]
  /\ ticket = [r \in Reqs |-> NoTicket] /\ stale = {} /\ log = <<>>
  /\ edits = 1 /\ requests = MaxReqs /\ crashes = MaxCrashes

Arrives(r) ==
  \E kind \in Kinds, i \in DOMAIN tasks :
    \E want \in Wants(kind), cid \in IF kind = "create" THEN Cids ELSE {0} :
      Arrive(r, kind, i, want, cid)

Completing(r) ==
  \/ CheckEnds(r) \/ CheckGoesOn(r) \/ ToggleRead(r) \/ FinishWins(r) \/ FinishLoses(r)
  \/ Flip(r) \/ ReopenRead(r) \/ Restart(r)

Patching(r) == Match(r) \/ Load(r) \/ PatchWrite(r) \/ Reread(r)

Creating(r) ==
  \/ SpawnNothing(r) \/ Lookup(r) \/ CreateBegin(r) \/ InsertDone(r) \/ InsertFails(r)
  \/ Tell(r)

Changing(r) ==
  \/ Move(r) \/ SkipRead(r) \/ SkipWrite(r) \/ FindDoomed(r) \/ SelectDoomed(r) \/ Erase(r)

Next ==
  \/ \E r \in Reqs : Arrives(r) \/ Completing(r) \/ Patching(r) \/ Creating(r) \/ Changing(r)
  \/ Crash

Spec == Init /\ [][Next]_vars

-----------------------------------------------------------------------------
TimesOK == /\ times \in Seq([completed : Nat, reopened : Nat])
           /\ DOMAIN times = DOMAIN tasks

Statements ==
  {"idle", "read", "check", "reopen", "restart", "load", "match", "move", "skip",
   "advance", "find", "select", "erase", "lookup", "begin", "finish", "flip",
   "spawn", "insert", "tell", "write", "reread"}

RequestsOK ==
  /\ pc \in [Reqs -> Statements]
  /\ call \in [Reqs -> Calls] /\ cur \in [Reqs -> Rows] /\ ticket \in [Reqs -> Tickets]
  /\ \A r \in Reqs : pc[r] # "idle" => Id(r) \in DOMAIN tasks
  /\ \A r \in Reqs : ids[r] \subseteq DOMAIN tasks
  /\ DOMAIN ids = Reqs /\ stale \subseteq Reqs
  /\ \A r \in Reqs : pc[r] \in {"lookup", "begin"} => call[r].kind = "create"
  /\ \A r \in Reqs : pc[r] = "insert" /\ call[r].kind # "create" => cur[r].left > 0
  /\ \A r \in Reqs : pc[r] = "advance" => cur[r].left > 0

TableOK ==
  /\ tasks \in Seq(Rows) /\ TimesOK
  /\ log \in Seq([what : Whats, of : Tickets])
  /\ edits \in Nat /\ requests \in 0 .. MaxReqs /\ crashes \in 0 .. MaxCrashes

\* The table, the requests and the history hold what the code puts there
\* (model.Task, tasks.go).
TypeOK == TableOK /\ RequestsOK

\* One completion of a repeating task creates one next task, however many entries
\* complete it at the same time (toggleTask and UpdateTask: only the request whose
\* conditional update took effect goes on to spawnNextRepeat).
OneNextPerCompletion ==
  \A i, j \in DOMAIN tasks :
    i # j /\ tasks[i].from # NoTicket => tasks[i].from # tasks[j].from

\* One completion is announced and written to the history once (statusChanged and
\* RowsAffected in tasks.go).
CompletionToldOnce ==
  \A m, n \in DOMAIN log :
    m # n /\ log[m].of.what = "completed" => log[m].of # log[n].of

\* However many copies of one create arrive, the list shows one task per client id
\* (the look-up is outside the transaction, the unique index inside).
OneTaskPerCid ==
  \A i, j \in DOMAIN tasks :
    i # j /\ tasks[i].live /\ tasks[j].live /\ tasks[i].cid # 0 => tasks[i].cid # tasks[j].cid

Quiet == \A r \in Reqs : ~Busy(r)

Completions == {t \in [what : {"completed"}, id : DOMAIN tasks, nr : 1 .. MaxReqs] :
                  t.nr <= times[t.id].completed}

\* The chain of a repeating task goes on: once all requests are answered, every
\* completion of a task with occurrences left has created the next one ("让循环不断",
\* ToggleTask).
ChainGoesOn ==
  Quiet /\ crashes = MaxCrashes => \A t \in Completions :
    tasks[t.id].left > 0 => \E j \in DOMAIN tasks : tasks[j].from = t

\* Every completion has its event and its history entry once all requests are
\* answered (the comment on spawnNextRepeat in UpdateTask).
CompletionsTold ==
  Quiet /\ crashes = MaxCrashes => \A t \in Completions : \E n \in DOMAIN log : log[n].of = t

\* What is announced is what happened: no completion is announced as a reopening, and
\* no reopening that did not take place (UpdateTask: "判定一律用 statusChanged";
\* ReopenTask: only the request that wins writes the history).
ToldAsItWas == \A n \in DOMAIN log : log[n].what = log[n].of.what

Moves(r) == pc'[r] # pc[r] \/ ids'[r] # ids[r]
Completes(i) == tasks[i].status # "done" /\ tasks'[i].status = "done"
Reopens(i) == tasks[i].status = "done" /\ tasks'[i].status # "done"

\* A request to complete a task never reopens one (completeTask, /done).
CompleteNeverReopens ==
  [][\A r \in Reqs : Moves(r) /\ call[r].kind = "complete" =>
       \A i \in DOMAIN tasks : ~Reopens(i)]_vars

\* A calendar that says a task is open never completes it (PutCalendarObject).
PutNeverCompletes ==
  [][\A r \in Reqs : Moves(r) /\ call[r].kind = "put" /\ call[r].want = "todo" =>
       \A i \in DOMAIN tasks : ~Completes(i)]_vars

\* An edit made on an outdated copy is refused: the write of a request with If-Match
\* replaces only what its page has seen (updateTask, handlers_tasks.go).
EditsWhatItSaw ==
  \A r \in Reqs : pc[r] = "write" /\ pc'[r] = "reread" /\ call[r].kind = "edit" =>
    tasks[Id(r)].val = call[r].val

NoSilentOverwrite == [][EditsWhatItSaw]_vars

\* Clearing the completed tasks deletes no task that is open (PurgeCompleted).
PurgeSparesOpen ==
  [][\A r \in Reqs : Moves(r) /\ call[r].kind = "purge" =>
       \A i \in DOMAIN tasks :
         tasks[i].live /\ ~tasks'[i].live => tasks[i].status = "done"]_vars
=============================================================================
