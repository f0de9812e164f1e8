------------------------------- MODULE Outbox -------------------------------
(***************************************************************************)
(* The offline half of the web client: what a write does when the request  *)
(* does not reach the server, and how the queue of such writes (the        *)
(* IndexedDB store "outbox") is replayed.                                  *)
(*                                                                         *)
(*   web/src/lib/offline.ts      the two IndexedDB stores, replayOutbox    *)
(*   web/src/store/AppStore.tsx  the write paths and syncNow               *)
(*                                                                         *)
(* The two stores belong to the origin, hence to every open page ("tab").  *)
(* The flag `replaying` belongs to one page.  Every `await` of the code is *)
(* a step boundary here: anything else may happen between two steps.       *)
(*                                                                         *)
(* The server is a table of task rows on which one request is one atomic   *)
(* step.  The queue kinds patch, move and subtask all overwrite a field of *)
(* an existing row and are one kind here, "patch"; habit check-ins are not *)
(* in this module.                                                         *)
(***************************************************************************)
EXTENDS Integers, Sequences, FiniteSets

CONSTANTS
  Tabs,       \* the pages of the application that are open
  Slots,      \* the calls of one kind that one page may have in flight
  Vals,       \* what a field of a task may hold
  InitVal,    \* the field of the task that exists at the start
  MaxTries,   \* MAX_TRIES of offline.ts
  MaxWrites,  \* bound: writes of the user
  MaxFaults,  \* bound: connection losses and requests that go wrong
  HasStorage, \* whether IndexedDB is available
  Admitted    \* which of Behaviours the environment shows

(***************************************************************************)
(* What users and environments may do besides the plain course of events.  *)
(* Each weakens what the code guarantees, so a run names those it admits.  *)
(***************************************************************************)
Behaviours ==
  { "temp_edit",    \* editing or completing a task that is not replayed yet
    "temp_delete",  \* deleting such a task
    "overtake",     \* a direct write while writes to its task are queued
    "lost_create",  \* a direct create whose answer is lost
    "close",        \* closing (and opening again) a page at any point
    "dead",         \* a network that looks up but does not reach the server
    "bodyless",     \* an accepted create whose answer has no readable body
    "refuse",       \* a create the server refuses (its list is gone)
    "other_device"  \* another device deletes a task
  }

ASSUME ConstantsAssumption ==
  /\ InitVal \in Vals
  /\ MaxTries \in Nat \ {0}
  /\ MaxWrites \in Nat
  /\ MaxFaults \in Nat
  /\ HasStorage \in BOOLEAN
  /\ Admitted \subseteq Behaviours

VARIABLES
  rows,       \* server: the rows of table tasks, by id
  nextCid,    \* the next client id (idempotency key) somebody generates
  net,        \* "up", "off" (navigator.onLine is false), "dead" (onLine
              \* is true and the server is out of reach)
  outbox,     \* IndexedDB: the queued writes
  locals,     \* IndexedDB: local copies of offline tasks, by temporary id
  seen,       \* page: its copy of locals in memory
  drafts,     \* page: calls of createTaskOffline in flight
  replaying,  \* page: the flag `replaying`
  pc,         \* call of syncNow: where it is
  todo,       \* call: the items of its snapshot it has not settled
  cur,        \* call: the item it works on, as it is in memory
  idMap,      \* call: temporary id -> row
  affected,   \* call: what retargetOutbox has read and is to write back
  res,        \* call: the row the server returned, 0 if the item is dropped
  want,       \* ghost: what the user last asked of each task
  fate,       \* ghost: what became of each queued write, by seq
  lastReached,\* ghost: seq of the last queued write the server applied
  writes,     \* bound counter
  faults      \* bound counter

stores == <<outbox, locals, seen>>
calls  == <<replaying, pc, todo, cur, idMap, affected, res>>
ghosts == <<want, fate, lastReached>>
vars   == <<rows, nextCid, net, outbox, locals, seen, drafts, replaying, pc,
            todo, cur, idMap, affected, res, want, fate, lastReached, writes, faults>>

Run     == Tabs \X Slots
Kinds   == {"create", "patch", "done", "delete"}
Fates   == {"queued", "delivered", "rejected", "exhausted"}

Rows   == [obj : Nat, val : Vals, done : BOOLEAN, cid : Nat, live : BOOLEAN]
Locals == [obj : Nat, val : Vals, done : BOOLEAN]
Wants  == [val : Vals, done : BOOLEAN, live : BOOLEAN]
Drafts == [step : {"put", "enqueue"}, id : Int, obj : Nat, val : Vals]
Items  == [seq : Nat \ {0}, kind : Kinds, obj : Nat, task : Int, temp : Int,
           val : Vals, done : BOOLEAN, cid : Nat, tries : Nat]

NoItem  == [seq |-> 0]
NoDraft == [step |-> "none"]
With(f, x, y) == [z \in DOMAIN f \union {x} |-> IF z = x THEN y ELSE f[z]]
Without(f, x) == [y \in DOMAIN f \ {x} |-> f[y]]

-----------------------------------------------------------------------------
(* The server: what one request does to the rows.                          *)

Live(k) == k \in DOMAIN rows /\ rows[k].live

\* The row an earlier create with the same client id left behind.
Earlier(cid) == {k \in DOMAIN rows : rows[k].live /\ rows[k].cid = cid}

NewRow(i) == [obj |-> i.obj, val |-> i.val, done |-> FALSE, cid |-> i.cid,
              live |-> TRUE]

\* A create answers with the row of the same client id if there is one; every
\* other request is a 404 on a row that is gone.
Accepts(i, k) == i.kind = "create" \/ Live(k)

\* Mutant: a replayed completion goes to /toggle, which flips, instead of /done.
Applied_Flips(i, k) ==
  CASE i.kind = "create" ->
         IF Earlier(i.cid) # {} THEN rows ELSE Append(rows, NewRow(i))
    [] i.kind = "patch"  -> [rows EXCEPT ![k].val = i.val]
    [] i.kind = "done"   -> [rows EXCEPT ![k].done = ~@]
    [] i.kind = "delete" -> [rows EXCEPT ![k].live = FALSE]

Applied(i, k) ==
  CASE i.kind = "create" ->
         IF Earlier(i.cid) # {} THEN rows ELSE Append(rows, NewRow(i))
    [] i.kind = "patch"  -> [rows EXCEPT ![k].val = i.val]
    [] i.kind = "done"   -> [rows EXCEPT ![k].done = i.done]
    [] i.kind = "delete" -> [rows EXCEPT ![k].live = FALSE]

CreatedRow(i) ==
  IF Earlier(i.cid) # {} THEN CHOOSE k \in Earlier(i.cid) : TRUE
                         ELSE Len(rows) + 1

-----------------------------------------------------------------------------
(* The queue.                                                              *)

\* enqueue: without IndexedDB it returns as if it had done its work.
Enqueue(i) ==
  /\ fate' = Append(fate, "queued")
  /\ outbox' = IF HasStorage
                 THEN outbox \union {[i EXCEPT !.seq = Len(fate) + 1]}
                 ELSE outbox

Item(kind, o, k, v, d) ==
  [seq |-> 0, kind |-> kind, obj |-> o, task |-> k, temp |-> 0,
   val |-> v, done |-> d, cid |-> 0, tries |-> 0]

\* nextTempId: one below the lowest id in use; the branch that would step once
\* more is never taken, because nothing is below the lowest.
NextTempId ==
  LET lowest == CHOOSE t \in DOMAIN locals \union {0} :
                  \A u \in DOMAIN locals \union {0} : t <= u
      id     == lowest - 1
  IN  IF id \in DOMAIN locals THEN id - 1 ELSE id

\* putLocalTask; nothing without IndexedDB.
Keep(id, copy) == locals' = IF HasStorage THEN With(locals, id, copy) ELSE locals

\* refreshOfflineState: the page reads the store again.
Refresh(tab) == seen' = [seen EXCEPT ![tab] = locals']

-----------------------------------------------------------------------------
(* Writes of the user.  A direct request ends in one of these ways:        *)
(*   answer  the server applies it and says so                             *)
(*   lost    the server applies it, the page sees a network error          *)
(*   unsent  it never gets there, the page sees a network error            *)
(* and isNetworkError sends the last two to the offline path.              *)

Outcomes == IF net = "up"
              THEN {"answer"} \union (IF faults > 0 THEN {"lost", "unsent"} ELSE {})
              ELSE {"unsent"}

Charge(outcome) ==
  faults' = IF net = "up" /\ outcome # "answer" THEN faults - 1 ELSE faults

UserWrites == writes > 0 /\ writes' = writes - 1

\* createTask; on a network error createTaskOffline begins, with the temporary
\* id read from the store.  Within a page that read is never answered between
\* dropLocalTask and retargetOutbox: the latter's read is issued the moment the
\* former commits.  Another page's may be.
CreateTask(r, v, outcome) ==
  LET o   == Len(want) + 1
      new == [Item("create", o, 0, v, FALSE) EXCEPT !.cid = nextCid]
  IN
  /\ UserWrites /\ outcome \in Outcomes
  /\ outcome = "lost" => "lost_create" \in Admitted
  /\ drafts[r] = NoDraft
  /\ outcome # "answer" => \A s \in Slots : pc[<<r[1], s>>] # "retarget"
  /\ Charge(outcome)
  /\ want' = Append(want, [val |-> v, done |-> FALSE, live |-> TRUE])
  /\ nextCid' = nextCid + 1
  /\ rows' = IF outcome = "unsent" THEN rows ELSE Append(rows, NewRow(new))
  /\ drafts' = IF outcome = "answer" THEN drafts
               ELSE [drafts EXCEPT ![r] = [step |-> "put", id |-> NextTempId,
                                           obj |-> o, val |-> v]]
  /\ UNCHANGED <<net, stores, calls, fate, lastReached>>

\* createTaskOffline: keep the local copy ...
PutLocal(r) ==
  /\ drafts[r] # NoDraft /\ drafts[r].step = "put"
  /\ Keep(drafts[r].id, [obj |-> drafts[r].obj, val |-> drafts[r].val, done |-> FALSE])
  /\ drafts' = [drafts EXCEPT ![r].step = "enqueue"]
  /\ UNCHANGED <<rows, nextCid, net, outbox, seen, calls, ghosts, writes, faults>>

\* ... then queue the create (no client id yet) and refresh the page.
EnqueueCreate(r) ==
  LET d == drafts[r] IN
  /\ d # NoDraft /\ d.step = "enqueue"
  /\ Enqueue([Item("create", d.obj, d.id, d.val, FALSE) EXCEPT !.temp = d.id])
  /\ drafts' = [drafts EXCEPT ![r] = NoDraft]
  /\ seen' = [seen EXCEPT ![r[1]] = locals]
  /\ UNCHANGED <<rows, nextCid, net, locals, calls, want, lastReached, writes, faults>>

\* The rows the user has on the screen: the tasks that are wanted, and those that
\* came back although they were deleted.
OnScreen == {k \in DOMAIN rows : \/ want[rows[k].obj].live
                                 \/ "temp_delete" \in Admitted /\ rows[k].live}

\* updateTask and moveTask (patch; so does updateSubtask, when the page knows it is
\* offline), toggleTask (done), deleteTask:
\* direct, or on a network error queued with the row's own id.  Online a toggle
\* flips the row; queued it sets what the user saw.
WriteRow(tab, k, kind, v, outcome) ==
  LET o == rows[k].obj
      d == ~want[o].done
      direct == IF kind = "done" THEN Item("done", o, k, v, ~rows[k].done)
                                 ELSE Item(kind, o, k, v, d)
  IN
  /\ UserWrites /\ k \in OnScreen /\ outcome \in Outcomes
  /\ outcome = "unsent" \/ Live(k)
  /\ outcome # "unsent" => \/ "overtake" \in Admitted
                           \/ \A i \in outbox : i.obj # o
  /\ Charge(outcome)
  /\ want' = [want EXCEPT ![o] =
                CASE kind = "patch"  -> [@ EXCEPT !.val = v]
                  [] kind = "done"   -> [@ EXCEPT !.done = d]
                  [] kind = "delete" -> [@ EXCEPT !.live = FALSE]]
  /\ rows' = IF outcome = "unsent" THEN rows ELSE Applied(direct, k)
  /\ IF outcome = "answer"
       THEN UNCHANGED <<outbox, fate, seen>>
       ELSE /\ Enqueue(Item(kind, o, k, v, d))
            /\ seen' = [seen EXCEPT ![tab] = locals]
  /\ UNCHANGED <<nextCid, net, locals, drafts, calls, lastReached>>

\* updateTaskOffline and toggleTaskOffline on a temporary id: the request fails,
\* the copy the page has in memory is changed and written back.  Nothing is queued.
EditTemp(tab, id, v, d) ==
  LET copy == [seen[tab][id] EXCEPT !.val = v, !.done = d] IN
  /\ "temp_edit" \in Admitted /\ UserWrites /\ net # "up"
  /\ copy # seen[tab][id]
  /\ Keep(id, copy) /\ Refresh(tab)
  /\ want' = [want EXCEPT ![copy.obj] = [@ EXCEPT !.val = v, !.done = d]]
  /\ UNCHANGED <<rows, nextCid, net, outbox, drafts, calls, fate, lastReached, faults>>

\* deleteTask on a temporary id: the local copy goes, nothing else.
DeleteTemp(tab, id) ==
  /\ "temp_delete" \in Admitted /\ UserWrites /\ net # "up"
  /\ locals' = Without(locals, id) /\ Refresh(tab)
  /\ want' = [want EXCEPT ![seen[tab][id].obj].live = FALSE]
  /\ UNCHANGED <<rows, nextCid, net, outbox, drafts, calls, fate, lastReached, faults>>

\* The same user deletes a task from another device.  A task whose create is still
\* to be repeated would come back, its client id gone with the row: "overtake".
OtherDeviceDelete(k) ==
  /\ "other_device" \in Admitted /\ UserWrites /\ Live(k)
  /\ \/ "overtake" \in Admitted
     \/ \A i \in outbox : i.obj = rows[k].obj => i.kind # "create"
  /\ rows' = [rows EXCEPT ![k].live = FALSE]
  /\ want' = [want EXCEPT ![rows[k].obj].live = FALSE]
  /\ UNCHANGED <<nextCid, net, stores, drafts, calls, fate, lastReached, faults>>

-----------------------------------------------------------------------------
(* syncNow and replayOutbox.                                               *)

\* A call has taken its snapshot and not left the loop over it.
Active == {"send", "drop", "retarget", "rewrite", "remove", "put"}

\* syncNow begins: navigator.onLine and the flag are looked at, then the read of
\* the queue is awaited.
StartSync(r) ==
  /\ pc[r] = "idle" /\ net # "off" /\ ~replaying[r[1]]
  /\ outbox # {}
  /\ pc' = [pc EXCEPT ![r] = "read"]
  /\ UNCHANGED <<rows, nextCid, net, stores, drafts, replaying, todo, cur, idMap,
                 affected, res, ghosts, writes, faults>>

\* The read is back.  The flag is set now, whatever it is by now.
ReadSnapshot(r) ==
  /\ pc[r] = "read"
  /\ todo' = [todo EXCEPT ![r] = outbox]
  /\ idMap' = [idMap EXCEPT ![r] = <<>>]
  /\ IF outbox = {}
       THEN pc' = [pc EXCEPT ![r] = "refresh"] /\ UNCHANGED replaying
       ELSE /\ pc' = [pc EXCEPT ![r] = "send"]
            /\ replaying' = [replaying EXCEPT ![r[1]] = TRUE]
  /\ UNCHANGED <<rows, nextCid, net, stores, drafts, cur, affected, res, ghosts,
                 writes, faults>>

\* Mutant: the snapshot is not sorted by seq.
IsFront_Unsorted(r, i) == i \in todo[r]

IsFront(r, i) == i \in todo[r] /\ \A j \in todo[r] : i.seq <= j.seq

\* The row a replayed request names: idMap.get(item.taskId) ?? item.taskId.
Target(r, i) == IF i.task \in DOMAIN idMap[r] THEN idMap[r][i.task] ELSE i.task

\* Mutant: every attempt draws a new client id.
WithCid_Fresh(i) == IF i.kind = "create" THEN [i EXCEPT !.cid = nextCid] ELSE i

\* A create without a client id gets one now, in memory.
WithCid(i) == IF i.kind = "create" /\ i.cid = 0 THEN [i EXCEPT !.cid = nextCid] ELSE i

\* tries >= MAX_TRIES, counting this one.
LastTry(i) == i.tries + 1 >= MaxTries

\* The first answer is what became of the write.
Settle(s, f) == fate' = [fate EXCEPT ![s] = IF @ = "queued" THEN f ELSE @]

Begin(r, i) ==
  /\ pc[r] = "send" /\ IsFront(r, i)
  /\ cur' = [cur EXCEPT ![r] = WithCid(i)]
  /\ nextCid' = IF WithCid(i) = i THEN nextCid ELSE nextCid + 1
  /\ UNCHANGED <<net, stores, drafts, replaying, todo, idMap, affected, writes>>

Reaches(r, i) ==
  /\ net = "up" /\ Accepts(i, Target(r, i))
  /\ rows' = Applied(WithCid(i), Target(r, i))
  /\ lastReached' = i.seq

\* send comes back with success: a create goes on to idMap and its local copy,
\* unless the body of the answer cannot be read.
SendOk(r, i, body) ==
  /\ Begin(r, i) /\ Reaches(r, i)
  /\ Settle(i.seq, "delivered")
  /\ res' = [res EXCEPT ![r] = IF i.kind = "create" THEN CreatedRow(WithCid(i)) ELSE 0]
  /\ pc' = [pc EXCEPT ![r] = IF i.kind = "create" /\ body THEN "drop" ELSE "remove"]
  /\ body \/ (i.kind = "create" /\ "bodyless" \in Admitted /\ faults > 0)
  /\ faults' = IF body THEN faults ELSE faults - 1
  /\ UNCHANGED want

\* The server refuses (4xx other than 401): the item is dropped, with its local
\* copy.  The user is told, so a refused create is no longer wanted.
SendRejected(r, i) ==
  /\ Begin(r, i) /\ net = "up"
  /\ \/ ~Accepts(i, Target(r, i)) /\ UNCHANGED want
     \/ /\ i.kind = "create" /\ "refuse" \in Admitted /\ Earlier(WithCid(i).cid) = {}
        /\ want' = [want EXCEPT ![i.obj].live = FALSE]
  /\ Settle(i.seq, "rejected")
  /\ res' = [res EXCEPT ![r] = 0]
  /\ pc' = [pc EXCEPT ![r] = IF i.temp # 0 THEN "drop" ELSE "remove"]
  /\ UNCHANGED <<rows, lastReached, faults>>

\* A network error or a 5xx, after the server acted (lost) or before: one more
\* try is recorded and the round ends; the last try drops the item instead, and
\* the round goes on.
SendFailed(r, i, outcome) ==
  /\ Begin(r, i)
  /\ outcome \in Outcomes \ {"answer"} /\ Charge(outcome)
  /\ IF outcome = "lost" /\ Accepts(i, Target(r, i))
       THEN Reaches(r, i) ELSE UNCHANGED <<rows, lastReached>>
  /\ res' = [res EXCEPT ![r] = 0]
  /\ IF LastTry(i)
       THEN /\ Settle(i.seq, "exhausted")
            /\ pc' = [pc EXCEPT ![r] = IF i.temp # 0 THEN "drop" ELSE "remove"]
       ELSE /\ pc' = [pc EXCEPT ![r] = "put"]
            /\ UNCHANGED fate
  /\ UNCHANGED want

\* A 401: the round ends and the item is left as it is.
SendUnauthorized(r, i) ==
  /\ Begin(r, i) /\ net = "up" /\ faults > 0
  /\ faults' = faults - 1
  /\ pc' = [pc EXCEPT ![r] = "finish"]
  /\ UNCHANGED <<rows, res, ghosts>>

\* Mutant: the local copy stays.
DropLocal_Keeps(r) ==
  /\ pc[r] = "drop"
  /\ idMap' = IF res[r] = 0 THEN idMap
              ELSE [idMap EXCEPT ![r] = With(@, cur[r].task, res[r])]
  /\ pc' = [pc EXCEPT ![r] = IF res[r] = 0 THEN "remove" ELSE "retarget"]
  /\ UNCHANGED <<rows, nextCid, net, stores, drafts, replaying, todo, cur,
                 affected, res, ghosts, writes, faults>>

\* idMap.set and dropLocalTask.
DropLocal(r) ==
  /\ pc[r] = "drop"
  /\ locals' = Without(locals, cur[r].temp)
  /\ idMap' = IF res[r] = 0 THEN idMap
              ELSE [idMap EXCEPT ![r] = With(@, cur[r].task, res[r])]
  /\ pc' = [pc EXCEPT ![r] = IF res[r] = 0 THEN "remove" ELSE "retarget"]
  /\ UNCHANGED <<rows, nextCid, net, outbox, seen, drafts, replaying, todo, cur,
                 affected, res, ghosts, writes, faults>>

\* Mutant: the filter on the temporary id is missing.
Retarget_All(r) ==
  /\ pc[r] = "retarget"
  /\ affected' = [affected EXCEPT ![r] = outbox]
  /\ pc' = [pc EXCEPT ![r] = IF outbox = {} THEN "remove" ELSE "rewrite"]
  /\ UNCHANGED <<rows, nextCid, net, stores, drafts, replaying, todo, cur, idMap,
                 res, ghosts, writes, faults>>

\* retargetOutbox reads the queued items that name the temporary id.  The create that
\* is being replayed is itself one of them ...
Retarget(r) ==
  LET found == {i \in outbox : i.task = cur[r].temp} IN
  /\ pc[r] = "retarget"
  /\ affected' = [affected EXCEPT ![r] = found]
  /\ pc' = [pc EXCEPT ![r] = IF found = {} THEN "remove" ELSE "rewrite"]
  /\ UNCHANGED <<rows, nextCid, net, stores, drafts, replaying, todo, cur, idMap,
                 res, ghosts, writes, faults>>

\* ... and puts them back, in a transaction of its own, with the id of the row: also
\* an item that another page has removed or put back since.
Rewrite(r) ==
  /\ pc[r] = "rewrite"
  /\ outbox' = {i \in outbox : \A j \in affected[r] : j.seq # i.seq}
                 \union {[j EXCEPT !.task = res[r]] : j \in affected[r]}
  /\ affected' = [affected EXCEPT ![r] = {}]
  /\ pc' = [pc EXCEPT ![r] = "remove"]
  /\ UNCHANGED <<rows, nextCid, net, locals, seen, drafts, replaying, todo, cur,
                 idMap, res, ghosts, writes, faults>>

\* removeFromOutbox, and on to the next item of the snapshot.
Remove(r) ==
  LET rest == {i \in todo[r] : i.seq # cur[r].seq} IN
  /\ pc[r] = "remove"
  /\ outbox' = {i \in outbox : i.seq # cur[r].seq}
  /\ todo' = [todo EXCEPT ![r] = rest]
  /\ pc' = [pc EXCEPT ![r] = IF rest = {} THEN "finish" ELSE "send"]
  /\ UNCHANGED <<rows, nextCid, net, locals, seen, drafts, replaying, cur, idMap,
                 affected, res, ghosts, writes, faults>>

\* Mutant: the item is taken out and not put back.
PutBack_Loses(r) ==
  /\ pc[r] = "put"
  /\ outbox' = {i \in outbox : i.seq # cur[r].seq}
  /\ pc' = [pc EXCEPT ![r] = "finish"]
  /\ UNCHANGED <<rows, nextCid, net, locals, seen, drafts, replaying, todo, cur,
                 idMap, affected, res, ghosts, writes, faults>>

\* updateOutboxItem writes back the item as it is in memory; the round ends.
PutBack(r) ==
  /\ pc[r] = "put"
  /\ outbox' = {i \in outbox : i.seq # cur[r].seq}
                 \union {[cur[r] EXCEPT !.tries = @ + 1]}
  /\ pc' = [pc EXCEPT ![r] = "finish"]
  /\ UNCHANGED <<rows, nextCid, net, locals, seen, drafts, replaying, todo, cur,
                 idMap, affected, res, ghosts, writes, faults>>

\* Mutant: no finally, the flag stays set.
Finish_NoReset(r) ==
  /\ pc[r] = "finish"
  /\ todo' = [todo EXCEPT ![r] = {}] /\ cur' = [cur EXCEPT ![r] = NoItem]
  /\ idMap' = [idMap EXCEPT ![r] = <<>>] /\ res' = [res EXCEPT ![r] = 0]
  /\ pc' = [pc EXCEPT ![r] = "refresh"]
  /\ UNCHANGED <<rows, nextCid, net, stores, drafts, replaying, affected, ghosts,
                 writes, faults>>

\* The finally block.
Finish(r) ==
  /\ pc[r] = "finish"
  /\ replaying' = [replaying EXCEPT ![r[1]] = FALSE]
  /\ todo' = [todo EXCEPT ![r] = {}] /\ cur' = [cur EXCEPT ![r] = NoItem]
  /\ idMap' = [idMap EXCEPT ![r] = <<>>] /\ res' = [res EXCEPT ![r] = 0]
  /\ pc' = [pc EXCEPT ![r] = "refresh"]
  /\ UNCHANGED <<rows, nextCid, net, stores, drafts, affected, ghosts, writes, faults>>

\* refreshOfflineState at the end of syncNow.
RefreshPage(r) ==
  /\ pc[r] = "refresh"
  /\ seen' = [seen EXCEPT ![r[1]] = locals]
  /\ pc' = [pc EXCEPT ![r] = "idle"]
  /\ UNCHANGED <<rows, nextCid, net, outbox, locals, drafts, replaying, todo, cur,
                 idMap, affected, res, ghosts, writes, faults>>

-----------------------------------------------------------------------------
(* The environment.                                                        *)

\* A page is closed and opened again: what is in its memory is gone, the
\* requests it had in flight have already been decided.
ClosePage(tab) ==
  /\ "close" \in Admitted /\ faults > 0 /\ faults' = faults - 1
  /\ pc' = [r \in Run |-> IF r[1] = tab THEN "idle" ELSE pc[r]]
  /\ todo' = [r \in Run |-> IF r[1] = tab THEN {} ELSE todo[r]]
  /\ cur' = [r \in Run |-> IF r[1] = tab THEN NoItem ELSE cur[r]]
  /\ idMap' = [r \in Run |-> IF r[1] = tab THEN <<>> ELSE idMap[r]]
  /\ affected' = [r \in Run |-> IF r[1] = tab THEN {} ELSE affected[r]]
  /\ res' = [r \in Run |-> IF r[1] = tab THEN 0 ELSE res[r]]
  /\ drafts' = [r \in Run |-> IF r[1] = tab THEN NoDraft ELSE drafts[r]]
  /\ replaying' = [replaying EXCEPT ![tab] = FALSE]
  /\ seen' = [seen EXCEPT ![tab] = locals]
  /\ UNCHANGED <<rows, nextCid, net, outbox, locals, ghosts, writes>>

GoDown(how) ==
  /\ net = "up" /\ faults > 0 /\ faults' = faults - 1
  /\ how = "dead" => "dead" \in Admitted
  /\ net' = how
  /\ UNCHANGED <<rows, nextCid, stores, drafts, calls, ghosts, writes>>

GoUp ==
  /\ net # "up" /\ net' = "up"
  /\ UNCHANGED <<rows, nextCid, stores, drafts, calls, ghosts, writes, faults>>

-----------------------------------------------------------------------------
Init ==
  /\ rows = <<[obj |-> 1, val |-> InitVal, done |-> FALSE, cid |-> 0, live |-> TRUE]>>
  /\ want = <<[val |-> InitVal, done |-> FALSE, live |-> TRUE]>>
  /\ nextCid = 1 /\ net = "up"
  /\ outbox = {} /\ locals = <<>> /\ seen = [t \in Tabs |-> <<>>]
  /\ drafts = [r \in Run |-> NoDraft]
  /\ replaying = [t \in Tabs |-> FALSE]
  /\ pc = [r \in Run |-> "idle"] /\ todo = [r \in Run |-> {}]
  /\ cur = [r \in Run |-> NoItem] /\ idMap = [r \in Run |-> <<>>]
  /\ affected = [r \in Run |-> {}] /\ res = [r \in Run |-> 0]
  /\ fate = <<>> /\ lastReached = 0
  /\ writes = MaxWrites /\ faults = MaxFaults

Write ==
  \/ \E r \in Run, v \in Vals, how \in {"answer", "lost", "unsent"} : CreateTask(r, v, how)
  \/ \E tab \in Tabs, k \in DOMAIN rows, v \in Vals, how \in {"answer", "lost", "unsent"} :
       \/ WriteRow(tab, k, "patch", v, how)
       \/ v = InitVal /\ WriteRow(tab, k, "done", v, how)
       \/ v = InitVal /\ WriteRow(tab, k, "delete", v, how)
  \/ \E tab \in Tabs : \E id \in DOMAIN seen[tab] :
       \/ \E v \in Vals, d \in BOOLEAN : EditTemp(tab, id, v, d)
       \/ DeleteTemp(tab, id)
  \/ \E k \in DOMAIN rows : OtherDeviceDelete(k)

SendStep(r) ==
  \E i \in todo[r] :
    \/ \E body \in BOOLEAN : SendOk(r, i, body)
    \/ SendRejected(r, i)
    \/ \E how \in {"lost", "unsent"} : SendFailed(r, i, how)
    \/ SendUnauthorized(r, i)

SyncStep(r) ==
  \/ StartSync(r) \/ ReadSnapshot(r) \/ SendStep(r) \/ DropLocal(r) \/ Retarget(r)
  \/ Rewrite(r) \/ Remove(r) \/ PutBack(r) \/ Finish(r) \/ RefreshPage(r)

DraftStep(r) == PutLocal(r) \/ EnqueueCreate(r)

Environment ==
  \/ \E tab \in Tabs : ClosePage(tab)
  \/ \E how \in {"off", "dead"} : GoDown(how)
  \/ GoUp

Next == Write \/ Environment \/ \E r \in Run : SyncStep(r) \/ DraftStep(r)

Spec == Init /\ [][Next]_vars

\* A page keeps running its code; the 20 s interval of AppStore starts syncNow
\* again and again while something is queued; a connection comes back.
Fairness ==
  /\ WF_vars(GoUp)
  /\ \A r \in Run : WF_vars(SyncStep(r)) /\ WF_vars(DraftStep(r))

FairSpec == Spec /\ Fairness

-----------------------------------------------------------------------------
\* Where a call works on an item it has taken from its snapshot.
Holding == {"drop", "retarget", "rewrite", "remove", "put"}

CopiesOK(f) == DOMAIN f \subseteq Int /\ \A t \in DOMAIN f : f[t] \in Locals

WorldOK ==
  /\ rows \in Seq(Rows) /\ want \in Seq(Wants) /\ nextCid \in Nat
  /\ net \in {"up", "off", "dead"}
  /\ fate \in Seq(Fates) /\ lastReached \in Nat
  /\ writes \in 0 .. MaxWrites /\ faults \in 0 .. MaxFaults

StoresOK ==
  /\ outbox \subseteq Items /\ CopiesOK(locals)
  /\ DOMAIN seen = Tabs /\ \A t \in Tabs : CopiesOK(seen[t])
  /\ DOMAIN drafts = Run /\ \A r \in Run : drafts[r] \in Drafts \union {NoDraft}

CallsOK ==
  /\ replaying \in [Tabs -> BOOLEAN]
  /\ pc \in [Run -> Active \union {"idle", "read", "finish", "refresh"}]
  /\ todo \in [Run -> SUBSET Items]
  /\ cur \in [Run -> Items \union {NoItem}]
  /\ \A r \in Run : pc[r] \in Holding => cur[r] \in Items
  /\ DOMAIN idMap = Run
  /\ \A r \in Run : DOMAIN idMap[r] \subseteq Int
                    /\ \A t \in DOMAIN idMap[r] : idMap[r][t] \in Nat
  /\ affected \in [Run -> SUBSET Items] /\ res \in [Run -> Nat]

\* The state is well formed: every store, page and call holds what its code puts
\* there (offline.ts OutboxItem and LocalTask, AppStore.tsx localTasks).
TypeOK == WorldOK /\ StoresOK /\ CallsOK

\* A write the user was told is queued stays in the store until the server has
\* taken it, has refused it, or MAX_TRIES is spent: no round, crash or second page
\* loses it on the way (offline.ts removeFromOutbox, updateOutboxItem).
NothingForgotten ==
  \A s \in DOMAIN fate : fate[s] = "queued" => \E i \in outbox : i.seq = s

\* The server never sees a queued write while an earlier one is still waiting, with
\* any number of pages replaying at once (offline.ts replayOutbox: strictly by seq).
NoOvertaking == \A s \in DOMAIN fate : s < lastReached => fate[s] # "queued"

\* Queued writes reach the server in the order they were queued, repetitions
\* included (offline.ts 491-497, README section 11).
InOrder == [][lastReached' >= lastReached]_lastReached

\* One task the user created is one row on the server (the clientId key).
OneRowPerCreate ==
  \A j, k \in DOMAIN rows :
    j # k /\ rows[j].live /\ rows[k].live => rows[j].obj # rows[k].obj

Quiet == /\ outbox = {}
         /\ \A r \in Run : pc[r] = "idle" /\ drafts[r] = NoDraft

\* When everything is replayed the server holds what the user last asked for: the
\* task with its last field and status, once, or no task if it was deleted.
DrainedAgrees ==
  Quiet => \A o \in DOMAIN want :
    LET mine == {k \in DOMAIN rows : rows[k].obj = o /\ rows[k].live} IN
    IF want[o].live
      THEN \E k \in mine : /\ mine = {k} /\ rows[k].val = want[o].val
                           /\ rows[k].done = want[o].done
      ELSE mine = {}

\* A local copy is on the screen exactly as long as its create is on the way: no
\* phantom stays behind, and no queued task is invisible (localTasks and outbox
\* are two stores written in separate transactions).
CopiesMatchQueue ==
  LET waiting == {i.temp : i \in {j \in outbox : j.kind = "create" /\ fate[j.seq] = "queued"}}
      passing == {i.temp : i \in {j \in outbox : j.kind = "create"}}
      putting == {drafts[r].id : r \in {s \in Run : drafts[s] # NoDraft}}
  IN  /\ DOMAIN locals \subseteq passing \union putting
      /\ waiting \subseteq DOMAIN locals

\* Two creates that wait for the server never share a temporary id (offline.ts
\* nextTempId), although ids are used again once a create is settled.
TempIdsDistinct ==
  LET waiting == {i \in outbox : i.kind = "create" /\ fate[i.seq] = "queued"}
  IN  \A i, j \in waiting : i.temp = j.temp => i.seq = j.seq

\* A replayed write goes to the row of the task it was made on: temporary ids, their
\* reuse and the two rewritings (idMap, retargetOutbox) never send it elsewhere.
SentToItsTask ==
  \A r \in Run : pc[r] = "send" => \A i \in todo[r] :
    IsFront(r, i) /\ i.kind # "create" =>
      Target(r, i) \in DOMAIN rows /\ rows[Target(r, i)].obj = i.obj

\* A queued write is given up only because the server refused it.
NeverExhausted == \A s \in DOMAIN fate : fate[s] # "exhausted"

\* The queue, its rounds and its pages implement the log of WriteLog (offline.ts
\* enqueue, replayOutbox, removeFromOutbox, updateOutboxItem, retargetOutbox).
Log == INSTANCE WriteLog
         WITH status <- fate, kept <- {i.seq : i \in outbox}, reached <- lastReached
KeepsTheLog == Log!Spec

\* Once the user stops and the connection holds, every queued write is answered
\* by the server and the queue runs empty (AppStore syncNow and its three triggers).
EventuallyDrained ==
  <>[](outbox = {} /\ \A s \in DOMAIN fate : fate[s] \in {"delivered", "rejected"})
=============================================================================
