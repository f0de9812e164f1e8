------------------------------ MODULE UndoSlot ------------------------------
(***************************************************************************)
(* Deleting tasks so that it can be undone, and the files of attachments.  *)
(*                                                                         *)
(*   internal/store/undo.go     the slot that holds the last deletion      *)
(*   internal/store/extras.go   attachments: rows in the database, files   *)
(*   internal/store/tasks.go    DeleteTask, BatchAction, PurgeCompleted    *)
(*                                                                         *)
(* Rows and files are kept in step by hand: no transaction spans both, and *)
(* a deletion is a sequence of statements outside any transaction.  Each   *)
(* statement, each os.Remove and each os.Rename is one step; requests      *)
(* interleave, and the server may stop between two steps.  The transaction *)
(* of Undo reads before it writes: it is two steps, and SQLite refuses the *)
(* write when another connection has committed since the read.             *)
(*                                                                         *)
(* A file is the number of the upload that made it.                        *)
(***************************************************************************)
EXTENDS Integers, Sequences, FiniteSets

CONSTANTS
  Reqs,       \* places for requests in flight
  Kinds,      \* the kinds of requests that arrive, from AllKinds
  NTasks,     \* tasks at the beginning; task i has the file i
  TTL,        \* how long a deletion can be undone (undoTTL)
  MaxTime,    \* bound: the clock, in its unit, the second
  MaxReqs,    \* bound: requests
  MaxCrashes, \* bound: restarts of the server
  Serial      \* whether a request waits until the one before has been answered

AllKinds == {"delete", "undo", "state", "drop", "upload", "unattach"}

ASSUME ConstantsAssumption ==
  /\ Kinds \subseteq AllKinds
  /\ NTasks \in Nat /\ TTL \in Nat /\ MaxTime \in Nat
  /\ MaxReqs \in Nat /\ MaxCrashes \in Nat
  /\ Serial \in BOOLEAN

VARIABLES
  tasks,    \* the rows of table tasks, by id: live, and which row it is a copy of
  atts,     \* the rows of table attachments
  disk,     \* the files in the attachment directory
  slot,     \* the row of table undo_slot, or NoSlot
  now,      \* the clock
  pc,       \* request: the statement it comes to next
  call,     \* request: what was asked
  held,     \* request: tasks in memory, with their files
  mark,     \* request: created_at of the slot it read; ghost: which slot that was
  names,    \* request: files it has still to remove, or has placed
  doomed,   \* request: rows it has still to delete
  stale,    \* the requests whose transaction has an outdated snapshot
  uploads,  \* counts the files
  stagings, \* ghost: counts the deletions that were staged
  asked,    \* ghost: the tasks and the attachments somebody asked to delete
  requests, \* bound counter
  crashes   \* bound counter

request == <<pc, call, held, mark, names, doomed>>
vars    == <<tasks, atts, disk, slot, now, pc, call, held, mark, names, doomed, stale,
             uploads, stagings, asked, requests, crashes>>

Rows   == [live : BOOLEAN, from : Nat]
Atts   == [task : Nat, file : Nat]
Held   == [id : Nat, files : SUBSET Nat]
Marks  == [at : Nat, nr : Nat]
Slots  == [held : SUBSET Held, at : Nat, nr : Nat]
Calls  == [kind : AllKinds, ids : SUBSET Nat, file : Nat]

NoSlot == [held |-> {}, at |-> 0, nr |-> 0]
NoMark == [at |-> 0, nr |-> 0]
NoCall == [kind |-> "state", ids |-> {}, file |-> 0]

FilesOf(hs) == UNION {h.files : h \in hs}
IdsOf(hs)   == {h.id : h \in hs}
Live(i)     == i \in DOMAIN tasks /\ tasks[i].live

-----------------------------------------------------------------------------
(* Steps of a request.                                                     *)

First(kind) ==
  CASE kind = "delete"             -> "find"
    [] kind \in {"undo", "state"}  -> "expire"
    [] kind = "drop"               -> "peek"
    [] kind = "upload"             -> "probe"
    [] kind = "unattach"           -> "look"

Goto(r, next) == pc' = [pc EXCEPT ![r] = next]

\* The request is answered (or fails); what it had in memory is gone.
Answer(r) ==
  /\ pc' = [pc EXCEPT ![r] = "idle"]      /\ call' = [call EXCEPT ![r] = NoCall]
  /\ held' = [held EXCEPT ![r] = {}]      /\ mark' = [mark EXCEPT ![r] = NoMark]
  /\ names' = [names EXCEPT ![r] = {}]    /\ doomed' = [doomed EXCEPT ![r] = {}]

\* A commit: the snapshot of every open transaction of the others is outdated.
Commits(r) == stale' = {q \in Reqs \ {r} : pc[q] = "restore"}

Quiet == \A q \in Reqs : pc[q] = "idle"

Arrive(r, kind, S, f) ==
  /\ pc[r] = "idle" /\ requests > 0 /\ requests' = requests - 1
  /\ Serial => Quiet
  /\ Goto(r, First(kind))
  /\ call' = [call EXCEPT ![r] = [kind |-> kind, ids |-> S, file |-> f]]
  /\ asked' = IF kind = "delete" THEN [asked EXCEPT !.tasks = @ \union S]
              ELSE IF kind = "unattach" THEN [asked EXCEPT !.files = @ \union {f}]
              ELSE asked
  /\ UNCHANGED <<tasks, atts, disk, slot, now, held, mark, names, doomed, stale, uploads,
                 stagings, crashes>>

-----------------------------------------------------------------------------
(* dropUndo(true): the files of the slot go first, then the slot.          *)

PeekSlot(r) ==
  /\ pc[r] = "peek"
  /\ names' = [names EXCEPT ![r] = FilesOf(slot.held)]
  /\ Goto(r, "unlink")
  /\ UNCHANGED <<tasks, atts, disk, slot, now, call, held, mark, doomed, stale, uploads,
                 stagings, asked, requests, crashes>>

UnlinkOne(r) ==
  /\ pc[r] = "unlink"
  /\ \E f \in names[r] :
       /\ disk' = disk \ {f}
       /\ names' = [names EXCEPT ![r] = @ \ {f}]
  /\ UNCHANGED <<tasks, atts, slot, now, pc, call, held, mark, doomed, stale, uploads,
                 stagings, asked, requests, crashes>>

\* Whatever is in the slot by now; then back to what called dropUndo.
ClearSlot(r) ==
  /\ pc[r] = "unlink" /\ names[r] = {}
  /\ slot' = NoSlot
  /\ Commits(r)
  /\ IF call[r].kind \in {"delete", "undo"}
       THEN /\ Goto(r, IF call[r].kind = "delete" THEN "stage" ELSE "fetch")
            /\ UNCHANGED <<call, held, mark, names, doomed>>
       ELSE Answer(r)
  /\ UNCHANGED <<tasks, atts, disk, now, uploads, stagings, asked, requests, crashes>>

-----------------------------------------------------------------------------
(* Deleting.                                                               *)

\* Mutant: the filter is missing.
Doomed_All(r) == {i \in DOMAIN tasks : Live(i)}

\* What GetTask, getTasksByIDs or ListTasks find.
Doomed(r) == {i \in call[r].ids : Live(i)}

HeldOf(i) == [id |-> i, files |-> {a.file : a \in {b \in atts : b.task = i}}]

\* stageUndo does nothing for an empty list, and clears the slot for any other.
FindDoomed(r) ==
  /\ pc[r] = "find"
  /\ IF Doomed(r) # {}
       THEN /\ held' = [held EXCEPT ![r] = {HeldOf(i) : i \in Doomed(r)}]
            /\ doomed' = [doomed EXCEPT ![r] = Doomed(r)]
            /\ Goto(r, "peek")
            /\ UNCHANGED <<call, mark, names>>
       ELSE Answer(r)
  /\ UNCHANGED <<tasks, atts, disk, slot, now, stale, uploads, stagings, asked, requests,
                 crashes>>

\* created_at is a time in seconds.
Stage(r) ==
  /\ pc[r] = "stage"
  /\ stagings' = stagings + 1
  /\ slot' = [held |-> held[r], at |-> now, nr |-> stagings + 1]
  /\ Commits(r)
  /\ Goto(r, "erase")
  /\ UNCHANGED <<tasks, atts, disk, now, call, held, mark, names, doomed, uploads, asked,
                 requests, crashes>>

\* Mutant: dropTaskAttachments with removeFiles = true.
EraseAtts_Files(r) ==
  LET i == CHOOSE j \in doomed[r] : TRUE IN
  /\ pc[r] = "erase"
  /\ atts' = {a \in atts : a.task # i}
  /\ disk' = disk \ HeldOf(i).files
  /\ Commits(r) /\ Goto(r, "row")
  /\ UNCHANGED <<tasks, slot, now, call, held, mark, names, doomed, uploads, stagings,
                 asked, requests, crashes>>

\* deleteTaskRows: first the attachment rows of a task, their files stay ...
EraseAtts(r) ==
  LET i == CHOOSE j \in doomed[r] : TRUE IN
  /\ pc[r] = "erase"
  /\ atts' = {a \in atts : a.task # i}
  /\ Commits(r) /\ Goto(r, "row")
  /\ UNCHANGED <<tasks, disk, slot, now, call, held, mark, names, doomed, uploads, stagings,
                 asked, requests, crashes>>

\* ... then the task; rows that have come since go with it (ON DELETE CASCADE).
EraseRow(r) ==
  LET i == CHOOSE j \in doomed[r] : TRUE IN
  /\ pc[r] = "row"
  /\ tasks' = [tasks EXCEPT ![i].live = FALSE]
  /\ atts' = {a \in atts : a.task # i}
  /\ Commits(r)
  /\ IF doomed[r] = {i}
       THEN Answer(r)
       ELSE /\ Goto(r, "erase") /\ doomed' = [doomed EXCEPT ![r] = @ \ {i}]
            /\ UNCHANGED <<call, held, mark, names>>
  /\ UNCHANGED <<disk, slot, now, uploads, stagings, asked, requests, crashes>>

-----------------------------------------------------------------------------
(* Undo.                                                                   *)

\* expireUndo: an outdated slot is dropped by whoever reads it.
Expired == slot # NoSlot /\ now - slot.at > TTL

ExpireUndo(r) ==
  /\ pc[r] = "expire"
  /\ IF Expired THEN Goto(r, "peek") /\ UNCHANGED <<call, held, mark, names, doomed>>
     ELSE IF call[r].kind = "undo"
       THEN Goto(r, "fetch") /\ UNCHANGED <<call, held, mark, names, doomed>>
       ELSE Answer(r)
  /\ UNCHANGED <<tasks, atts, disk, slot, now, stale, uploads, stagings, asked, requests,
                 crashes>>

\* The slot is read outside the transaction.
FetchSlot(r) ==
  /\ pc[r] = "fetch"
  /\ IF slot # NoSlot
       THEN /\ held' = [held EXCEPT ![r] = slot.held]
            /\ mark' = [mark EXCEPT ![r] = [at |-> slot.at, nr |-> slot.nr]]
            /\ Goto(r, "begin")
            /\ UNCHANGED <<call, names, doomed>>
       ELSE Answer(r)
  /\ UNCHANGED <<tasks, atts, disk, slot, now, stale, uploads, stagings, asked, requests,
                 crashes>>

\* Mutant: no look at whether the task is still there.
ToRestore_All(r) == held[r]

\* A task whose deletion failed halfway is still there, and is skipped.
ToRestore(r) == {h \in held[r] : ~Live(h.id)}

\* The transaction begins with a SELECT; os.Stat looks at the files.
BeginUndo(r) ==
  /\ pc[r] = "begin"
  /\ held' = [held EXCEPT ![r] =
                {[id |-> h.id, files |-> h.files \intersect disk] : h \in ToRestore(r)}]
  /\ Goto(r, "restore")
  /\ UNCHANGED <<tasks, atts, disk, slot, now, call, mark, names, doomed, stale, uploads,
                 stagings, asked, requests, crashes>>

\* The orders in which the tasks may be inserted again.
Orders(S) ==
  {o \in UNION {[1 .. n -> S] : n \in 0 .. Len(tasks)} :
     /\ \A h \in S : \E k \in DOMAIN o : o[k] = h
     /\ \A j, k \in DOMAIN o : j # k => o[j] # o[k]}

Restore(r) ==
  /\ pc[r] = "restore" /\ (r \notin stale \/ held[r] = {})
  /\ \E o \in Orders(held[r]) :
       /\ tasks' = tasks \o [k \in 1 .. Len(o) |-> [live |-> TRUE, from |-> o[k].id]]
       /\ atts' = atts \union
            UNION {{[task |-> Len(tasks) + k, file |-> f] : f \in o[k].files} : k \in DOMAIN o}
  /\ IF held[r] # {} THEN Commits(r) ELSE stale' = stale \ {r}
  /\ Goto(r, "discard")
  /\ UNCHANGED <<disk, slot, now, call, held, mark, names, doomed, uploads, stagings,
                 asked, requests, crashes>>

\* SQLITE_BUSY_SNAPSHOT: the answer is an error, nothing has changed.
RestoreFails(r) ==
  /\ pc[r] = "restore" /\ r \in stale /\ held[r] # {}
  /\ stale' = stale \ {r}
  /\ Answer(r)
  /\ UNCHANGED <<tasks, atts, disk, slot, now, uploads, stagings, asked, requests, crashes>>

\* Mutant: the slot stays.
DiscardSlot_Not(r) ==
  /\ pc[r] = "discard"
  /\ Commits(r) /\ Answer(r)
  /\ UNCHANGED <<tasks, atts, disk, slot, now, uploads, stagings, asked, requests, crashes>>

\* DELETE ... WHERE created_at = ?: the files stay.
DiscardSlot(r) ==
  /\ pc[r] = "discard"
  /\ slot' = IF slot # NoSlot /\ slot.at = mark[r].at THEN NoSlot ELSE slot
  /\ Commits(r) /\ Answer(r)
  /\ UNCHANGED <<tasks, atts, disk, now, uploads, stagings, asked, requests, crashes>>

-----------------------------------------------------------------------------
(* Attachments.                                                            *)

\* SaveAttachment: is the task there; the file; then the row.
ProbeTask(r) ==
  /\ pc[r] = "probe"
  /\ IF \E i \in call[r].ids : Live(i)
       THEN Goto(r, "place") /\ UNCHANGED <<call, held, mark, names, doomed>>
       ELSE Answer(r)
  /\ UNCHANGED <<tasks, atts, disk, slot, now, stale, uploads, stagings, asked, requests,
                 crashes>>

PlaceFile(r) ==
  /\ pc[r] = "place"
  /\ uploads' = uploads + 1
  /\ disk' = disk \union {uploads + 1}
  /\ names' = [names EXCEPT ![r] = {uploads + 1}]
  /\ Goto(r, "register")
  /\ UNCHANGED <<tasks, atts, slot, now, call, held, mark, doomed, stale, stagings, asked,
                 requests, crashes>>

\* The foreign key refuses a task that is gone, and the file is removed.
RegisterFile(r) ==
  /\ pc[r] = "register"
  /\ IF \A i \in call[r].ids : Live(i)
       THEN /\ atts' = atts \union [task : call[r].ids, file : names[r]]
            /\ Commits(r) /\ UNCHANGED disk
       ELSE disk' = disk \ names[r] /\ UNCHANGED <<atts, stale>>
  /\ Answer(r)
  /\ UNCHANGED <<tasks, slot, now, uploads, stagings, asked, requests, crashes>>

\* DeleteAttachment: read the row, delete it, remove the file.
LookUpAtt(r) ==
  /\ pc[r] = "look"
  /\ IF [task : call[r].ids, file : {call[r].file}] \subseteq atts
       THEN Goto(r, "detach") /\ UNCHANGED <<call, held, mark, names, doomed>>
       ELSE Answer(r)
  /\ UNCHANGED <<tasks, atts, disk, slot, now, stale, uploads, stagings, asked, requests,
                 crashes>>

DetachAtt(r) ==
  /\ pc[r] = "detach"
  /\ atts' = atts \ [task : call[r].ids, file : {call[r].file}]
  /\ Commits(r)
  /\ Goto(r, "remove")
  /\ UNCHANGED <<tasks, disk, slot, now, call, held, mark, names, doomed, uploads, stagings,
                 asked, requests, crashes>>

RemoveFile(r) ==
  /\ pc[r] = "remove"
  /\ disk' = disk \ {call[r].file}
  /\ Answer(r)
  /\ UNCHANGED <<tasks, atts, slot, now, stale, uploads, stagings, asked, requests, crashes>>

-----------------------------------------------------------------------------
Tick ==
  /\ now < MaxTime /\ now' = now + 1
  /\ UNCHANGED <<tasks, atts, disk, slot, request, stale, uploads, stagings, asked, requests,
                 crashes>>

\* The server stops and starts again.
Crash ==
  /\ crashes > 0 /\ crashes' = crashes - 1
  /\ pc' = [r \in Reqs |-> "idle"]  /\ call' = [r \in Reqs |-> NoCall]
  /\ held' = [r \in Reqs |-> {}]    /\ mark' = [r \in Reqs |-> NoMark]
  /\ names' = [r \in Reqs |-> {}]   /\ doomed' = [r \in Reqs |-> {}]
  /\ stale' = {}
  /\ UNCHANGED <<tasks, atts, disk, slot, now, uploads, stagings, asked, requests>>

Init ==
  /\ tasks = [i \in 1 .. NTasks |-> [live |-> TRUE, from |-> 0]]
  /\ atts = {[task |-> i, file |-> i] : i \in 1 .. NTasks}
  /\ disk = 1 .. NTasks /\ uploads = NTasks
  /\ slot = NoSlot /\ now = 0 /\ stagings = 0
  /\ pc = [r \in Reqs |-> "idle"] /\ call = [r \in Reqs |-> NoCall]
  /\ held = [r \in Reqs |-> {}]   /\ mark = [r \in Reqs |-> NoMark]
  /\ names = [r \in Reqs |-> {}]  /\ doomed = [r \in Reqs |-> {}]
  /\ stale = {} /\ asked = [tasks |-> {}, files |-> {}]
  /\ requests = MaxReqs /\ crashes = MaxCrashes

Present == {i \in DOMAIN tasks : tasks[i].live}

Arrives(r) ==
  \/ "delete" \in Kinds /\ \E S \in SUBSET Present : S # {} /\ Arrive(r, "delete", S, 0)
  \/ \E kind \in Kinds \intersect {"undo", "state", "drop"} : Arrive(r, kind, {}, 0)
  \/ "upload" \in Kinds /\ \E i \in Present : Arrive(r, "upload", {i}, 0)
  \/ "unattach" \in Kinds /\ \E a \in atts : Arrive(r, "unattach", {a.task}, a.file)

Deleting(r)  == FindDoomed(r) \/ Stage(r) \/ EraseAtts(r) \/ EraseRow(r)
Dropping(r)  == PeekSlot(r) \/ UnlinkOne(r) \/ ClearSlot(r)
Undoing(r)   == \/ ExpireUndo(r) \/ FetchSlot(r) \/ BeginUndo(r) \/ Restore(r)
                \/ RestoreFails(r) \/ DiscardSlot(r)
Attaching(r) == \/ ProbeTask(r) \/ PlaceFile(r) \/ RegisterFile(r)
                \/ LookUpAtt(r) \/ DetachAtt(r) \/ RemoveFile(r)

Next ==
  \/ \E r \in Reqs : Arrives(r) \/ Deleting(r) \/ Dropping(r) \/ Undoing(r) \/ Attaching(r)
  \/ Tick
  \/ Crash

Spec == Init /\ [][Next]_vars

-----------------------------------------------------------------------------
Statements ==
  {"idle", "find", "expire", "peek", "unlink", "stage", "erase", "row", "fetch", "begin",
   "restore", "discard", "probe", "place", "register", "look", "detach", "remove"}

RequestsOK ==
  /\ pc \in [Reqs -> Statements] /\ call \in [Reqs -> Calls]
  /\ held \in [Reqs -> SUBSET Held] /\ mark \in [Reqs -> Marks]
  /\ names \in [Reqs -> SUBSET Nat]
  /\ doomed \in [Reqs -> SUBSET DOMAIN tasks] /\ stale \subseteq Reqs
  /\ \A r \in Reqs : pc[r] \in {"erase", "row"} => doomed[r] # {}

TablesOK ==
  /\ tasks \in Seq(Rows) /\ atts \subseteq Atts /\ disk \subseteq Nat
  /\ slot \in Slots /\ now \in 0 .. MaxTime
  /\ uploads \in Nat /\ stagings \in Nat
  /\ asked \in [tasks : SUBSET Nat, files : SUBSET Nat]
  /\ requests \in 0 .. MaxReqs /\ crashes \in 0 .. MaxCrashes

\* The tables, the directory and the requests hold what the code puts there.
TypeOK == TablesOK /\ RequestsOK

\* No restored copy stands beside the task it is a copy of (Undo skips the tasks that
\* are still there: "不加校验地恢复，等于复制出一条重复任务").
NoCopyBesideOriginal == \A i \in DOMAIN tasks : tasks[i].live => ~Live(tasks[i].from)

\* An attachment of a task that nobody asked to delete keeps its file, whatever is
\* deleted, restored, dropped or interrupted around it (dropUndo, DeleteAttachment and
\* SaveAttachment are the places that remove files).
UntouchedKeepFiles ==
  \A a \in atts :
    /\ a.task \notin asked.tasks /\ a.file \notin asked.files
    /\ a.task \in DOMAIN tasks => tasks[a.task].from = 0
    => a.file \in disk

\* Once all requests are answered, every attachment row has its file: no dead links
\* (Undo: "不要留成死链"; dropTaskAttachments).
NoDeadLinks == Quiet => \A a \in atts : a.file \in disk

\* One deletion is restored once, however often Undo is asked for.
RestoredOnce ==
  \A i, j \in Present : i # j /\ tasks[i].from # 0 => tasks[i].from # tasks[j].from

\* Nothing piles up on the disk: once all requests are answered, every file belongs to an
\* attachment or can still be brought back by Undo (stageUndo: "磁盘占用是恒定的").
NoLeak == Quiet => disk \subseteq {a.file : a \in atts} \union FilesOf(slot.held)

\* Undo brings back every task of the slot with every file that was deleted with it.
RestoresAll ==
  \A r \in Reqs : pc[r] = "restore" /\ pc'[r] = "discard" =>
    \A h \in slot.held : \E i \in DOMAIN tasks' :
      /\ tasks'[i].live /\ tasks'[i].from = h.id
      /\ \A f \in h.files : [task |-> i, file |-> f] \in atts'

UndoIsComplete == [][RestoresAll]_vars

\* Undo clears the slot it has restored and no later one (the comment in Undo on the
\* condition created_at = ?).
NewSlotKept ==
  [][\A r \in Reqs : pc[r] = "discard" /\ pc'[r] = "idle" /\ slot # NoSlot /\ slot' = NoSlot
       => slot.nr = mark[r].nr]_vars
=============================================================================
