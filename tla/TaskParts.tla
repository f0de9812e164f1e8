------------------------------ MODULE TaskParts ------------------------------
(***************************************************************************)
(* What hangs on a task and has writes of its own in the panel              *)
(* (TaskDetail.tsx, AppStore.tsx, tasks.go, extras.go): subtasks, files,    *)
(* links to other tasks and the search for them, and the line that says     *)
(* what blocks the task.  None of them carries a version; a write of a      *)
(* subtask is announced to all pages, one of a file or a link to none.      *)
(***************************************************************************)
EXTENDS Integers, Sequences, FiniteSets, SequencesExt

CONSTANTS
  Tasks,       \* two, the panel shows one of them; the subtasks are those of the first
  Others,      \* tasks to link to
  Queries,     \* texts of the search, and what each finds
  Found,
  Reminders,
  Deepest,     \* levels below which no child is offered
  Nobody,
  Haste,       \* of {"stale", "crossing", "overtaken", "renamed", "grew", "switch", "overtake"}
  MaxSubs,     \* bound: subtasks ever made
  MaxUses      \* bound: clicks of the user and of another device

VARIABLES
  subs, shownSubs,   \* subtasks on the server, and as the page shows them
  boxes,             \* input of each title, its text the page's own since it first showed it,
                     \* and (history) whether that was typed and is not the title yet
  asked,             \* Nobody, or the subtask to delete and those the question counts
  calls,             \* writes under way; each is followed by a read of the task
  owed, lost,        \* history: what was last meant of each mark; deletions as told and as done
  files, kept, list, \* files on the server, in the store of the page, in the panel
  cur, upload, removing,
  box, hits, searches,
  edges, over,       \* what blocks each task, and which of it is done
  banner, asking,    \* what the panel names, and the request for it
  quiet,             \* history: a link has changed since the request
  reread, reading,   \* the page was told of a change; the read it makes of it
  nUses

subVars    == <<subs, shownSubs, boxes, asked, owed, lost>>
fileVars   == <<files, kept, list, upload, removing>>
searchVars == <<box, hits, searches>>
linkVars   == <<edges, over, banner, asking, quiet>>
readVars   == <<reread, reading>>
partVars   == <<subVars, fileVars, searchVars, linkVars, readVars, calls, cur, nUses>>

First == CHOOSE t \in Tasks : \A u \in Tasks : t <= u
NewSub(parent) == [parent |-> parent, title |-> "old", done |-> FALSE, due |-> "none", remind |-> {}]
Counted == nUses < MaxUses /\ nUses' = nUses + 1
\* While a question is open nothing else can be clicked.
Use == Counted /\ asked = Nobody

Fields     == {"title", "done", "due"}
MarksOf(i) == {<<i, f, 0>> : f \in Fields} \cup {<<i, "remind", r>> : r \in Reminders}
Value(sub, m) == IF m[2] = "remind" THEN m[3] \in sub.remind ELSE sub[m[2]]

PartInit ==
  /\ subs = <<NewSub(0), NewSub(1)>> /\ shownSubs = subs
  /\ boxes = [i \in DOMAIN subs |-> [text |-> subs[i].title, typed |-> FALSE]]
  /\ asked = Nobody /\ calls = <<>> /\ lost = {}
  /\ owed = [m \in MarksOf(1) \cup MarksOf(2) |-> [value |-> Value(subs[m[1]], m), no |-> 0]]
  /\ files = [t \in Tasks |-> {t}] /\ kept = files /\ cur = First /\ list = files[cur]
  /\ upload = Nobody /\ removing = Nobody
  /\ box = "" /\ hits = {} /\ searches = <<>>
  /\ edges = [t \in Tasks |-> IF t = First THEN {CHOOSE x \in Others : TRUE} ELSE {}]
  /\ over = {} /\ banner = edges[cur] /\ asking = Nobody /\ quiet = FALSE
  /\ reread = FALSE /\ reading = Nobody
  /\ nUses = 0

-----------------------------------------------------------------------------
(* The subtasks.                                                           *)

Below(s, i) ==
  LET Under[n \in 0 .. Cardinality(DOMAIN s)] ==
        IF n = 0 THEN {i} \cap DOMAIN s ELSE {k \in DOMAIN s : k \in Under[n - 1] \/ s[k].parent \in Under[n - 1]}
  IN  Under[Cardinality(DOMAIN s)]
Depth(s, i) == Cardinality({k \in DOMAIN s : i \in Below(s, k)})

\* Without "crossing" a write waits for the others, without "stale" it begins at what the server has.
Careful ==
  /\ "crossing" \in Haste \/ calls = <<>>
  /\ "stale" \in Haste \/ shownSubs = subs

Write(op, id, patch, meant) ==
  calls' = Append(calls, [op |-> op, task |-> cur, id |-> id, patch |-> patch, meant |-> meant, no |-> nUses + 1,
                          state |-> "sent", subs |-> subs, files |-> {}])

AddSubtask(parent) ==
  /\ Use /\ cur = First /\ Careful
  /\ parent = 0 \/ parent \in DOMAIN shownSubs
  /\ parent # 0 => Depth(shownSubs, parent) <= Deepest
  /\ Write("add", parent, <<>>, <<>>)
  /\ UNCHANGED <<subVars, fileVars, searchVars, linkVars, readVars, cur>>

\* A tick, a day, a reminder more or less: of the subtask as it is shown.
Change(i, patch) ==
  /\ Use /\ cur = First /\ Careful
  /\ i \in DOMAIN shownSubs
  /\ LET told == {m \in MarksOf(i) : m[2] \in DOMAIN patch /\ Value(patch @@ shownSubs[i], m) # Value(shownSubs[i], m)}
     IN  Write("update", i, patch, [m \in told |-> Value(patch @@ shownSubs[i], m)])
  /\ UNCHANGED <<subVars, fileVars, searchVars, linkVars, readVars, cur>>
Patches(i) ==
  {[done |-> ~shownSubs[i].done], [due |-> "today"]} \cup
  {[remind |-> SymDiff(shownSubs[i].remind, {r})] : r \in Reminders}

\* The input of a title is left.  What stands in it is saved when it is not the title shown,
\* whether the user has typed it or not.
LeaveTitle(i, text) ==
  /\ Use /\ cur = First /\ Careful
  /\ i \in DOMAIN shownSubs /\ text # ""
  /\ LET typed == text # boxes[i].text \/ boxes[i].typed IN
     /\ boxes' = [boxes EXCEPT ![i] = [text |-> text, typed |-> typed]]
     /\ IF text = shownSubs[i].title THEN UNCHANGED calls
        ELSE Write("update", i, [title |-> text], IF typed THEN <<i, "title", 0>> :> text ELSE <<>>)
  /\ UNCHANGED <<subs, shownSubs, asked, owed, lost, fileVars, searchVars, linkVars, readVars, cur>>

AskDelete(i) ==
  /\ Use /\ cur = First /\ Careful
  /\ i \in DOMAIN shownSubs
  /\ asked' = [id |-> i, told |-> Below(shownSubs, i)]
  /\ UNCHANGED <<subs, shownSubs, boxes, owed, lost, fileVars, searchVars, linkVars, readVars, calls, cur>>
AnswerDelete(yes) ==
  /\ asked # Nobody /\ asked' = Nobody
  /\ IF yes THEN Write("delete", asked.id, asked.told, <<>>) ELSE UNCHANGED calls
  /\ UNCHANGED <<subs, shownSubs, boxes, owed, lost, fileVars, searchVars, linkVars, readVars, cur, nUses>>

-----------------------------------------------------------------------------
(* The server.                                                             *)

Sent(i, op) == i \in DOMAIN calls /\ calls[i].state = "sent" /\ calls[i].op = op

\* Without "overtaken" nothing is written between the read that follows a write and its answer.
Quiescent == "overtaken" \in Haste \/ \A i \in DOMAIN calls : calls[i].state # "read"

Done(i)    == calls' = [calls EXCEPT ![i].state = "taken"]
Refused(i) == calls' = RemoveAt(calls, i)

Note(meant, no) ==
  owed' = [m \in DOMAIN owed |-> IF m \in DOMAIN meant /\ no > owed[m].no THEN [value |-> meant[m], no |-> no] ELSE owed[m]]
Made(k) == [m \in MarksOf(k) |-> [value |-> Value(NewSub(0), m), no |-> 0]]

\* A subtask whose parent is gone is refused.
ServerAdds(i) ==
  /\ Sent(i, "add") /\ Quiescent
  /\ LET parent == calls[i].id
         k      == Cardinality(DOMAIN owed) \div Cardinality(MarksOf(1)) + 1
     IN  IF parent = 0 \/ parent \in DOMAIN subs
         THEN /\ k <= MaxSubs
              /\ subs' = subs @@ k :> NewSub(parent) /\ owed' = owed @@ Made(k)
              /\ Done(i) /\ reread' = TRUE
         ELSE Refused(i) /\ UNCHANGED <<subs, owed, reread>>
  /\ UNCHANGED <<shownSubs, boxes, asked, lost, fileVars, searchVars, linkVars, reading, cur, nUses>>

ServerUpdates(i) ==
  /\ Sent(i, "update") /\ Quiescent
  /\ LET c == calls[i]
     IN  IF c.id \in DOMAIN subs
         THEN /\ subs' = [subs EXCEPT ![c.id] = c.patch @@ @] /\ Note(c.meant, c.no)
              /\ Done(i) /\ reread' = TRUE
         ELSE Refused(i) /\ UNCHANGED <<subs, owed, reread>>
  /\ UNCHANGED <<shownSubs, boxes, asked, lost, fileVars, searchVars, linkVars, reading, cur, nUses>>

\* With a subtask goes all that is below it.  One that is gone already is no error, and no news.
ServerDeletes(i) ==
  /\ Sent(i, "delete") /\ Quiescent
  /\ LET gone == Below(subs, calls[i].id)
     IN  /\ subs' = [k \in DOMAIN subs \ gone |-> subs[k]]
         /\ lost' = lost \cup {[told |-> calls[i].patch, gone |-> gone]}
         /\ reread' = (gone # {} \/ reread)
  /\ Done(i)
  /\ UNCHANGED <<shownSubs, boxes, asked, owed, fileVars, searchVars, linkVars, reading, cur, nUses>>

\* Links are made and removed without a word to any page.
ServerLinks(i) ==
  /\ i \in DOMAIN calls /\ calls[i].state = "sent" /\ calls[i].op \in {"link", "unlink"} /\ Quiescent
  /\ LET c == calls[i]
     IN  edges' = [edges EXCEPT ![c.task] = IF c.op = "link" THEN @ \cup {c.id} ELSE @ \ {c.id}]
  /\ quiet' = TRUE /\ Done(i)
  /\ UNCHANGED <<subVars, fileVars, searchVars, over, banner, asking, readVars, cur, nUses>>

\* The write has been answered and the page reads the task.
TaskIsRead(i) ==
  /\ i \in DOMAIN calls /\ calls[i].state = "taken"
  /\ calls' = [calls EXCEPT ![i].state = "read", ![i].subs = subs, ![i].files = files[calls[i].task]]
  /\ UNCHANGED <<subVars, fileVars, searchVars, linkVars, readVars, cur, nUses>>

\* An input that was there keeps its text; what was typed is no longer new once it is the title.
Boxes(s) ==
  [k \in DOMAIN s |-> IF k \in DOMAIN boxes THEN [boxes[k] EXCEPT !.typed = @ /\ boxes[k].text # s[k].title]
                      ELSE [text |-> s[k].title, typed |-> FALSE]]

\* The task as it was read is shown; a link that was made ends the search for it.
TaskIsShown(i) ==
  /\ i \in DOMAIN calls /\ calls[i].state = "read"
  /\ LET c == calls[i] IN
     /\ shownSubs' = c.subs /\ boxes' = Boxes(c.subs)
     /\ kept' = [kept EXCEPT ![c.task] = c.files]
     /\ list' = IF cur = c.task THEN c.files ELSE list
     /\ IF c.op = "link" THEN box' = "" /\ hits' = {} ELSE UNCHANGED <<box, hits>>
  /\ calls' = RemoveAt(calls, i)
  /\ UNCHANGED <<subs, asked, owed, lost, files, upload, removing, searches, linkVars, readVars, cur, nUses>>

\* A request that fails is said, and nothing else.
WriteFails(i) ==
  /\ i \in DOMAIN calls /\ calls[i].state = "sent"
  /\ calls' = RemoveAt(calls, i)
  /\ UNCHANGED <<subVars, fileVars, searchVars, linkVars, readVars, cur, nUses>>

\* Another device ticks, renames, adds or deletes a subtask, or ticks off a task that blocks.
OtherDevice ==
  /\ Counted /\ Quiescent
  /\ "crossing" \in Haste \/ \A i \in DOMAIN calls : calls[i].state # "sent"
  /\ reread' = TRUE
  /\ \/ \E k \in DOMAIN subs :
          /\ \E p \in {[done |-> TRUE], [remind |-> Reminders]} \cup (IF "renamed" \in Haste THEN {[title |-> "other"]} ELSE {}) :
               /\ subs' = [subs EXCEPT ![k] = p @@ @]
               /\ Note([m \in {n \in MarksOf(k) : n[2] \in DOMAIN p} |-> Value(subs'[k], m)], nUses + 1)
          /\ UNCHANGED over
     \/ /\ \E k \in DOMAIN subs, n \in {Cardinality(DOMAIN owed) \div Cardinality(MarksOf(1)) + 1} :
             /\ "grew" \in Haste \/ asked = Nobody
             /\ n <= MaxSubs
             /\ subs' = subs @@ n :> NewSub(k) /\ owed' = owed @@ Made(n)
        /\ UNCHANGED over
     \/ /\ \E x \in Others : over' = SymDiff(over, {x})
        /\ UNCHANGED <<subs, owed>>
  /\ UNCHANGED <<shownSubs, boxes, asked, lost, fileVars, searchVars, edges, banner, asking, quiet, reading, calls, cur>>

-----------------------------------------------------------------------------
(* The files.                                                              *)

\* The button waits for an upload to end; several files go one after the other.
Upload(n) ==
  /\ Use /\ upload = Nobody
  /\ "crossing" \notin Haste => removing = Nobody
  /\ upload' = [task |-> cur, left |-> n, saved |-> 0]
  /\ UNCHANGED <<subVars, files, kept, list, removing, searchVars, linkVars, readVars, calls, cur>>

\* Without "crossing" no read is under way when a file is saved or deleted.
Unread == "crossing" \in Haste \/ (reading = Nobody /\ \A i \in DOMAIN calls : calls[i].state # "read")

FileIsSaved ==
  /\ upload # Nobody /\ upload.saved = 0 /\ Unread
  /\ LET f == Cardinality(Tasks) + Cardinality(UNION {files[t] : t \in Tasks}) + nUses
     IN  files' = [files EXCEPT ![upload.task] = @ \cup {f}] /\ upload' = [upload EXCEPT !.saved = f]
  /\ UNCHANGED <<subVars, kept, list, removing, searchVars, linkVars, readVars, calls, cur, nUses>>

\* The answer goes to the list that is shown.
UploadAnswered ==
  /\ upload # Nobody /\ upload.saved # 0
  /\ list' = list \cup {upload.saved}
  /\ upload' = IF upload.left = 1 THEN Nobody ELSE [upload EXCEPT !.left = @ - 1, !.saved = 0]
  /\ UNCHANGED <<subVars, files, kept, removing, searchVars, linkVars, readVars, calls, cur, nUses>>

\* The first that fails ends it.
UploadFails ==
  /\ upload # Nobody /\ upload.saved = 0
  /\ upload' = Nobody
  /\ UNCHANGED <<subVars, files, kept, list, removing, searchVars, linkVars, readVars, calls, cur, nUses>>

RemoveFile(f) ==
  /\ Use /\ removing = Nobody /\ f \in list
  /\ "crossing" \notin Haste => upload = Nobody
  /\ removing' = [id |-> f, gone |-> FALSE]
  /\ UNCHANGED <<subVars, files, kept, list, upload, searchVars, linkVars, readVars, calls, cur>>
FileIsDeleted ==
  /\ removing # Nobody /\ ~removing.gone /\ Unread
  /\ files' = [t \in Tasks |-> files[t] \ {removing.id}]
  /\ removing' = [removing EXCEPT !.gone = TRUE]
  /\ UNCHANGED <<subVars, kept, list, upload, searchVars, linkVars, readVars, calls, cur, nUses>>
RemoveAnswered ==
  /\ removing # Nobody /\ removing' = Nobody
  /\ list' = IF removing.gone THEN list \ {removing.id} ELSE list
  /\ UNCHANGED <<subVars, files, kept, upload, searchVars, linkVars, readVars, calls, cur, nUses>>

\* Another task in the same panel: the list is the store's, the line on top is asked for again.
\* Without "switch" nothing of the panel is under way and the store has what was uploaded.
Switch(t) ==
  /\ Use /\ t # cur
  /\ "switch" \notin Haste => upload = Nobody /\ removing = Nobody /\ searches = <<>> /\ box = "" /\ calls = <<>> /\ kept = files
  /\ cur' = t /\ list' = kept[t]
  /\ asking' = [of |-> t, got |-> Nobody] /\ quiet' = FALSE
  /\ UNCHANGED <<subVars, files, kept, upload, removing, searchVars, edges, over, banner, readVars, calls>>

-----------------------------------------------------------------------------
(* The search, the links, the line on top.                                 *)

\* Every key asks; an empty text clears at once and asks nothing.
TypeSearch(q) ==
  /\ Use /\ q # box
  /\ "overtake" \notin Haste => (q # "" \/ searches = <<>>) /\ \A i \in DOMAIN calls : calls[i].op \notin {"link", "unlink"}
  /\ box' = q
  /\ IF q = "" THEN hits' = {} /\ UNCHANGED searches
     ELSE searches' = Append(searches, [q |-> q, without |-> edges[cur]]) /\ UNCHANGED hits
  /\ UNCHANGED <<subVars, fileVars, linkVars, readVars, calls, cur>>

\* Answers have no number.  Without "overtake" they come in their order.
SearchAnswered(i) ==
  /\ i \in DOMAIN searches
  /\ "overtake" \notin Haste => i = 1
  /\ hits' = Found[searches[i].q] \ searches[i].without
  /\ searches' = RemoveAt(searches, i)
  /\ UNCHANGED <<subVars, fileVars, box, linkVars, readVars, calls, cur, nUses>>

AddTaskLink(x) ==
  /\ Use /\ Careful /\ x \in hits
  /\ "overtake" \notin Haste => searches = <<>>
  /\ Write("link", x, <<>>, <<>>)
  /\ UNCHANGED <<subVars, fileVars, searchVars, linkVars, readVars, cur>>
RemoveTaskLink(x) ==
  /\ Use /\ Careful /\ x \in edges[cur]
  /\ "overtake" \notin Haste => searches = <<>> /\ box = ""
  /\ Write("unlink", x, <<>>, <<>>)
  /\ UNCHANGED <<subVars, fileVars, searchVars, linkVars, readVars, cur>>

BlockersRead ==
  /\ asking # Nobody /\ asking.got = Nobody
  /\ asking' = [asking EXCEPT !.got = {edges[asking.of] \ over}]
  /\ UNCHANGED <<subVars, fileVars, searchVars, edges, over, banner, quiet, readVars, calls, cur, nUses>>
BlockersShown ==
  /\ asking # Nobody /\ asking.got # Nobody
  /\ banner' = UNION asking.got /\ asking' = Nobody
  /\ UNCHANGED <<subVars, fileVars, searchVars, edges, over, quiet, readVars, calls, cur, nUses>>

-----------------------------------------------------------------------------
\* Told of a change, the page reads its tasks, and asks again what blocks the one shown; what
\* it had asked before is not listened to any more.
ReadTasks ==
  /\ reread /\ reading = Nobody
  /\ reread' = FALSE /\ reading' = [subs |-> subs, files |-> files]
  /\ asking' = [of |-> cur, got |-> Nobody] /\ quiet' = FALSE
  /\ UNCHANGED <<subVars, fileVars, searchVars, edges, over, banner, calls, cur, nUses>>

TasksShown ==
  /\ reading # Nobody /\ reading' = Nobody
  /\ shownSubs' = reading.subs /\ boxes' = Boxes(reading.subs)
  /\ kept' = reading.files /\ list' = reading.files[cur]
  /\ UNCHANGED <<subs, asked, owed, lost, files, upload, removing, searchVars, linkVars, reread, calls, cur, nUses>>

PartNext ==
  \/ \E i \in 0 .. MaxSubs : AddSubtask(i)
  \/ \E i \in DOMAIN shownSubs : \/ \E p \in Patches(i) : Change(i, p)
                                 \/ \E x \in {boxes[i].text, "new"} : LeaveTitle(i, x)
                                 \/ AskDelete(i)
  \/ \E yes \in BOOLEAN : AnswerDelete(yes)
  \/ \E i \in DOMAIN calls : \/ ServerAdds(i) \/ ServerUpdates(i) \/ ServerDeletes(i) \/ ServerLinks(i)
                              \/ TaskIsRead(i) \/ TaskIsShown(i) \/ WriteFails(i)
  \/ \E n \in 1 .. 2 : Upload(n)
  \/ \E f \in list : RemoveFile(f)
  \/ FileIsSaved \/ UploadAnswered \/ UploadFails \/ FileIsDeleted \/ RemoveAnswered
  \/ \E t \in Tasks : Switch(t)
  \/ \E q \in Queries \cup {""} : TypeSearch(q)
  \/ \E i \in DOMAIN searches : SearchAnswered(i)
  \/ \E x \in Others : AddTaskLink(x) \/ RemoveTaskLink(x)
  \/ OtherDevice \/ BlockersRead \/ BlockersShown \/ ReadTasks \/ TasksShown

PartSpec == PartInit /\ [][PartNext]_partVars

-----------------------------------------------------------------------------
PartTypeOK ==
  /\ DOMAIN subs \subseteq 1 .. MaxSubs /\ DOMAIN shownSubs \subseteq 1 .. MaxSubs
  /\ DOMAIN boxes = DOMAIN shownSubs
  /\ \A i \in DOMAIN calls : /\ calls[i].op \in {"add", "update", "delete", "link", "unlink"}
                             /\ calls[i].state \in {"sent", "taken", "read"}
  /\ cur \in Tasks /\ hits \subseteq Others /\ banner \subseteq Others
  /\ box \in Queries \cup {""} /\ reread \in BOOLEAN /\ quiet \in BOOLEAN /\ nUses \in 0 .. MaxUses

AtRest == calls = <<>> /\ ~reread /\ reading = Nobody

\* Each mark of a subtask is what was last meant, and none hangs in the air.
SubsAsMeant ==
  \A i \in DOMAIN subs :
    /\ subs[i].parent = 0 \/ subs[i].parent \in DOMAIN subs
    /\ \A m \in MarksOf(i) : Value(subs[i], m) = owed[m].value

\* A deletion takes with it what the question counted, nothing more.
DeletedAsTold == \A d \in lost : d.gone \subseteq d.told

\* Where nothing is under way the panel shows what the server has.
PartsShown ==
  /\ AtRest => shownSubs = subs
  /\ AtRest /\ upload = Nobody /\ removing = Nobody => list = files[cur]

\* The hits are those of the text that stands in the box.
HitsFit == searches = <<>> /\ calls = <<>> => hits = IF box = "" THEN {} ELSE Found[box] \ edges[cur]

\* The line on top names what blocks the task, once it was asked for after the last link.
BannerFits == AtRest /\ asking = Nobody /\ ~quiet => banner = edges[cur] \ over
=============================================================================
