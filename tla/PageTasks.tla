------------------------------ MODULE PageTasks ------------------------------
(***************************************************************************)
(* The list of tasks a page shows (web/src/store/AppStore.tsx): where the   *)
(* user is, the requests for the list that are under way, the writes whose  *)
(* answers patch it, the debounced reconciliation, the box of the search    *)
(* and the change stream that tells the page of writes made elsewhere.      *)
(*                                                                          *)
(* A place is a list of the sidebar or the search.  React keeps, in every   *)
(* function that waits for an answer, the place of the render in which the  *)
(* function was made: a record View is that captured place, and a timer, a  *)
(* request or a write carries one.  Writes that the network fails go to the *)
(* outbox, which Outbox models; here a write reaches the server.            *)
(***************************************************************************)
EXTENDS Naturals

CONSTANTS
  Tasks,        \* the tasks that may exist
  Lists,        \* the lists of the sidebar
  Search,       \* the place that shows the tasks a word is found in
  Home,         \* the list shown first (DEFAULT_SELECTION)
  StoredHide,   \* the setting "hide completed" as the server has it at the load
  Kinds,        \* the writes the page makes, of {"toggle","move","delete","add","sub"}
  Admitted,     \* of {"leave_early","type_and_go","clear_idle","filter_in_search","late_read","cut","fetch_fails"}
  HubSize,      \* messages the server keeps for a slow stream (16 in the code)
  NoView, NoAnswer, Refused, Ok,  \* model values: no timer; not answered yet; answers without a row
  MaxEvents     \* bound: writes, changes of the place, streams cut and requests failed

ASSUME PageAssumption ==
  /\ Home \in Lists /\ StoredHide \in BOOLEAN /\ HubSize \in Nat
  /\ Kinds \subseteq {"toggle", "move", "delete", "add", "sub"}

VARIABLES
  rows,         \* the server's task table
  loading,      \* the page waits for its first answer (bootstrap)
  selection,    \* the chosen entry of the sidebar, or Search
  keyword,      \* is a word being searched?
  preSearch,    \* ref: the entry to return to when the word is cleared
  showHidden,   \* settings.showCompleted, negated: completed tasks are hidden
  shown,        \* the rows of the list on the screen (tasks)
  tasksLoading, \* the spinner of the list
  requests,     \* requests for the list whose promise is not yet settled
  timer,        \* the 220 ms debounce of reconcile: the View of its closure
  writes,       \* writes waiting for the server or for the page
  box,          \* the 250 ms debounce of the search box
  hub,          \* change messages on their way to the page
  streamUp,     \* is the change stream connected?
  chosen,       \* history: the place the user last asked for
  missed,       \* history: a change since the list was last read, told by no message
  failed,       \* history: the last request for the list failed
  nEvents

pageVars == <<rows, loading, selection, keyword, preSearch, showHidden, shown,
              tasksLoading, requests, timer, writes, box, hub, streamUp,
              chosen, missed, failed, nEvents>>

Places   == Lists \cup {Search}
View     == [place : Places, hide : BOOLEAN]
Gone     == [list |-> "none", done |-> FALSE]
Row      == [list : Lists, done : BOOLEAN]
Shown    == [id : Tasks, list : Lists, done : BOOLEAN]
Request  == [view : View, answer : (SUBSET Shown) \cup {NoAnswer}, newest : BOOLEAN]

ASSUME AnswerAssumption == \A rowsShown \in SUBSET Shown : rowsShown # NoAnswer
ASSUME TokenAssumption  == Search \notin Lists /\ NoView \notin View /\ NoAnswer \notin Shown \cup {Refused, Ok}

-----------------------------------------------------------------------------
(* What a place holds, and what of it is shown.                             *)

Card(t) == [id |-> t, list |-> rows[t].list, done |-> rows[t].done]

\* The server's answer to queryFor, less what the page filters out of it.
Content(v) ==
  {Card(t) : t \in {u \in Tasks : /\ rows[u] # Gone
                                  /\ v.place \in {Search, rows[u].list}
                                  /\ ~(v.hide /\ rows[u].done)}}

\* queryFor: a word that is being searched wins over the entry of the sidebar.
ViewOf(where, word, hide) ==
  [place |-> IF word THEN Search ELSE where, hide |-> hide]

Current == ViewOf(selection, keyword, showHidden)

\* patchLocalTask: the row replaces the one with its id, and is never added.
Patched(row)   == {IF s.id = row.id THEN row ELSE s : s \in shown}
Removed(t)     == {s \in shown : s.id # t}
Flipped(t)     == {IF s.id = t THEN [s EXCEPT !.done = ~@] ELSE s : s \in shown}

\* Mutant: no number is compared.
RefreshTasks_NoSeq(v) ==
  /\ requests' = requests \cup {[view |-> v, answer |-> NoAnswer, newest |-> TRUE]}
  /\ tasksLoading' = TRUE

\* refreshTasks of a closure that captured v: it takes the newest number and
\* aborts the request before it; one already answered finds its number old.
RefreshTasks(v) ==
  /\ requests' = {[r EXCEPT !.newest = FALSE] : r \in {q \in requests : q.answer # NoAnswer}}
                   \cup {[view |-> v, answer |-> NoAnswer, newest |-> TRUE]}
  /\ tasksLoading' = TRUE

\* Mutant: the list is not read again.
Reconcile_Not(v) == v \in View /\ UNCHANGED timer

\* reconcile of a closure that captured v.
Reconcile(v) == timer' = v

\* store.emit and broadcast: one message to every open stream, dropped when
\* the stream's buffer is full.
Announce ==
  IF streamUp /\ hub < HubSize
  THEN hub' = hub + 1 /\ UNCHANGED missed
  ELSE missed' = (missed \/ ~streamUp) /\ UNCHANGED hub

-----------------------------------------------------------------------------
(* The load.  The list is asked for at once, with the settings of a page    *)
(* that knows none; the effect that follows the place of the user skips its *)
(* first run, because that request is already on its way.                   *)

Init ==
  /\ rows \in [Tasks -> Row \cup {Gone}]
  /\ loading = TRUE
  /\ selection = Home /\ keyword = FALSE /\ preSearch = Home
  /\ showHidden = FALSE
  /\ shown = {} /\ tasksLoading = TRUE
  /\ requests = {[view |-> ViewOf(Home, FALSE, FALSE), answer |-> NoAnswer, newest |-> TRUE]}
  /\ timer = NoView /\ writes = {} /\ box = "idle"
  /\ hub = 0 /\ streamUp = FALSE
  /\ chosen = Home /\ missed = FALSE /\ failed = FALSE
  /\ nEvents = 0

FirstAnswer ==
  /\ loading
  /\ loading' = FALSE
  /\ showHidden' = StoredHide
  /\ streamUp' = TRUE
  /\ UNCHANGED <<rows, selection, keyword, preSearch, shown, tasksLoading, requests, timer,
                 writes, box, hub, chosen, missed, failed, nEvents>>

-----------------------------------------------------------------------------
(* Requests for the list.                                                   *)

ServerAnswers(r) ==
  /\ r.answer = NoAnswer
  /\ requests' = (requests \ {r}) \cup {[r EXCEPT !.answer = Content(r.view)]}
  /\ missed' = FALSE
  /\ UNCHANGED <<rows, loading, selection, keyword, preSearch, showHidden, shown, tasksLoading,
                 timer, writes, box, hub, streamUp, chosen, failed, nEvents>>

\* Mutant: any answer stops the spinner.
ListLands_Stops(r) ==
  /\ r.answer # NoAnswer
  /\ requests' = requests \ {r}
  /\ tasksLoading' = FALSE
  /\ IF r.newest THEN shown' = r.answer /\ failed' = FALSE ELSE UNCHANGED <<shown, failed>>
  /\ UNCHANGED <<rows, loading, selection, keyword, preSearch, showHidden, timer, writes, box,
                 hub, streamUp, chosen, missed, nEvents>>

\* The answer reaches refreshTasks; only the newest request may show its own.
ListLands(r) ==
  /\ r.answer # NoAnswer
  /\ requests' = requests \ {r}
  /\ IF r.newest
     THEN shown' = r.answer /\ tasksLoading' = FALSE /\ failed' = FALSE
     ELSE UNCHANGED <<shown, tasksLoading, failed>>
  /\ UNCHANGED <<rows, loading, selection, keyword, preSearch, showHidden, timer, writes, box,
                 hub, streamUp, chosen, missed, nEvents>>

FetchFails(r) ==
  /\ "fetch_fails" \in Admitted /\ nEvents < MaxEvents
  /\ r.answer = NoAnswer
  /\ requests' = requests \ {r}
  /\ tasksLoading' = FALSE /\ failed' = TRUE
  /\ nEvents' = nEvents + 1
  /\ UNCHANGED <<rows, loading, selection, keyword, preSearch, showHidden, shown, timer, writes,
                 box, hub, streamUp, chosen, missed>>

\* The debounce of reconcile runs out: refreshTasks of the closure that set it.
TimerFires ==
  /\ timer # NoView
  /\ RefreshTasks(timer)
  /\ timer' = NoView
  /\ UNCHANGED <<rows, loading, selection, keyword, preSearch, showHidden, shown, writes, box,
                 hub, streamUp, chosen, missed, failed, nEvents>>

-----------------------------------------------------------------------------
(* Where the user is.  With "leave_early" he may go elsewhere while the     *)
(* closure of an earlier render still has something to do.                  *)

Elsewhere ==
  ~loading /\ ("leave_early" \in Admitted \/ (timer = NoView /\ writes = {}))

MayMove ==
  /\ Elsewhere
  /\ nEvents < MaxEvents /\ nEvents' = nEvents + 1
  /\ "type_and_go" \in Admitted \/ box = "idle"

\* The place changes, and the effect that depends on refreshTasks runs it.
GoTo(where, word, hide) ==
  /\ selection' = where /\ keyword' = word /\ showHidden' = hide
  /\ RefreshTasks(ViewOf(where, word, hide))
  /\ UNCHANGED <<rows, loading, shown, timer, writes, hub, streamUp, missed, failed>>

Select(l) ==
  /\ MayMove
  /\ GoTo(l, FALSE, showHidden)
  /\ chosen' = l
  /\ UNCHANGED <<preSearch, box>>

\* A saved filter with a scope sets the entry of the sidebar, not the word.
ApplySavedFilter(l) ==
  /\ MayMove
  /\ "filter_in_search" \in Admitted \/ ~keyword
  /\ GoTo(l, keyword, showHidden)
  /\ chosen' = l
  /\ UNCHANGED <<preSearch, box>>

ToggleShowCompleted ==
  /\ MayMove
  /\ GoTo(selection, keyword, ~showHidden)
  /\ UNCHANGED <<preSearch, chosen, box>>

\* The search box: each key arms the debounce anew, with the text as it is.
Type(text) ==
  /\ Elsewhere
  /\ nEvents < MaxEvents /\ nEvents' = nEvents + 1
  /\ "clear_idle" \in Admitted \/ text = "word" \/ keyword
  /\ box' = text
  /\ chosen' = IF text = "word" THEN Search ELSE IF keyword THEN preSearch ELSE selection
  /\ UNCHANGED <<rows, loading, selection, keyword, preSearch, showHidden, shown, tasksLoading,
                 requests, timer, writes, hub, streamUp, missed, failed>>

\* setKeyword: the first word of a search notes where the user came from, and
\* an empty text returns there.
SetKeyword(text) ==
  IF text = "word"
  THEN /\ preSearch' = IF selection = Search THEN preSearch ELSE selection
       /\ GoTo(Search, TRUE, showHidden)
  ELSE /\ GoTo(preSearch, FALSE, showHidden)
       /\ UNCHANGED preSearch

BoxFires ==
  /\ box # "idle"
  /\ Elsewhere
  /\ SetKeyword(box)
  /\ box' = "idle"
  /\ UNCHANGED <<chosen, nEvents>>

\* Escape, or the cross of the box: at once, and the debounce is cancelled.
Clear ==
  /\ Elsewhere
  /\ nEvents < MaxEvents /\ nEvents' = nEvents + 1
  /\ "clear_idle" \in Admitted \/ keyword
  /\ SetKeyword("")
  /\ box' = "idle"
  /\ chosen' = IF keyword THEN preSearch ELSE selection

-----------------------------------------------------------------------------
(* Writes of this page.                                                     *)

Write == [kind : Kinds, task : Tasks, view : View,
          stage : {"sent", "read", "answered"}, answer : Shown \cup {NoAnswer, Refused, Ok}]

\* toggleTask flips the row before the server has said anything.
Send(kind, t) ==
  /\ ~loading
  /\ nEvents < MaxEvents /\ nEvents' = nEvents + 1
  /\ kind = "add" \/ \E s \in shown : s.id = t
  /\ writes' = writes \cup {[kind |-> kind, task |-> t, view |-> Current,
                             stage |-> "sent", answer |-> NoAnswer]}
  /\ shown' = IF kind = "toggle" THEN Flipped(t) ELSE shown
  /\ UNCHANGED <<rows, loading, selection, keyword, preSearch, showHidden, tasksLoading, requests,
                 timer, box, hub, streamUp, chosen, missed, failed>>

\* Without "late_read" the task read for a subtask is on the page before the
\* server changes again: nothing is read after that answer.
NoReadOut ==
  "late_read" \in Admitted \/ \A w \in writes : w.kind # "sub" \/ w.stage # "answered"

Outcomes(kind, t, at) ==
  CASE kind = "toggle" -> {[rows[t] EXCEPT !.done = ~@]}
    [] kind = "move"   -> {[rows[t] EXCEPT !.list = l] : l \in Lists}
    [] kind = "delete" -> {Gone}
    [] kind = "add"    -> {[list |-> IF at \in Lists THEN at ELSE Home, done |-> FALSE]}
    [] kind = "sub"    -> {rows[t]}

\* The server refuses a task it has not; a write it takes is announced.
ServerWrites(w) ==
  /\ w.stage = "sent"
  /\ NoReadOut
  /\ LET take(row, ans) ==
           /\ rows' = [rows EXCEPT ![w.task] = row]
           /\ Announce
           /\ writes' = (writes \ {w}) \cup
                {[w EXCEPT !.stage = IF w.kind = "sub" THEN "read" ELSE "answered", !.answer = ans]}
         card(row) == [id |-> w.task, list |-> row.list, done |-> row.done]
     IN  IF (rows[w.task] = Gone) # (w.kind = "add")
         THEN /\ writes' = (writes \ {w}) \cup {[w EXCEPT !.stage = "answered", !.answer = Refused]}
              /\ UNCHANGED <<rows, hub, missed>>
         ELSE \E row \in Outcomes(w.kind, w.task, w.view.place) :
                take(row, CASE w.kind \in {"toggle", "move"} -> card(row)
                            [] w.kind = "sub" -> NoAnswer
                            [] OTHER -> Ok)
  /\ UNCHANGED <<loading, selection, keyword, preSearch, showHidden, shown, tasksLoading, requests,
                 timer, box, streamUp, chosen, failed, nEvents>>

\* After a write to a subtask or a link the page reads its task again.
ServerReads(w) ==
  /\ w.stage = "read"
  /\ writes' = (writes \ {w}) \cup
       {[w EXCEPT !.stage = "answered",
                  !.answer = IF rows[w.task] = Gone THEN Refused ELSE Card(w.task)]}
  /\ UNCHANGED <<rows, loading, selection, keyword, preSearch, showHidden, shown, tasksLoading,
                 requests, timer, box, hub, streamUp, chosen, missed, failed,
                 nEvents>>

\* The answer reaches the function that waits for it: the row is patched in,
\* and the reconciliation of the captured closure is set; a refused toggle is
\* taken back by reading the list again.
AnswerLands(w) ==
  /\ w.stage = "answered"
  /\ writes' = writes \ {w}
  /\ IF w.answer = Refused
     THEN /\ IF w.kind = "toggle" THEN RefreshTasks(w.view) ELSE UNCHANGED <<requests, tasksLoading>>
          /\ UNCHANGED <<shown, timer>>
     ELSE /\ shown' = CASE w.kind = "delete" -> Removed(w.task)
                        [] w.kind = "add"    -> shown
                        [] OTHER             -> Patched(w.answer)
          /\ IF w.kind = "sub" THEN UNCHANGED timer ELSE Reconcile(w.view)
          /\ UNCHANGED <<requests, tasksLoading>>
  /\ UNCHANGED <<rows, loading, selection, keyword, preSearch, showHidden, box, hub, streamUp,
                 chosen, missed, failed, nEvents>>

-----------------------------------------------------------------------------
(* Changes made elsewhere, and the stream that tells of them.               *)

OtherDeviceWrites(t, row) ==
  /\ nEvents < MaxEvents /\ nEvents' = nEvents + 1
  /\ row # rows[t]
  /\ NoReadOut
  /\ rows' = [rows EXCEPT ![t] = row]
  /\ Announce
  /\ UNCHANGED <<loading, selection, keyword, preSearch, showHidden, shown, tasksLoading, requests,
                 timer, writes, box, streamUp, chosen, failed>>

\* onmessage uses the reconcile of the latest render.
MessageArrives ==
  /\ hub > 0
  /\ hub' = hub - 1
  /\ Reconcile(Current)
  /\ UNCHANGED <<rows, loading, selection, keyword, preSearch, showHidden, shown, tasksLoading,
                 requests, writes, box, streamUp, chosen, missed, failed,
                 nEvents>>

\* The stream breaks with what it carried; nothing is read anew when it is back.
StreamCut ==
  /\ "cut" \in Admitted /\ nEvents < MaxEvents
  /\ streamUp
  /\ streamUp' = FALSE
  /\ missed' = (missed \/ hub > 0)
  /\ hub' = 0
  /\ nEvents' = nEvents + 1
  /\ UNCHANGED <<rows, loading, selection, keyword, preSearch, showHidden, shown, tasksLoading,
                 requests, timer, writes, box, chosen, failed>>

StreamBack ==
  /\ ~loading /\ ~streamUp
  /\ streamUp' = TRUE
  /\ UNCHANGED <<rows, loading, selection, keyword, preSearch, showHidden, shown, tasksLoading,
                 requests, timer, writes, box, hub, chosen, missed, failed,
                 nEvents>>

-----------------------------------------------------------------------------
PageNext ==
  \/ FirstAnswer
  \/ \E r \in requests : ServerAnswers(r) \/ ListLands(r) \/ FetchFails(r)
  \/ TimerFires
  \/ \E l \in Lists : Select(l) \/ ApplySavedFilter(l)
  \/ ToggleShowCompleted
  \/ \E text \in {"word", ""} : Type(text)
  \/ BoxFires \/ Clear
  \/ \E kind \in Kinds, t \in Tasks : Send(kind, t)
  \/ \E w \in writes : ServerWrites(w) \/ ServerReads(w) \/ AnswerLands(w)
  \/ \E t \in Tasks, row \in Row \cup {Gone} : OtherDeviceWrites(t, row)
  \/ MessageArrives \/ StreamCut \/ StreamBack

PageSpec == Init /\ [][PageNext]_pageVars

\* Timers run out, requests are answered, messages and connections arrive;
\* nobody has to press a key, and nothing has to fail.
PageFairness ==
  /\ WF_pageVars(FirstAnswer)
  /\ WF_pageVars(\E r \in requests : ServerAnswers(r) \/ ListLands(r))
  /\ WF_pageVars(TimerFires) /\ WF_pageVars(BoxFires)
  /\ WF_pageVars(\E w \in writes : ServerWrites(w) \/ ServerReads(w) \/ AnswerLands(w))
  /\ WF_pageVars(MessageArrives) /\ WF_pageVars(StreamBack)

-----------------------------------------------------------------------------
PageTypeOK ==
  /\ rows \in [Tasks -> Row \cup {Gone}]
  /\ {loading, keyword, showHidden, tasksLoading, streamUp, missed, failed} \subseteq BOOLEAN
  /\ selection \in Places /\ preSearch \in Lists /\ chosen \in Places
  /\ shown \subseteq Shown
  /\ requests \subseteq Request
  /\ timer \in View \cup {NoView}
  /\ writes \subseteq Write
  /\ box \in {"idle", "word", ""}
  /\ hub \in 0 .. HubSize

\* Nothing is under way that could still change the list.
Quiet == ~loading /\ requests = {} /\ timer = NoView /\ writes = {} /\ box = "idle" /\ hub = 0

\* Once everything has come to rest the list on the screen is the one the
\* server has for the place the user asked for: no optimistic flip is left
\* over, no answer of an overtaken request stands, and a message dropped at a
\* full buffer did no harm (a change nobody told of, and a failed last
\* request, are excused).
ListAgrees ==
  Quiet /\ ~missed /\ ~failed
    => shown = Content(ViewOf(chosen, FALSE, showHidden))

\* The spinner of the list turns exactly while the newest request is under way,
\* although each request sets it and an overtaken one must not stop it.
SpinnerTrue == tasksLoading <=> \E r \in requests : r.newest

\* A write, here or on another device, is on the screen in the end.
ChangeReachesPage ==
  <>[](missed \/ failed \/ shown = Content(ViewOf(chosen, FALSE, showHidden)))
=============================================================================
