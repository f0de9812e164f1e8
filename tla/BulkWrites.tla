------------------------------ MODULE BulkWrites -----------------------------
(***************************************************************************)
(* Operations on many tasks: the bar for selected tasks (BatchBar in        *)
(* web/src/components/TaskViews.tsx, batch in AppStore.tsx) with            *)
(* BatchAction (internal/store/tasks.go), "all overdue to today"            *)
(* (internal/store/rollover.go) and "empty what is done" (PurgeCompleted).  *)
(* Each statement commits by itself, and each row is announced to the       *)
(* streams after its write.                                                 *)
(***************************************************************************)
EXTENDS Naturals, FiniteSets

CONSTANTS
  Picks,       \* the tasks
  Lapses,      \* of {"impatient", "changed_since", "roll_fails", "reread_fails"}
  MaxBulks,    \* bound: requests
  MaxOthers    \* bound: writes by others

VARIABLES
  rows,        \* table tasks
  news,        \* rows written since the streams last heard of them
  bulks,       \* requests under way
  selected,    \* selectedIds of the page
  asked,       \* ghost: what the last batch wants of each task, while nobody else touches it
  wronged,     \* ghost: tasks a sweep has reached that were not what it is about any more
  nBulks, nOthers

bulkVars == <<rows, news, bulks, selected, asked, wronged, nBulks, nOthers>>

Days    == {"late", "today", "later"}
Actions == {"complete", "reopen", "move", "delete"}
Nothing == "nothing"
Sweeps  == {"roll", "purge"}

\* The rows a sweep is about: what is overdue, what is done.
About(kind) == {t \in Picks : rows[t].live /\ rows[t].done = (kind = "purge")
                              /\ (kind = "roll" => rows[t].day = "late")}

Init ==
  /\ rows = [t \in Picks |-> [live |-> TRUE, done |-> FALSE, day |-> "late"]]
  /\ news = {} /\ bulks = {} /\ selected = {} /\ wronged = {}
  /\ asked = [t \in Picks |-> Nothing]
  /\ nBulks = 0 /\ nOthers = 0

-----------------------------------------------------------------------------
(* The page.                                                               *)

Answered    == \A b \in bulks : b.kind \in Sweeps
Unhurried   == Answered \/ "impatient" \in Lapses

ToggleSelected(t) ==
  /\ Unhurried
  /\ t \in selected \/ rows[t].live
  /\ selected' = (selected \ {t}) \cup ({t} \ selected)
  /\ asked' = [asked EXCEPT ![t] = IF t \in selected THEN Nothing ELSE @]
  /\ UNCHANGED <<rows, news, bulks, wronged, nBulks, nOthers>>

Send(kind, ids) ==
  /\ nBulks < MaxBulks /\ nBulks' = nBulks + 1
  /\ bulks' = bulks \cup {[no |-> nBulks, kind |-> kind, stage |-> "read", todo |-> ids, tell |-> {}]}

\* None of the buttons waits for the answer to the one before.
Batch(action) ==
  /\ selected # {} /\ Unhurried
  /\ Send(action, selected)
  /\ asked' = [t \in Picks |-> IF t \in selected THEN action ELSE asked[t]]
  /\ UNCHANGED <<rows, news, selected, wronged, nOthers>>

\* rollAllOverdue, purgeCompleted, once they are confirmed.
Sweep(kind) ==
  /\ \A b \in bulks : b.kind # kind
  /\ About(kind) # {}
  /\ Send(kind, {})
  /\ UNCHANGED <<rows, news, selected, asked, wronged, nOthers>>

\* Mutant: a refused batch takes the selection with it.
KeptAfter_Never(b) == {}

\* A refusal leaves the selection, so that the rest can be asked for again.
KeptAfter(b) == IF b.stage = "ok" THEN {} ELSE selected

BatchAnswered(b) ==
  /\ b.stage \in {"ok", "failed"}
  /\ bulks' = bulks \ {b}
  /\ selected' = IF b.kind \in Sweeps THEN selected ELSE KeptAfter(b)
  /\ UNCHANGED <<rows, news, asked, wronged, nBulks, nOthers>>

-----------------------------------------------------------------------------
(* The server.                                                             *)

Now(b, c) == bulks' = (bulks \ {b}) \cup {c}

\* Unless it is a lapse, nobody changes a row a sweep has read and not yet reached.
NotBeingSwept(ids) ==
  \A b \in bulks : b.kind \in Sweeps /\ b.todo \cap ids # {} => "changed_since" \in Lapses

Doing(kind, row) ==
  CASE kind = "complete"            -> [row EXCEPT !.done = TRUE]
    [] kind = "reopen"              -> [row EXCEPT !.done = FALSE]
    [] kind \in {"move", "roll"}    -> [row EXCEPT !.day = "today"]
    [] kind = "later"               -> [row EXCEPT !.day = "later"]
    [] kind \in {"delete", "purge"} -> [row EXCEPT !.live = FALSE]

\* The operation reaches the rows in set ids.
Written(kind, ids) ==
  /\ rows' = [t \in Picks |-> IF t \in ids THEN Doing(kind, rows[t]) ELSE rows[t]]
  /\ news' = news \cup ids

\* The SELECTs a request begins with: those of a sweep, the rows to be deleted.
Found(b) == IF b.kind \in Sweeps THEN About(b.kind) ELSE {t \in b.todo : rows[t].live}

Reads(b) ==
  /\ b.stage = "read"
  /\ Now(b, [b EXCEPT !.stage = "write", !.todo = Found(b)])
  /\ UNCHANGED <<rows, news, selected, asked, wronged, nBulks, nOthers>>

\* reopen and the flags are one UPDATE of all rows.
WriteAll(b) ==
  /\ b.stage = "write" /\ b.kind = "reopen"
  /\ NotBeingSwept(b.todo)
  /\ LET there == {t \in b.todo : rows[t].live}
     IN  /\ Written(b.kind, there)
         /\ Now(b, [b EXCEPT !.todo = {}, !.tell = there,
                             !.stage = IF there = {} THEN "write" ELSE "tell"])
  /\ UNCHANGED <<selected, asked, wronged, nBulks, nOthers>>

\* The others go row by row: one that is gone is passed over, one that is done
\* already is not completed again, and a sweep does not look again.
WriteOne(b, t) ==
  /\ b.stage = "write" /\ b.kind # "reopen" /\ t \in b.todo
  /\ b.kind \in Sweeps \/ NotBeingSwept({t})
  /\ LET writes == rows[t].live /\ (b.kind = "complete" => ~rows[t].done)
         c      == [b EXCEPT !.todo = @ \ {t}, !.tell = IF writes THEN @ \cup {t} ELSE @]
     IN  /\ IF writes THEN Written(b.kind, {t}) ELSE UNCHANGED <<rows, news>>
         /\ Now(b, IF writes /\ b.kind # "roll" THEN [c EXCEPT !.stage = "tell"] ELSE c)
  /\ wronged' = IF b.kind \in Sweeps /\ rows[t].live /\ t \notin About(b.kind) THEN wronged \cup {t} ELSE wronged
  /\ UNCHANGED <<selected, asked, nBulks, nOthers>>

\* PurgeCompleted passes over a row it cannot delete.
Skips(b, t) ==
  /\ b.stage = "write" /\ b.kind = "purge" /\ t \in b.todo
  /\ Now(b, [b EXCEPT !.todo = @ \ {t}])
  /\ UNCHANGED <<rows, news, selected, asked, wronged, nBulks, nOthers>>

\* A roll-over tells of its rows when it has written them all.
AllWritten(b) ==
  /\ b.stage = "write" /\ b.todo = {}
  /\ Now(b, [b EXCEPT !.stage = IF b.tell # {} THEN "tell" ELSE "ok"])
  /\ UNCHANGED <<rows, news, selected, asked, wronged, nBulks, nOthers>>

\* GetTask or getTasksByIDs, then emit.
Tell(b, t) ==
  /\ b.stage = "tell" /\ t \in b.tell
  /\ news' = news \ {t}
  /\ LET c == [b EXCEPT !.tell = @ \ {t}]
     IN  Now(b, IF c.tell = {} THEN [c EXCEPT !.stage = "write"] ELSE c)
  /\ UNCHANGED <<rows, selected, asked, wronged, nBulks, nOthers>>

\* A statement fails, or the page gets no answer: what has been written stays.
Fails(b) ==
  /\ b.stage \in {"read", "write", "tell"}
  /\ b.stage = "tell" => "reread_fails" \in Lapses
  /\ b.kind = "purge" /\ b.stage = "write" => b.todo = {}
  /\ b.kind = "roll" /\ b.tell # {} => "roll_fails" \in Lapses
  /\ Now(b, [b EXCEPT !.stage = "failed", !.tell = {}])
  /\ UNCHANGED <<rows, news, selected, asked, wronged, nBulks, nOthers>>

\* Another request completes, reopens, moves or deletes one of the tasks; each of
\* these announces it (TaskCompletion has their steps).
OtherWrites(t, kind) ==
  /\ rows[t].live /\ nOthers < MaxOthers /\ nOthers' = nOthers + 1
  /\ NotBeingSwept({t})
  /\ rows' = [rows EXCEPT ![t] = Doing(kind, @)]
  /\ news' = news \ {t}
  /\ asked' = [asked EXCEPT ![t] = Nothing]
  /\ UNCHANGED <<bulks, selected, wronged, nBulks>>

BulkNext ==
  \/ \E t \in Picks : ToggleSelected(t)
  \/ \E action \in Actions : Batch(action)
  \/ \E kind \in Sweeps : Sweep(kind)
  \/ \E b \in bulks : BatchAnswered(b) \/ Reads(b) \/ WriteAll(b) \/ AllWritten(b) \/ Fails(b)
  \/ \E b \in bulks, t \in Picks : WriteOne(b, t) \/ Skips(b, t) \/ Tell(b, t)
  \/ \E t \in Picks, kind \in {"complete", "reopen", "later", "delete"} : OtherWrites(t, kind)

BulkSpec == Init /\ [][BulkNext]_bulkVars

-----------------------------------------------------------------------------
BulkTypeOK ==
  /\ rows \in [Picks -> [live : BOOLEAN, done : BOOLEAN, day : Days]]
  /\ news \subseteq Picks
  /\ bulks \subseteq [no : Nat, kind : Actions \cup Sweeps, todo : SUBSET Picks, tell : SUBSET Picks,
                      stage : {"read", "write", "tell", "ok", "failed"}]
  /\ selected \subseteq Picks /\ wronged \subseteq Picks
  /\ asked \in [Picks -> Actions \cup {Nothing}]

\* The streams hear of every write: one not yet announced belongs to a request that
\* still has to tell of it, whatever other requests write and tell in between.
NothingUnannounced ==
  \A t \in news : \E b \in bulks : t \in b.tell

\* A task a batch was asked for is as asked, or the batch has not been answered, or
\* the task is still selected and can be asked for again: a batch that fails halfway
\* leaves none behind.
NoneLeftBehind ==
  \A t \in Picks :
     \/ asked[t] = Nothing \/ ~rows[t].live
     \/ t \in selected
     \/ Doing(asked[t], rows[t]) = rows[t]

\* "What is done or archived is not moved", what is open is not cleared: a sweep
\* reaches only what it is about at that moment.
OnlyItsOwnSwept == wronged = {}
=============================================================================
