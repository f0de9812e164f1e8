------------------------------ MODULE TaskEditor ------------------------------
(***************************************************************************)
(* The panel that edits a task (web/src/components/TaskDetail.tsx): fields   *)
(* that keep a draft, save it after a pause in typing, at once when they     *)
(* lose the focus and once more when the panel closes, and take over what    *)
(* the server has when nobody is typing.  Title and notes are texts, the     *)
(* estimate a number whose draft only hides the row, the day to start a      *)
(* DraftInput, which keeps its draft and its timer across tasks.             *)
(*                                                                           *)
(* A value is the number of the key stroke it was typed with; 0 is the value *)
(* of the load, MaxKeys + 1 one typed on another device.                     *)
(***************************************************************************)
EXTENDS Naturals

CONSTANTS
  EditTasks,    \* tasks that may be open in the panel
  Fields,       \* of {"title", "notes", "estimate", "start"}
  Disorder,      \* of {"overlap", "switch_early", "watch"}: see Calm, Open and Reread
  NoTask, NoDraft, NoCall, NoRow,   \* model values
  MaxKeys,      \* bound: key strokes
  MaxMoves      \* bound: fields focused, tasks opened, writes of other devices

VARIABLES
  server,       \* the tasks as the server has them
  row,          \* the tasks as the page's list has them
  open,         \* the task in the panel
  focus,        \* the field that has the focus
  draft,        \* per field: what the input shows, NoDraft where the row shows through
  sent,         \* per text: titleSent, notesSent
  pending,      \* per field: the call the debounce will make
  calls,        \* updates on their way
  reread,       \* the list is to be read again (reconcile, or a 409)
  typed,        \* history: what the user typed last, per task and field
  foreign,      \* history: the fields another device has changed
  nKeys, nMoves

editVars == <<server, row, open, focus, draft, sent, pending, calls, reread,
              typed, foreign, nKeys, nMoves>>

Values == 0 .. MaxKeys + 1
Texts  == Fields \cap {"title", "notes"}
Task   == [value : [Fields -> Values], version : Nat]
Call   == [task : EditTasks, field : Fields, value : Values, version : Nat,
           by : {"timer", "user"}, answer : Task \cup {NoRow}, done : BOOLEAN]

\* useDebouncedCallback keeps the closure of the call, with the row it saw;
\* the commit of DraftInput reads the newest closure when it runs.
Pend(f, v) == [value |-> v, task |-> open, old |-> row[open].value[f], version |-> row[open].version]

\* updateTask sends the version of the row its closure saw (If-Match).
Update(t, f, v, version, by) ==
  [task |-> t, field |-> f, value |-> v, version |-> version, by |-> by,
   answer |-> NoRow, done |-> FALSE]

\* What the debounced call of a field does when it is made.
Fire(f) ==
  LET p == pending[f]
  IN  IF p = NoCall \/ (f = "start" /\ open = NoTask) \/ (f \in Texts /\ p.value = p.old) THEN {}
      ELSE IF f = "start" THEN {Update(open, f, p.value, row[open].version, "timer")}
      ELSE {Update(p.task, f, p.value, p.version, "timer")}

\* The effect that brings the row of the server into the input.
Synced(f, remote) ==
  CASE remote = draft[f] -> [draft |-> draft[f], sent |-> sent[f]]
    [] remote # draft[f] /\ remote = sent[f] -> [draft |-> draft[f], sent |-> NoDraft]
    [] OTHER -> [draft |-> IF focus = f THEN draft[f] ELSE remote, sent |-> sent[f]]

\* The list changes, and every input whose value changed runs its effect.
ShowRows(new) ==
  LET changed(f) == open # NoTask /\ new[open].value[f] # row[open].value[f]
  IN  /\ row' = new
      /\ draft' = [f \in Fields |->
           CASE ~changed(f) -> draft[f]
             [] changed(f) /\ f \in Texts -> Synced(f, new[open].value[f]).draft
             [] changed(f) /\ f = "start" /\ focus # f -> NoDraft
             [] OTHER -> draft[f]]
      /\ sent' = [f \in Texts |->
           IF changed(f) THEN Synced(f, new[open].value[f]).sent ELSE sent[f]]

Init ==
  /\ server = [t \in EditTasks |-> [value |-> [f \in Fields |-> 0], version |-> 0]]
  /\ row = server
  /\ open = NoTask /\ focus = "none"
  /\ draft = [f \in Fields |-> NoDraft] /\ sent = [f \in Texts |-> NoDraft]
  /\ pending = [f \in Fields |-> NoCall]
  /\ calls = {} /\ reread = FALSE
  /\ typed = [t \in EditTasks |-> [f \in Fields |-> 0]] /\ foreign = {}
  /\ nKeys = 0 /\ nMoves = 0

-----------------------------------------------------------------------------
(* The user.                                                                *)

\* Without "overlap" he waits for the answer to what was saved last, and for
\* the timer of an estimate or a day before he types into another field.
Calm(fields) ==
  "overlap" \notin Disorder =>
    calls = {} /\ ~reread /\ \A f \in fields \ Texts : pending[f] = NoCall

Move == nMoves < MaxMoves /\ nMoves' = nMoves + 1

\* Opening a task: the texts still in the debounce are saved to the task they
\* were typed for, and all drafts start afresh; the timers of the estimate and
\* of the day go on, and so does the draft of a day the tasks have in common:
\* without "switch_early" neither is left behind.
Open(t) ==
  /\ Calm({}) /\ Move
  /\ open # t /\ focus = "none"
  /\ \A f \in Fields \ Texts :
       "switch_early" \notin Disorder /\ open # NoTask =>
         pending[f] = NoCall /\ draft[f] \in {NoDraft, row[open].value[f]}
  /\ open' = t
  /\ calls' = calls \cup UNION {Fire(f) : f \in Texts}
  /\ pending' = [f \in Fields |-> IF f \in Texts THEN NoCall ELSE pending[f]]
  /\ sent' = [f \in Texts |-> NoDraft]
  /\ draft' = [f \in Fields |->
       CASE f \in Texts -> row[t].value[f]
         [] f = "start" /\ open # NoTask /\ row[t].value[f] = row[open].value[f] -> draft[f]
         [] OTHER -> NoDraft]
  /\ UNCHANGED <<server, row, focus, reread, typed, foreign, nKeys>>

\* Mutant: the timers are cancelled, as unmounting does without a flush.
Close_Cancels ==
  /\ Calm({}) /\ Move
  /\ open # NoTask /\ focus = "none"
  /\ open' = NoTask
  /\ pending' = [f \in Fields |-> NoCall]
  /\ draft' = [f \in Fields |-> NoDraft] /\ sent' = [f \in Texts |-> NoDraft]
  /\ UNCHANGED <<server, row, focus, calls, reread, typed, foreign, nKeys>>

\* Closing the panel makes every call that is still pending; a DraftInput
\* saves the draft it has instead, and drops its timer.
Close ==
  /\ Calm({}) /\ Move
  /\ open # NoTask /\ focus = "none"
  /\ open' = NoTask
  /\ calls' = calls \cup (UNION {Fire(f) : f \in Fields \ {"start"}}) \cup
       {Update(open, f, draft[f], row[open].version, "user") :
          f \in {g \in Fields \cap {"start"} : draft[g] \notin {NoDraft, row[open].value[g]}}}
  /\ pending' = [f \in Fields |-> NoCall]
  /\ draft' = [f \in Fields |-> NoDraft] /\ sent' = [f \in Texts |-> NoDraft]
  /\ UNCHANGED <<server, row, focus, reread, typed, foreign, nKeys>>

Focus(f) ==
  /\ Calm(Fields \ {f}) /\ Move
  /\ open # NoTask /\ focus = "none"
  /\ focus' = f
  /\ UNCHANGED <<server, row, open, draft, sent, pending, calls, reread, typed, foreign, nKeys>>

\* onChange: the draft is set and the debounce is armed anew.
Key(f) ==
  /\ Calm(Fields \ {f})
  /\ focus = f /\ nKeys < MaxKeys
  /\ nKeys' = nKeys + 1
  /\ draft' = [draft EXCEPT ![f] = nKeys + 1]
  /\ sent' = [g \in Texts |-> IF g = f /\ sent[g] = row[open].value[g] THEN NoDraft ELSE sent[g]]
  /\ pending' = [pending EXCEPT ![f] = Pend(f, nKeys + 1)]
  /\ typed' = [typed EXCEPT ![open][f] = nKeys + 1]
  /\ UNCHANGED <<server, row, open, focus, calls, reread, foreign, nMoves>>

\* onBlur saves what the debounce has not saved yet, and leaves it armed.
Blur(f) ==
  /\ Calm(Fields \ {f})
  /\ focus = f /\ focus' = "none"
  /\ LET unsaved == draft[f] \notin {NoDraft, row[open].value[f]} /\ f # "estimate"
     IN  /\ calls' = calls \cup IF unsaved THEN {Update(open, f, draft[f], row[open].version, "user")} ELSE {}
         /\ sent' = [g \in Texts |-> IF g = f /\ unsaved THEN draft[f] ELSE sent[g]]
  /\ draft' = IF f = "estimate" THEN [draft EXCEPT ![f] = NoDraft] ELSE draft
  /\ UNCHANGED <<server, row, open, pending, reread, typed, foreign, nKeys, nMoves>>

-----------------------------------------------------------------------------
(* Timers, the server and other devices.                                    *)

Debounced(f) ==
  /\ pending[f] # NoCall
  /\ calls' = calls \cup Fire(f)
  /\ pending' = [pending EXCEPT ![f] = NoCall]
  /\ sent' = [g \in Texts |-> IF g = f /\ Fire(f) # {} THEN pending[f].value ELSE sent[g]]
  /\ UNCHANGED <<server, row, open, focus, draft, reread, typed, foreign, nKeys, nMoves>>

\* The handler compares If-Match with the version it has, else it answers 409.
ServerUpdates(c) ==
  LET now   == server[c.task]
      saved == [value |-> [now.value EXCEPT ![c.field] = c.value], version |-> now.version + 1]
      taken == now.version = c.version
  IN  /\ ~c.done
      /\ server' = IF taken THEN [server EXCEPT ![c.task] = saved] ELSE server
      /\ calls' = (calls \ {c}) \cup
           {[c EXCEPT !.done = TRUE, !.answer = IF taken THEN saved ELSE NoRow]}
      /\ UNCHANGED <<row, open, focus, draft, sent, pending, reread, typed, foreign, nKeys, nMoves>>

\* The answer patches the row and sets the reconciliation; a 409 reads the list.
Answered(c) ==
  /\ c.done
  /\ calls' = calls \ {c}
  /\ reread' = TRUE
  /\ IF c.answer = NoRow THEN UNCHANGED <<row, draft, sent>>
     ELSE ShowRows([row EXCEPT ![c.task] = c.answer])
  /\ UNCHANGED <<server, open, focus, pending, typed, foreign, nKeys, nMoves>>

\* The list is read; PageTasks has what happens when several reads overlap.
\* Without "watch" no field changes under the user who has it in the focus.
Reread ==
  /\ reread /\ reread' = FALSE
  /\ \A f \in Fields : focus = f /\ "watch" \notin Disorder
                       => row[open].value[f] = server[open].value[f]
  /\ ShowRows(server)
  /\ UNCHANGED <<server, open, focus, pending, calls, typed, foreign, nKeys, nMoves>>

OtherDeviceEdits(t, f) ==
  /\ Move
  /\ server' = [server EXCEPT ![t] = [value |-> [@.value EXCEPT ![f] = MaxKeys + 1], version |-> @.version + 1]]
  /\ foreign' = foreign \cup {<<t, f>>}
  /\ reread' = TRUE
  /\ UNCHANGED <<row, open, focus, draft, sent, pending, calls, typed, nKeys>>

EditNext ==
  \/ \E t \in EditTasks : Open(t)
  \/ Close
  \/ \E f \in Fields : Focus(f) \/ Key(f) \/ Blur(f) \/ Debounced(f)
  \/ \E c \in calls : ServerUpdates(c) \/ Answered(c)
  \/ Reread
  \/ \E t \in EditTasks, f \in Fields : OtherDeviceEdits(t, f)

EditSpec == Init /\ [][EditNext]_editVars

-----------------------------------------------------------------------------
EditTypeOK ==
  /\ server \in [EditTasks -> Task] /\ row \in [EditTasks -> Task]
  /\ open \in EditTasks \cup {NoTask} /\ focus \in Fields \cup {"none"}
  /\ draft \in [Fields -> Values \cup {NoDraft}] /\ sent \in [Texts -> Values \cup {NoDraft}]
  /\ \A f \in Fields : pending[f] # NoCall => pending[f].task \in EditTasks
  /\ calls \subseteq Call
  /\ reread \in BOOLEAN

\* Nothing typed is still on its way.
Saved == calls = {} /\ ~reread /\ focus = "none" /\ \A f \in Fields : pending[f] = NoCall

\* What the user typed last into a field of a task is what the server has
\* there, and a field he did not type into is as it was: nothing is lost
\* between draft, debounce, blur, switch and close, and nothing lands in the
\* task that was opened next.  A task another device changed is excused: there
\* the server refuses the older version on purpose.
EditKept ==
  Saved => \A t \in EditTasks : (\A f \in Fields : <<t, f>> \notin foreign) => server[t].value = typed[t]

\* At rest an input shows what the server has, whoever wrote last, or what the
\* user typed there and was refused: never a text of another task, or an older
\* one that the answer of an earlier update brought back.
InputsTrue ==
  Saved /\ open # NoTask =>
    \A f \in Fields : draft[f] \in {NoDraft, server[open].value[f], typed[open][f]}

\* What another device wrote is replaced by nothing but what the user typed.
ForeignKept ==
  \A t \in EditTasks, f \in Fields :
    <<t, f>> \in foreign /\ typed[t][f] = 0 => server[t].value[f] = MaxKeys + 1

\* Without other devices no update of this page is refused.
NoOwnConflict ==
  \A c \in calls : c.done /\ c.answer = NoRow => \E f \in Fields : <<c.task, f>> \in foreign
=============================================================================
