---------------------------- MODULE Integrations ----------------------------
(***************************************************************************)
(* The panels of templates and of webhooks (IntegrationsDialog.tsx,         *)
(* extras.go): the rows of the server, those on the page, one editor under  *)
(* them, and tasks made from a template.                                    *)
(***************************************************************************)
EXTENDS Integers, Sequences, FiniteSets, SequencesExt, Functions

CONSTANTS
  Lists, Tags,
  Oversights,   \* of {"other_row", "late_answer", "default_list", "tag_gone", "no_events", "overlap"}
  Nobody,       \* no editor
  MaxRows,      \* bound: rows ever made
  MaxUses       \* bound: clicks of the user and what others do

VARIABLES
  table,        \* rows of the server by id
  tags,         \* tags there are
  tab, panel,   \* which panel is open, and the how manieth
  items,        \* rows on the page
  chosen,       \* list to make a task in, by row, where one was chosen
  editor,       \* Nobody, or the row it saves to, its fields, the row these were taken from
  calls,        \* requests under way
  failed,       \* history: the last load of this panel did not arrive
  meant,        \* history: rows as the user has saved them
  made,         \* history: tasks made, the list it was shown for and the one it is in
  dropped,      \* history: fields the answer to another save has closed
  nUses

integrationVars == <<table, tags, tab, panel, items, chosen, editor, calls, failed, meant, made,
                     dropped, nUses>>

Inbox       == 0
Tabs        == {"templates", "webhooks", "closed"}
NewTemplate == [kind |-> "templates", text |-> "", list |-> Inbox, tags |-> {}]
NewWebhook  == [kind |-> "webhooks", text |-> "", events |-> {"created"}, on |-> TRUE, secret |-> ""]
Fresh       == IF tab = "templates" THEN NewTemplate ELSE NewWebhook
Of(t)       == Restrict(table, {i \in DOMAIN table : table[i].kind = t})
Use         == nUses < MaxUses /\ nUses' = nUses + 1

\* Without "overlap" the user waits for the answer.
Sent(call) ==
  /\ "overlap" \notin Oversights => calls = <<>>
  /\ calls' = Append(calls, call @@ [id |-> 0, body |-> Fresh, from |-> 0, panel |-> panel,
                                     state |-> "sent", answer |-> <<>>])

IntegrationInit ==
  /\ table \in {<<[NewTemplate EXCEPT !.text = "one", !.list = Min(Lists), !.tags = g],
                  [NewTemplate EXCEPT !.text = "two"],
                  [NewWebhook EXCEPT !.text = "one", !.secret = "old"]>> : g \in {{}, Tags}}
  /\ meant = table /\ tags = Tags
  /\ tab = "templates" /\ panel = 1 /\ items = <<>> /\ chosen = <<>> /\ editor = Nobody
  /\ calls = <<[op |-> "load", id |-> 0, body |-> NewTemplate, from |-> 0, panel |-> 1,
                state |-> "sent", answer |-> <<>>]>>
  /\ failed = FALSE /\ made = <<>> /\ dropped = FALSE /\ nUses = 0

-----------------------------------------------------------------------------
\* Another tab, or the dialog closed: the panel and all it holds are gone; the next loads.
OpenTab(t) ==
  /\ Use /\ t # tab
  /\ "overlap" \notin Oversights => \A k \in DOMAIN calls : calls[k].op = "load"
  /\ tab' = t /\ panel' = panel + 1
  /\ items' = <<>> /\ chosen' = <<>> /\ editor' = Nobody /\ failed' = FALSE
  /\ calls' = IF t = "closed" THEN calls
              ELSE Append(calls, [op |-> "load", id |-> 0, body |-> NewTemplate, from |-> 0,
                                  panel |-> panel + 1, state |-> "sent", answer |-> <<>>])
  /\ UNCHANGED <<table, tags, meant, made, dropped>>

Saving == \E i \in DOMAIN calls : calls[i].op = "save" /\ calls[i].panel = panel

\* The eye of a row.  An editor that is open keeps its fields and saves to the other row.
\* Without "other_row" none is open, without "late_answer" nothing is being saved.
EditRow(i) ==
  /\ Use
  /\ i \in DOMAIN items
  /\ "other_row" \notin Oversights => editor = Nobody
  /\ "late_answer" \notin Oversights => ~Saving
  /\ editor' = IF editor = Nobody
               THEN [id |-> i, form |-> IF tab = "webhooks" THEN [items[i] EXCEPT !.secret = ""] ELSE items[i],
                     from |-> i]
               ELSE [editor EXCEPT !.id = i]
  /\ UNCHANGED <<table, tags, tab, panel, items, chosen, calls, failed, meant, made, dropped>>

NewRow ==
  /\ Use
  /\ tab # "closed" /\ editor = Nobody
  /\ "late_answer" \notin Oversights => ~Saving
  /\ editor' = [id |-> 0, form |-> Fresh, from |-> 0]
  /\ UNCHANGED <<table, tags, tab, panel, items, chosen, calls, failed, meant, made, dropped>>

TypeForm(f) ==
  /\ Use
  /\ editor # Nobody /\ f # editor.form
  /\ "late_answer" \notin Oversights => ~Saving
  /\ "no_events" \notin Oversights /\ tab = "webhooks" => f.events # {}
  /\ editor' = [editor EXCEPT !.form = f]
  /\ UNCHANGED <<table, tags, tab, panel, items, chosen, calls, failed, meant, made, dropped>>

Typed(f) ==
  {[f EXCEPT !.text = "new"]} \cup
  (IF f.kind = "templates" THEN {[f EXCEPT !.list = l] : l \in Lists \cup {Inbox}}
   ELSE {[f EXCEPT !.secret = "new"], [f EXCEPT !.on = ~@]} \cup {[f EXCEPT !.events = e] : e \in {{}, {"created"}}})

CancelEdit ==
  /\ Use
  /\ editor # Nobody
  /\ editor' = Nobody
  /\ UNCHANGED <<table, tags, tab, panel, items, chosen, calls, failed, meant, made, dropped>>

\* Nothing is sent without a name, nor twice.
Save ==
  /\ Use
  /\ editor # Nobody /\ editor.form.text # "" /\ ~Saving
  /\ Sent([op |-> "save", id |-> editor.id, body |-> editor.form, from |-> editor.from])
  /\ UNCHANGED <<table, tags, tab, panel, items, chosen, editor, failed, meant, made, dropped>>

ToggleHook(i) ==
  /\ Use
  /\ tab = "webhooks" /\ i \in DOMAIN items
  /\ Sent([op |-> "toggle", id |-> i, body |-> [items[i] EXCEPT !.on = ~@]])
  /\ UNCHANGED <<table, tags, tab, panel, items, chosen, editor, failed, meant, made, dropped>>

RemoveRow(i) ==
  /\ Use
  /\ i \in DOMAIN items
  /\ "late_answer" \notin Oversights => i # IF editor = Nobody THEN 0 ELSE editor.id
  /\ Sent([op |-> "delete", id |-> i])
  /\ UNCHANGED <<table, tags, tab, panel, items, chosen, editor, failed, meant, made, dropped>>

\* The list a row of the page shows for its task.
ShownList(i) == IF i \in DOMAIN chosen THEN chosen[i] ELSE items[i].list

ChooseList(i, l) ==
  /\ Use
  /\ tab = "templates" /\ i \in DOMAIN items /\ l # ShownList(i)
  /\ "default_list" \notin Oversights => l # Inbox
  /\ chosen' = i :> l @@ chosen
  /\ UNCHANGED <<table, tags, tab, panel, items, editor, calls, failed, meant, made, dropped>>

\* A list is sent when one was chosen; the inbox counts as none.
Instantiate(i) ==
  /\ Use
  /\ tab = "templates" /\ i \in DOMAIN items
  /\ "tag_gone" \notin Oversights => items[i].tags \subseteq tags
  /\ Sent([op |-> "make", id |-> i, from |-> ShownList(i),
           body |-> [NewTemplate EXCEPT !.list = IF i \in DOMAIN chosen THEN chosen[i] ELSE Inbox]])
  /\ UNCHANGED <<table, tags, tab, panel, items, chosen, editor, failed, meant, made, dropped>>

\* A task kept as a template, from the panel of the task: the dialog is not open.
SaveAsTemplate(l) ==
  /\ Use /\ Len(table) < MaxRows
  /\ tab = "closed"
  /\ table' = Append(table, [NewTemplate EXCEPT !.text = "task", !.list = l, !.tags = tags])
  /\ meant' = Append(meant, Last(table'))
  /\ UNCHANGED <<tags, tab, panel, items, chosen, editor, calls, failed, made, dropped>>

\* The row keeps the number.  Without "tag_gone" no template names it.
DeleteTag(g) ==
  /\ Use
  /\ g \in tags
  /\ "tag_gone" \notin Oversights => g \notin UNION {t.tags : t \in Range(Of("templates"))}
  /\ tags' = tags \ {g}
  /\ UNCHANGED <<table, tab, panel, items, chosen, editor, calls, failed, meant, made, dropped>>

-----------------------------------------------------------------------------
Gone == [kind |-> "none", text |-> ""]

\* Mutant: what is not in the fields is emptied.
Merged_All(row, body) == body

\* What an update leaves alone: the tags of a template, a secret that was left empty.
Merged(row, body) ==
  IF row.kind = "templates" THEN [body EXCEPT !.tags = row.tags]
  ELSE [body EXCEPT !.secret = IF @ = "" THEN row.secret ELSE @]

\* A webhook made without an event gets the usual ones.
Made(body) == IF body.kind = "webhooks" /\ body.events = {} THEN [body EXCEPT !.events = {"created"}] ELSE body

Answers(k, state, answer) == calls' = [calls EXCEPT ![k].state = state, ![k].answer = answer]
Refused(k) == Answers(k, "refused", <<>>) /\ UNCHANGED <<table, meant, made>>

ServerReads(k) ==
  /\ calls[k].op = "load" /\ calls[k].state = "sent"
  /\ Answers(k, "done", IF calls[k].panel = panel THEN Of(tab) ELSE <<>>)
  /\ UNCHANGED <<table, meant, made>>

ServerCreates(k) ==
  /\ calls[k].op = "save" /\ calls[k].id = 0 /\ calls[k].state = "sent"
  /\ Len(table) < MaxRows
  /\ table' = Append(table, Made(calls[k].body))
  /\ meant' = Append(meant, calls[k].body)
  /\ Answers(k, "done", (Len(table) + 1) :> Made(calls[k].body))
  /\ UNCHANGED made

\* What the user means by the fields of an editor: no more than they show.
Meant(row, body) ==
  CASE row.kind = "templates" -> [row EXCEPT !.text = body.text, !.list = body.list]
    [] row.kind = "webhooks"  -> [row EXCEPT !.text = body.text, !.events = body.events, !.on = body.on,
                                             !.secret = IF body.secret = "" THEN @ ELSE body.secret]
    [] OTHER -> row

ServerUpdates(k) ==
  LET c   == calls[k]
      row == table[c.id]
      new == IF c.op = "toggle" THEN [row EXCEPT !.on = c.body.on] ELSE Merged(row, c.body)
      for == IF c.op = "toggle" THEN c.id ELSE c.from
  IN  /\ c.op \in {"save", "toggle"} /\ c.id # 0 /\ c.state = "sent"
      /\ IF row = Gone \/ (new.kind = "webhooks" /\ new.events = {}) THEN Refused(k)
         ELSE /\ table' = [table EXCEPT ![c.id] = new]
              /\ meant' = IF for = 0 THEN meant
                          ELSE [meant EXCEPT ![for] = IF c.op = "toggle" THEN [@ EXCEPT !.on = c.body.on]
                                                      ELSE Meant(@, c.body)]
              /\ Answers(k, "done", c.id :> new)
              /\ UNCHANGED made

ServerDeletes(k) ==
  /\ calls[k].op = "delete" /\ calls[k].state = "sent"
  /\ IF table[calls[k].id] = Gone THEN Refused(k)
     ELSE /\ table' = [table EXCEPT ![calls[k].id] = Gone]
          /\ meant' = [meant EXCEPT ![calls[k].id] = Gone]
          /\ Answers(k, "done", <<>>) /\ UNCHANGED made

\* The list of the request, else that of the template, else the inbox.  A tag that is gone
\* makes the whole fail.
ServerMakes(k) ==
  LET c == calls[k]
      t == table[c.id]
  IN  /\ c.op = "make" /\ c.state = "sent"
      /\ IF t = Gone THEN Refused(k)
         ELSE /\ made' = Append(made, [shown |-> c.from, list |-> IF ~(t.tags \subseteq tags) THEN -1
                                                                 ELSE IF c.body.list # Inbox THEN c.body.list ELSE t.list])
              /\ Answers(k, IF t.tags \subseteq tags THEN "done" ELSE "refused", <<>>)
              /\ UNCHANGED <<table, meant>>

ServerDoes(k) ==
  /\ ServerReads(k) \/ ServerCreates(k) \/ ServerUpdates(k) \/ ServerDeletes(k) \/ ServerMakes(k)
  /\ UNCHANGED <<tags, tab, panel, items, chosen, editor, failed, dropped, nUses>>

CallFails(k) ==
  /\ Use
  /\ calls[k].state = "sent" /\ Refused(k)
  /\ UNCHANGED <<tags, tab, panel, items, chosen, editor, failed, dropped>>

-----------------------------------------------------------------------------
\* An answer changes the panel that asked, if it is still open.  A save closes the editor,
\* whatever is in it; the panel of webhooks then loads its rows anew.
Reloads(c) == c.op = "save" /\ c.state = "done" /\ c.panel = panel /\ tab = "webhooks"

AnswerLands(k) ==
  LET c == calls[k] IN
  /\ c.state # "sent"
  /\ calls' = LET rest == RemoveAt(calls, k)
              IN  IF Reloads(c) THEN Append(rest, [c EXCEPT !.op = "load", !.state = "sent", !.answer = <<>>]) ELSE rest
  /\ IF c.panel # panel THEN UNCHANGED <<items, editor, failed, dropped>>
     ELSE IF c.state = "refused"
     THEN failed' = (failed \/ c.op = "load") /\ UNCHANGED <<items, editor, dropped>>
     ELSE /\ items' = CASE c.op = "load"   -> c.answer
                        [] c.op = "delete" -> Restrict(items, DOMAIN items \ {c.id})
                        [] c.op = "toggle" -> IF c.id \in DOMAIN items THEN c.answer @@ items ELSE items
                        [] c.op = "save" /\ tab = "templates" -> c.answer @@ items
                        [] OTHER -> items
          /\ failed' = (failed /\ c.op # "load")
          /\ editor' = IF c.op = "save" THEN Nobody ELSE editor
          /\ dropped' = (dropped \/ (c.op = "save" /\ editor # Nobody /\ <<editor.from, editor.form>> # <<c.from, c.body>>))
  /\ UNCHANGED <<table, tags, tab, panel, chosen, meant, made, nUses>>

IntegrationNext ==
  \/ \E t \in Tabs : OpenTab(t)
  \/ \E i \in DOMAIN items : EditRow(i) \/ ToggleHook(i) \/ RemoveRow(i) \/ Instantiate(i)
                             \/ \E l \in Lists \cup {Inbox} : ChooseList(i, l)
  \/ NewRow \/ CancelEdit \/ Save \/ (editor # Nobody /\ \E f \in Typed(editor.form) : TypeForm(f))
  \/ \E l \in Lists : SaveAsTemplate(l)
  \/ \E g \in Tags : DeleteTag(g)
  \/ \E k \in DOMAIN calls : ServerDoes(k) \/ CallFails(k) \/ AnswerLands(k)

-----------------------------------------------------------------------------
IntegrationTypeOK ==
  /\ tab \in Tabs /\ tags \subseteq Tags /\ DOMAIN items \subseteq DOMAIN table
  /\ \A i \in DOMAIN items : items[i].kind = tab
  /\ editor = Nobody \/ (editor.id \in 0 .. Len(table) /\ editor.form.kind = tab)
  /\ DOMAIN chosen \subseteq DOMAIN table /\ {failed, dropped} \subseteq BOOLEAN

\* Every row is what the user has saved for it: no editor has written to another row, and
\* none has taken away what it does not show.
SavedWhereEdited == table = meant

\* Fields are closed by their own save, or by the user.
NoFieldsDropped == ~dropped

\* A task made from a template is in the list the row showed.
MadeWhereShown == \A i \in DOMAIN made : made[i].list = made[i].shown

\* When nothing is under way the panel shows the rows there are.
RowsAgree == calls = <<>> /\ ~failed => items = Of(tab)
=============================================================================
