------------------------------ MODULE AddForms ------------------------------
(***************************************************************************)
(* The forms in which a task or a subtask is written down: quick add        *)
(* (web/src/components/TaskViews.tsx), the calendar's cells and hours       *)
(* (CalendarView.tsx), the subtask lines of a task (TaskDetail.tsx).  Most  *)
(* keep the text until the server has taken it, subtask lines empty first.  *)
(***************************************************************************)
EXTENDS Naturals, FiniteSets

CONSTANTS
  Forms,
  Lines,         \* those that add subtasks
  Haste,         \* of {"impatient", "refused_line"}
  MaxThoughts    \* bound: things written down

ASSUME FormsAssumption == MaxThoughts \in Nat

VARIABLES
  text,          \* what each form holds: the number of a thought, or Empty
  adding,        \* submissions under way
  created,       \* the server: how many rows each thought has become
  erased,        \* thoughts the user has cleared himself
  nThoughts

formVars == <<text, adding, created, erased, nThoughts>>

Empty == 0

Under(f) == {s \in adding : s.form = f}

FormInit ==
  /\ text = [f \in Forms |-> Empty]
  /\ adding = {} /\ erased = {} /\ nThoughts = 0
  /\ created = [n \in 1 .. MaxThoughts |-> 0]

\* Without "impatient" the user waits for the answer before he types or submits
\* again in a form that still holds the text.
Patient(f) == f \in Lines \/ "impatient" \in Haste \/ Under(f) = {}

WriteDown(f) ==
  /\ Patient(f)
  /\ text[f] = Empty \/ \E s \in Under(f) : s.thought = text[f]
  /\ nThoughts < MaxThoughts /\ nThoughts' = nThoughts + 1
  /\ text' = [text EXCEPT ![f] = nThoughts']
  /\ UNCHANGED <<adding, created, erased>>

\* Escape, the cross, an hour chosen elsewhere in the day view.
Erase(f) ==
  /\ text[f] # Empty
  /\ erased' = erased \cup {text[f]}
  /\ text' = [text EXCEPT ![f] = Empty]
  /\ UNCHANGED <<adding, created, nThoughts>>

\* submit, submitDraft: the tags in the text are made first, if there are any.
Submit(f) ==
  /\ text[f] # Empty /\ Patient(f)
  /\ LET free == CHOOSE n \in 0 .. Cardinality(adding) : \A s \in adding : s.no # n
     IN  \E stage \in (IF f \in Lines THEN {"create"} ELSE {"tags", "create"}) :
           adding' = adding \cup {[no |-> free, form |-> f, thought |-> text[f], stage |-> stage]}
  /\ text' = IF f \in Lines THEN [text EXCEPT ![f] = Empty] ELSE text
  /\ UNCHANGED <<created, erased, nThoughts>>

Reaches(s, stage) == adding' = (adding \ {s}) \cup {[s EXCEPT !.stage = stage]}

\* ensureTags: the task is given up when the tags cannot be made.
Tagged(s) ==
  /\ s.stage = "tags"
  /\ Reaches(s, "create") \/ Reaches(s, "refused")
  /\ UNCHANGED <<text, created, erased, nThoughts>>

\* createTask (with no connection it queues the task, see Outbox), addSubtask.
Create(s) ==
  /\ s.stage = "create"
  /\ created' = [created EXCEPT ![s.thought] = @ + 1]
  /\ Reaches(s, "ok")
  /\ UNCHANGED <<text, erased, nThoughts>>

Refuse(s) ==
  /\ s.stage = "create"
  /\ s.form \in Lines => "refused_line" \in Haste
  /\ Reaches(s, "refused")
  /\ UNCHANGED <<text, created, erased, nThoughts>>

\* Mutant: any answer empties the form.
TaskAnswered_Empties(s) ==
  /\ s.stage \in {"ok", "refused"}
  /\ adding' = adding \ {s}
  /\ text' = IF s.form \notin Lines THEN [text EXCEPT ![s.form] = Empty] ELSE text
  /\ UNCHANGED <<created, erased, nThoughts>>

\* A success empties the form, whatever it holds by now.
TaskAnswered(s) ==
  /\ s.stage \in {"ok", "refused"}
  /\ adding' = adding \ {s}
  /\ text' = IF s.stage = "ok" /\ s.form \notin Lines THEN [text EXCEPT ![s.form] = Empty] ELSE text
  /\ UNCHANGED <<created, erased, nThoughts>>

FormNext ==
  \/ \E f \in Forms : WriteDown(f) \/ Erase(f) \/ Submit(f)
  \/ \E s \in adding : Tagged(s) \/ Create(s) \/ Refuse(s) \/ TaskAnswered(s)

FormSpec == FormInit /\ [][FormNext]_formVars

-----------------------------------------------------------------------------
FormTypeOK ==
  /\ text \in [Forms -> 0 .. MaxThoughts]
  /\ adding \subseteq [no : Nat, form : Forms, thought : 1 .. MaxThoughts,
                       stage : {"tags", "create", "ok", "refused"}]
  /\ created \in [1 .. MaxThoughts -> Nat]
  /\ erased \subseteq 1 .. MaxThoughts

\* What a user has written down is in a form, on its way or on the server until he
\* clears it, and becomes one task.
ThoughtsKept ==
  \A n \in 1 .. nThoughts :
     /\ \/ n \in erased \/ created[n] > 0
        \/ \E f \in Forms : text[f] = n
        \/ \E s \in adding : s.thought = n
     /\ created[n] <= 1
=============================================================================
