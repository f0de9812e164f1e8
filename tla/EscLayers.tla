----------------------------- MODULE EscLayers -----------------------------
(***************************************************************************)
(* What lies on top of what on the page (web/src/lib/escStack.ts and        *)
(* modalLayer.ts, Modal and Popover of ui.tsx, the keys of App.tsx): the    *)
(* stack one Escape takes its layer from, the count that makes the page     *)
(* behind a dialog inert, and the question of confirm.                      *)
(***************************************************************************)
EXTENDS Integers, Sequences, FiniteSets, SequencesExt

CONSTANTS
  Slips,        \* of {"menu_of_panel", "field_below", "ask_twice"}
  MaxKeys       \* bound: keys, clicks and timers

VARIABLES
  layers,       \* stack of escStack.ts, by name
  openCount,    \* of modalLayer.ts
  focus,        \* what has the focus: nothing, a button of the task panel, an input
  draft,        \* that input holds text of its own
  multi, detail, nav,   \* multi-selection, task panel, drawer
  shown,        \* confirmState: number of the question, 0 for none
  answers,      \* history: the promises of confirm, settled or not
  escaped,      \* history: the top of the stack at the last Escape, and what that closed
  nKeys

layerVars == <<layers, openCount, focus, draft, multi, detail, nav, shown, answers, escaped, nKeys>>

Modals  == {"ritual", "settings", "confirm"}
NoEsc   == [top |-> "none", closed |-> {}]
In(l)   == l \in ToSet(layers)
Key     == nKeys < MaxKeys /\ nKeys' = nKeys + 1
Inert   == openCount > 0

LayerInit ==
  /\ layers = <<>> /\ openCount = 0 /\ focus = "body" /\ draft = FALSE
  /\ multi = FALSE /\ detail = FALSE /\ nav = FALSE
  /\ shown = 0 /\ answers = <<>> /\ escaped = NoEsc /\ nKeys = 0

\* Effects of a layer that opens or closes: the stack, and for a Modal the count.
Pushed(l) == /\ layers' = Append(layers, l)
             /\ openCount' = openCount + (IF l \in Modals THEN 1 ELSE 0)

\* Mutant: closing takes the top entry whatever closed.
Popped_Top(l) ==
  /\ layers' = IF In(l) THEN Front(layers) ELSE layers
  /\ openCount' = openCount - (IF In(l) /\ l \in Modals THEN 1 ELSE 0)

\* An entry leaves the stack by its id, wherever it is.
Popped(l) ==
  /\ layers' = IF In(l) THEN RemoveAt(layers, CHOOSE i \in DOMAIN layers : layers[i] = l) ELSE layers
  /\ openCount' = openCount - (IF In(l) /\ l \in Modals THEN 1 ELSE 0)

Same == UNCHANGED <<multi, detail, nav, shown, answers, escaped>>

\* A dialog of the day opens by its timer, over whatever is there; settings by a click.
OpenRitual ==
  /\ ~In("ritual") /\ Key
  /\ Pushed("ritual") /\ focus' = "body"
  /\ UNCHANGED draft /\ Same

OpenSettings ==
  /\ ~Inert /\ ~In("menu") /\ Key
  /\ Pushed("settings") /\ focus' = "body"
  /\ UNCHANGED draft /\ Same

CloseDialog(d) ==
  /\ In(d) /\ shown = 0 /\ Key
  /\ Popped(d) /\ focus' = "body"
  /\ UNCHANGED draft /\ Same

\* The menu of the task panel: the focus stays on a button of the panel.
OpenMenu ==
  /\ detail /\ ~Inert /\ ~In("menu") /\ Key
  /\ Pushed("menu") /\ focus' = "panel"
  /\ UNCHANGED draft /\ Same

\* A press outside closes the popover and moves the focus.
ClickOutside ==
  /\ In("menu") /\ Key
  /\ Popped("menu") /\ focus' = "body"
  /\ UNCHANGED draft /\ Same

RemindersArrive ==
  /\ ~In("reminders") /\ Key
  /\ Pushed("reminders")
  /\ UNCHANGED <<focus, draft>> /\ Same

Collapse ==
  /\ In("reminders") /\ Key
  /\ Popped("reminders")
  /\ UNCHANGED <<focus, draft>> /\ Same

-----------------------------------------------------------------------------
\* confirm: one state, one ConfirmHost.  A second question takes the place of the first.
\* Without "ask_twice" nobody asks while one is shown.
Ask ==
  /\ "ask_twice" \notin Slips => shown = 0
  /\ Key
  /\ answers' = Append(answers, "open")
  /\ shown' = Len(answers) + 1
  /\ IF shown = 0 THEN Pushed("confirm") ELSE UNCHANGED <<layers, openCount>>
  /\ focus' = "body"
  /\ UNCHANGED <<draft, multi, detail, nav, escaped>>

Settled(ok) ==
  /\ answers' = [answers EXCEPT ![shown] = ok]
  /\ shown' = 0
  /\ Popped("confirm")

Answer(ok) ==
  /\ shown # 0 /\ Key
  /\ Settled(ok)
  /\ UNCHANGED <<focus, draft, multi, detail, nav, escaped>>

-----------------------------------------------------------------------------
FocusPanel ==
  /\ detail /\ ~Inert /\ Key
  /\ focus' = "panel"
  /\ UNCHANGED <<layers, openCount, draft>> /\ Same

\* An input with an Escape of its own: quick add, search, a name, the address of a task.
TypeIn ==
  /\ ~Inert /\ Key
  /\ focus' = "field" /\ draft' = TRUE
  /\ UNCHANGED <<layers, openCount>> /\ Same

SelectMany == ~Inert /\ Key /\ multi' = TRUE /\ UNCHANGED <<layers, openCount, focus, draft, detail, nav, shown, answers, escaped>>
OpenTask   == ~Inert /\ Key /\ detail' = TRUE /\ UNCHANGED <<layers, openCount, focus, draft, multi, nav, shown, answers, escaped>>
OpenDrawer == ~Inert /\ Key /\ nav' = TRUE /\ UNCHANGED <<layers, openCount, focus, draft, multi, detail, shown, answers, escaped>>

\* t and i choose a list, and with it drop selection and panel; the others only a view.
\* They do not ask whether a dialog is open.
Shortcut(list) ==
  /\ focus # "field" /\ Key
  /\ nav' = FALSE
  /\ IF list THEN /\ multi' = FALSE /\ detail' = FALSE
                  /\ Popped("menu")
                  /\ focus' = IF focus = "panel" THEN "body" ELSE focus
     ELSE UNCHANGED <<multi, detail, layers, openCount, focus>>
  /\ UNCHANGED <<draft, shown, answers, escaped>>

-----------------------------------------------------------------------------
\* One press of Escape on its way up: the input, the panel, the stack, the page.
\* Without "field_below" no layer is open beside the input.
EscInField ==
  /\ focus = "field"
  /\ "field_below" \notin Slips => layers = <<>>
  /\ draft' = FALSE /\ focus' = "body"
  /\ UNCHANGED <<multi, detail, nav>>
  /\ IF layers = <<>> THEN UNCHANGED <<layers, openCount, shown, answers>>
     ELSE IF Last(layers) = "confirm" THEN Settled("no")
     ELSE Popped(Last(layers)) /\ UNCHANGED <<shown, answers>>

\* The panel closes itself and stops the event, with all that hangs on it.
\* Without "menu_of_panel" none is open.
EscInPanel ==
  /\ focus = "panel"
  /\ "menu_of_panel" \notin Slips => layers = <<>>
  /\ detail' = FALSE /\ focus' = "body"
  /\ Popped("menu")
  /\ UNCHANGED <<draft, multi, nav, shown, answers>>

EscInStack ==
  /\ focus = "body" /\ layers # <<>>
  /\ IF Last(layers) = "confirm" THEN Settled("no")
     ELSE Popped(Last(layers)) /\ UNCHANGED <<shown, answers>>
  /\ UNCHANGED <<focus, draft, multi, detail, nav>>

EscOnPage ==
  /\ focus = "body" /\ layers = <<>>
  /\ IF multi THEN multi' = FALSE /\ UNCHANGED <<detail, nav>>
     ELSE IF detail THEN detail' = FALSE /\ UNCHANGED <<multi, nav>>
     ELSE nav' = FALSE /\ UNCHANGED <<multi, detail>>
  /\ UNCHANGED <<layers, openCount, focus, draft, shown, answers>>

Closed ==
  (ToSet(layers) \ ToSet(layers'))
    \cup (IF draft /\ ~draft' THEN {"draft"} ELSE {}) \cup (IF multi /\ ~multi' THEN {"multi"} ELSE {})
    \cup (IF detail /\ ~detail' THEN {"detail"} ELSE {}) \cup (IF nav /\ ~nav' THEN {"nav"} ELSE {})

Escape ==
  /\ Key
  /\ EscInField \/ EscInPanel \/ EscInStack \/ EscOnPage
  /\ escaped' = [top |-> IF layers = <<>> THEN "none" ELSE Last(layers), closed |-> Closed]

LayerNext ==
  \/ OpenRitual \/ OpenSettings \/ \E d \in {"ritual", "settings"} : CloseDialog(d)
  \/ OpenMenu \/ ClickOutside \/ RemindersArrive \/ Collapse
  \/ Ask \/ \E ok \in {"yes", "no"} : Answer(ok)
  \/ FocusPanel \/ TypeIn \/ SelectMany \/ OpenTask \/ OpenDrawer
  \/ \E list \in BOOLEAN : Shortcut(list)
  \/ Escape

-----------------------------------------------------------------------------
LayerTypeOK ==
  /\ layers \in Seq(Modals \cup {"menu", "reminders"}) /\ IsInjective(layers)
  /\ openCount \in 0 .. 3 /\ focus \in {"body", "panel", "field"}
  /\ {draft, multi, detail, nav} \subseteq BOOLEAN
  /\ shown \in 0 .. Len(answers) /\ answers \in Seq({"open", "yes", "no"})

\* One Escape closes one thing, and that is the top of the stack as long as there is one.
EscClosesTop ==
  /\ Cardinality(escaped.closed) <= 1
  /\ escaped.top # "none" => escaped.closed = {escaped.top}

\* The page behind is inert exactly as long as a dialog is open, and every question is
\* answered or still on the screen.
NoneStuck ==
  /\ Inert <=> ToSet(layers) \cap Modals # {}
  /\ \A q \in DOMAIN answers : answers[q] = "open" => q = shown /\ In("confirm")
=============================================================================
